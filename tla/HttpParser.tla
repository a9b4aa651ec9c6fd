----------------------------- MODULE HttpParser -----------------------------
(***************************************************************************)
(* The request parser of one http_connection: read() appends what the      *)
(* client sent to m_read_buf, process_read() takes the buffer apart line   *)
(* by line.                                                                *)
(*                                                                         *)
(* No lock guards the fields.  main calls read() whenever epoll reports    *)
(* input, whether or not a worker is in process_read(), and since addfd    *)
(* drops EPOLLONESHOT, several workers can be in process_read() of the     *)
(* same connection.  A step is one access, or several that nobody else     *)
(* can tell apart as long as ~raced.                                       *)
(*                                                                         *)
(* The buffer is a sequence of lexemes: "CR", "LF", "SP" and "NUL" stand   *)
(* for one character, any other lexeme for a run of ordinary characters.   *)
(* Indexes count from 0, as in the code.  Behind the data it is all NUL.   *)
(***************************************************************************)
EXTENDS Integers, Sequences, SequencesExt

CONSTANTS
  Workers,   \* the threads of the pool
  Chunks,    \* what one recv() may return
  MaxChunks, \* bound on the number of recv()s
  MaxReuses  \* bound on the connections that get the slot after the first one

ASSUME ChunksAssumption ==
  MaxChunks \in Nat /\ MaxReuses \in Nat /\ \A c \in Chunks : c \in Seq(STRING) /\ c # <<>>

VARIABLES
  \* fields of the connection
  m_read_buf,      \* the characters received so far; the rest is NUL
  m_read_idx,      \* how many characters main has counted
  m_checked_index, \* next character to be looked at
  m_start_line,    \* first character of the current line
  m_check_state,   \* "REQUESTLINE" or "HEADER"
  \* main thread
  main,            \* "idle", "count" (recv has returned), "more" (next: recv or append)
  requests,        \* requests for this connection that wait in the pool
  chunks, reuses,  \* counters for the bounds
  \* per worker
  pc,              \* where it is in process_read
  text,            \* the line it has taken, as an index
  \* history
  result,          \* what process_read returned last; "undefined": it wrote through NULL
  status,          \* what parse_line returned before that
  received,        \* all that was received, in its original form
  asked,           \* the last append was accepted
  raced            \* two workers took a line at once, or init() ran under a request

buffer == <<m_read_buf, received, m_read_idx>>
lines == <<m_checked_index, m_start_line, m_check_state>>
counters == <<chunks, reuses>>
vars == <<buffer, lines, main, requests, counters, pc, text, result, status, asked, raced>>

Crashed == result = "undefined"
Running == {w \in Workers : pc[w] # "idle"}
Quiet == main = "idle" /\ requests = 0 /\ Running = {}

\* users[fd].init(sockfd, addr) of the first connection.
Init ==
  /\ m_read_buf = <<>> /\ received = <<>> /\ m_read_idx = 0
  /\ m_checked_index = 0 /\ m_start_line = 0 /\ m_check_state = "REQUESTLINE"
  /\ main = "idle" /\ requests = 0 /\ chunks = 0 /\ reuses = 0
  /\ pc = [w \in Workers |-> "idle"] /\ text = [w \in Workers |-> 0]
  /\ result = "none" /\ status = "none" /\ asked = FALSE /\ raced = FALSE

-----------------------------------------------------------------------------
(* The main thread: read() and append *)

Recv(c) ==
  /\ main \in {"idle", "more"} /\ ~Crashed /\ chunks < MaxChunks
  /\ m_read_buf' = m_read_buf \o c /\ received' = received \o c
  /\ main' = "count" /\ chunks' = chunks + 1
  /\ UNCHANGED <<m_read_idx, lines, requests, reuses, pc, text, result, status, asked, raced>>

\* m_read_idx += bytes_read
Count ==
  /\ main = "count" /\ ~Crashed
  /\ m_read_idx' = Len(m_read_buf) /\ main' = "more"
  /\ UNCHANGED <<m_read_buf, received, lines, requests, counters, pc, text, result, status, asked,
                 raced>>

\* recv has nothing more, and the connection goes to the pool, which may refuse it.
AppendRequest ==
  /\ main = "more" /\ ~Crashed /\ main' = "idle"
  /\ \/ requests' = requests + 1 /\ asked' = TRUE
     \/ UNCHANGED requests /\ asked' = FALSE
  /\ UNCHANGED <<buffer, lines, counters, pc, text, result, status, raced>>

\* The connection has been closed, accept has returned its descriptor again, and init()
\* clears the slot, without regard to the requests of the old connection.
Reuse ==
  /\ main = "idle" /\ ~Crashed /\ reuses < MaxReuses
  /\ reuses' = reuses + 1
  /\ m_read_buf' = <<>> /\ received' = <<>> /\ m_read_idx' = 0
  /\ m_checked_index' = 0 /\ m_start_line' = 0 /\ m_check_state' = "REQUESTLINE"
  /\ result' = "none" /\ status' = "none" /\ asked' = FALSE
  /\ raced' = IF Quiet THEN raced ELSE TRUE
  /\ UNCHANGED <<main, requests, chunks, pc, text>>

-----------------------------------------------------------------------------
(* A worker in process_read: the loop in parse_line, every branch of which returns *)

Char(i) == IF i < Len(m_read_buf) THEN m_read_buf[i + 1] ELSE "NUL"

At(w, label) == pc[w] = label /\ ~Crashed
Goto(w, label) == pc' = [pc EXCEPT ![w] = label]

Start(w) ==
  /\ At(w, "idle") /\ requests > 0
  /\ requests' = requests - 1 /\ Goto(w, "test")
  /\ UNCHANGED <<buffer, lines, main, counters, text, result, status, asked, raced>>

\* process_read returns code, parse_line having answered answer.
Return(w, answer, code) ==
  /\ Goto(w, "idle") /\ status' = answer /\ result' = code
  /\ UNCHANGED <<text, raced>>

Proceed(w, label) == Goto(w, label) /\ UNCHANGED <<text, result, status, raced>>

\* From here on the worker takes a line, which ends in LINE_OK.
Taking == {"clear first", "clear second", "clear both", "take", "start", "parse"}
TakeLine(w, label) ==
  /\ Goto(w, label)
  /\ raced' = IF \E v \in Workers : pc[v] \in Taking THEN TRUE ELSE raced
  /\ UNCHANGED <<text, result, status>>

UntouchedByTests == <<buffer, lines, main, requests, counters, asked>>

TestData(w) ==
  /\ At(w, "test")
  /\ IF m_checked_index < m_read_idx THEN Proceed(w, "look") ELSE TakeLine(w, "take")
  /\ UNCHANGED UntouchedByTests

\* Mutant of LookAt: ordinary characters are looked at again, without a step to the next.
LookAtStaying(w) ==
  /\ At(w, "look")
  /\ \/ Char(m_checked_index) = "CR" /\ Proceed(w, "cr")
     \/ Char(m_checked_index) = "LF" /\ Proceed(w, "lf")
     \/ Char(m_checked_index) \notin {"CR", "LF"} /\ Proceed(w, "test")
  /\ UNCHANGED UntouchedByTests

LookAt(w) ==
  /\ At(w, "look")
  /\ \/ Char(m_checked_index) = "CR" /\ Proceed(w, "cr")
     \/ Char(m_checked_index) = "LF" /\ Proceed(w, "lf")
     \/ Char(m_checked_index) \notin {"CR", "LF"} /\ Return(w, "OPEN", "NO_REQUEST")
  /\ UNCHANGED UntouchedByTests

\* Mutant of AtCR: a CR at the end of the data is stepped over.
AtCRStepsOver(w) ==
  /\ At(w, "cr")
  /\ IF m_read_idx = m_checked_index + 1
     THEN Return(w, "OPEN", "NO_REQUEST") /\ m_checked_index' = m_checked_index + 1
     ELSE Proceed(w, "next") /\ UNCHANGED m_checked_index
  /\ UNCHANGED <<buffer, m_start_line, m_check_state, main, requests, counters, asked>>

\* A CR: is it the last character?
AtCR(w) ==
  /\ At(w, "cr")
  /\ IF m_read_idx = m_checked_index + 1 THEN Return(w, "OPEN", "NO_REQUEST") ELSE Proceed(w, "next")
  /\ UNCHANGED UntouchedByTests

\* Mutant of AfterCR: whatever follows the CR, it ends the line.
AfterCRUntested(w) ==
  /\ At(w, "next") /\ TakeLine(w, "clear first")
  /\ UNCHANGED UntouchedByTests

\* A CR with something behind it.
AfterCR(w) ==
  /\ At(w, "next")
  /\ IF Char(m_checked_index + 1) = "LF" THEN TakeLine(w, "clear first")
     ELSE Return(w, "BAD", "NO_REQUEST")
  /\ UNCHANGED UntouchedByTests

\* A LF: does it end the CR of the reads before?
AtLF(w) ==
  /\ At(w, "lf")
  /\ IF m_checked_index > 1 /\ Char(m_checked_index - 1) = "CR" THEN TakeLine(w, "clear both")
     ELSE Return(w, "BAD", "NO_REQUEST")
  /\ UNCHANGED UntouchedByTests

\* The buffer with NUL at index i.
Cleared(buf, i) == IF i < Len(buf) THEN [buf EXCEPT ![i + 1] = "NUL"] ELSE buf

UntouchedByClears == <<received, m_read_idx, m_start_line, m_check_state, main, requests, counters,
                       asked>>

\* m_read_buf[m_checked_index++] = '\0', twice
ClearFirst(w) ==
  /\ At(w, "clear first") /\ Proceed(w, "clear second")
  /\ m_read_buf' = Cleared(m_read_buf, m_checked_index)
  /\ m_checked_index' = m_checked_index + 1
  /\ UNCHANGED UntouchedByClears

\* Mutant of ClearSecond: the line ends behind the characters that are cleared.
ClearSecondTooFar(w) ==
  /\ At(w, "clear second") /\ Proceed(w, "take")
  /\ m_read_buf' = Cleared(m_read_buf, m_checked_index)
  /\ m_checked_index' = m_checked_index + 2
  /\ UNCHANGED UntouchedByClears

ClearSecond(w) ==
  /\ At(w, "clear second") /\ Proceed(w, "take")
  /\ m_read_buf' = Cleared(m_read_buf, m_checked_index)
  /\ m_checked_index' = m_checked_index + 1
  /\ UNCHANGED UntouchedByClears

ClearBoth(w) ==
  /\ At(w, "clear both") /\ Proceed(w, "take")
  /\ m_read_buf' = Cleared(Cleared(m_read_buf, m_checked_index - 1), m_checked_index)
  /\ m_checked_index' = m_checked_index + 1
  /\ UNCHANGED UntouchedByClears

\* text = get_line()
GetLine(w) ==
  /\ At(w, "take") /\ Goto(w, "start")
  /\ text' = [text EXCEPT ![w] = m_start_line]
  /\ UNCHANGED <<UntouchedByTests, result, status, raced>>

\* m_start_line = m_checked_index
StartLine(w) ==
  /\ At(w, "start") /\ Proceed(w, "parse")
  /\ m_start_line' = m_checked_index
  /\ UNCHANGED <<buffer, m_checked_index, m_check_state, main, requests, counters, asked>>

-----------------------------------------------------------------------------
(* parse_request_line and parse_headers *)

\* The C string at a start: up to the first NUL, or to the end of what was received.
CString(s) == LET z == SelectInSeq(s, LAMBDA x : x = "NUL") IN IF z = 0 THEN s ELSE SubSeq(s, 1, z - 1)
Text(buf, start) == CString(SubSeq(buf, start + 1, Len(buf)))

\* The lexemes that contain a slash.
WithSlash == {"/path", "http://", "HTTP/1.1"}

\* A path, or http:// and something with a slash in it.
HasPath(target) ==
  \/ target # <<>> /\ Head(target) = "/path"
  \/ target # <<>> /\ Head(target) = "http://" /\ \E k \in 2..Len(target) : target[k] \in WithSlash

FirstSpace(s) == SelectInSeq(s, LAMBDA x : x = "SP")

\* What the run puts together.
Lexemes == WithSlash \cup {"GET", "SP", "host"}

\* Mutant of ParseRequestLine: the version is not compared.
ParseRequestLineAnyVersion(line) ==
  LET i == FirstSpace(line)
      url == SubSeq(line, i + 1, Len(line))
      j == FirstSpace(url)
  IN  IF i = 0 THEN "undefined"
      ELSE IF SubSeq(line, 1, i - 1) # <<"GET">> \/ j = 0 \/ ~HasPath(SubSeq(url, 1, j - 1))
           THEN "BAD_REQUSEST"
           ELSE "NO_REQUEST"

\* Method, URL and version of a request line.  Without a space strpbrk returns NULL,
\* which the next statement writes through.
ParseRequestLine(line) ==
  LET i == FirstSpace(line)
      url == SubSeq(line, i + 1, Len(line))
      j == FirstSpace(url)
  IN  IF i = 0 THEN "undefined"
      ELSE IF \/ SubSeq(line, 1, i - 1) # <<"GET">>
              \/ j = 0
              \/ SubSeq(url, j + 1, Len(url)) # <<"HTTP/1.1">>
              \/ ~HasPath(SubSeq(url, 1, j - 1))
           THEN "BAD_REQUSEST"
           ELSE "NO_REQUEST"

\* In parse_headers, if (text[0] = '\0') clears the line and is false, so every header line
\* is an unknown one: a request is never complete and CHECK_STATE_CONTENT never entered.
ParseText(w) ==
  LET code == ParseRequestLine(Text(m_read_buf, text[w]))
  IN  /\ At(w, "parse")
      /\ \/ /\ m_check_state = "REQUESTLINE" /\ code = "NO_REQUEST"
            /\ m_check_state' = "HEADER" /\ Proceed(w, "test")
            /\ UNCHANGED m_read_buf
         \/ /\ m_check_state = "REQUESTLINE" /\ code # "NO_REQUEST"
            /\ Return(w, "OK", code)
            /\ UNCHANGED <<m_check_state, m_read_buf>>
         \/ /\ m_check_state = "HEADER" /\ Proceed(w, "test")
            /\ m_read_buf' = Cleared(m_read_buf, text[w])
            /\ UNCHANGED m_check_state
      /\ UNCHANGED <<received, m_read_idx, m_checked_index, m_start_line, main, requests, counters,
                     asked>>

-----------------------------------------------------------------------------
Main == (\E c \in Chunks : Recv(c)) \/ Count \/ AppendRequest \/ Reuse

Worker(w) ==
  \/ Start(w) \/ TestData(w) \/ LookAt(w) \/ AtCR(w) \/ AfterCR(w) \/ AtLF(w)
  \/ ClearFirst(w) \/ ClearSecond(w) \/ ClearBoth(w)
  \/ GetLine(w) \/ StartLine(w) \/ ParseText(w)

Next == Main \/ \E w \in Workers : Worker(w)

Spec == Init /\ [][Next]_vars

\* The kernel schedules the workers.
FairSpec == Spec /\ \A w \in Workers : WF_vars(Worker(w))

-----------------------------------------------------------------------------
(* Properties.  They are stated for a connection on which no two workers have taken a line at
   once and whose slot has not been reused under a request of the connection before: from
   there on m_checked_index++ of one worker moves the index under the other, and what is
   parsed depends on timing. *)

StartsWithLineEnd(s) == Len(s) >= 2 /\ s[1] = "CR" /\ s[2] = "LF"

\* The parser never runs ahead of the data: the line starts before the next character
\* to be looked at, which lies in the data main has counted or right behind it, while
\* main receives and counts and other workers look at the same buffer.
IndexesInOrder ==
  ~raced => 0 <= m_start_line /\ m_start_line <= m_checked_index /\ m_checked_index <= m_read_idx

\* Two workers take a line at once only if what the client has sent starts with a line end,
\* on which the first of them to get to parse_request_line writes through NULL; as long as
\* no slot is reused, any other input leaves any number of workers with LINE_OPEN or LINE_BAD.
RaceNeedsLineEnd == (raced /\ reuses = 0) => StartsWithLineEnd(received)

\* What a parser that is given the whole input in one read returns: it gets past parse_line
\* only if the input starts with a line end, and then on an empty line.
AllAtOnce == IF StartsWithLineEnd(received) THEN ParseRequestLine(<<>>) ELSE "NO_REQUEST"

\* The verdict does not depend on how TCP cut the input into reads, whether between CR and LF
\* or elsewhere, nor on where in process_read the workers were when main received it: once
\* nothing is waiting or running it is that on the whole input, unless the pool refused the
\* last request.
ChunkingIsInvisible == (Quiet /\ asked /\ ~raced) => result = AllAtOnce

\* parse_request_line accepts exactly the lines GET SP target SP HTTP/1.1 whose target
\* is a path, or http:// and something with a slash in it (evaluated in the initial state).
Targets ==
  {t \in UNION {[1..n -> Lexemes \ {"SP"}] : n \in 1..2} :
     \/ t[1] = "/path"
     \/ Len(t) = 2 /\ t[1] = "http://" /\ t[2] \in WithSlash}
RequestLineGrammar ==
  (chunks = 0 /\ reuses = 0) =>
    \A line \in UNION {[1..n -> Lexemes] : n \in 1..6} :
      ParseRequestLine(line) = "NO_REQUEST" <=>
        \E t \in Targets : line = <<"GET", "SP">> \o t \o <<"SP", "HTTP/1.1">>

\* process_read always comes back, although parse_line answers LINE_OK when there is
\* nothing left to look at: the loop never gets to such a round twice, unless raced.
ProcessReadReturns == \A w \in Workers : pc[w] # "idle" ~> (pc[w] = "idle" \/ Crashed \/ raced)

\* What http_connection.h:51 says of LINE_OPEN: the line is not complete yet, so no CR LF
\* lies ahead.  parse_line answers LINE_OPEN at the first ordinary character, however
\* much follows it, and a request is never taken apart.
LineOpenMeansIncomplete ==
  (Quiet /\ asked /\ ~raced /\ status = "OPEN") =>
    \A i \in m_checked_index + 1 .. Len(m_read_buf) - 1 :
      ~(m_read_buf[i] = "CR" /\ m_read_buf[i + 1] = "LF")
=============================================================================
