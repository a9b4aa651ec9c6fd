-------------------------- MODULE HttpParserProofs --------------------------
(***************************************************************************)
(* Proofs about the request parser, for any chunks, any number of reads,   *)
(* workers and reuses of the slot, and about parse_request_line, for lines *)
(* of any length.                                                          *)
(***************************************************************************)
EXTENDS HttpParser, FiniteSetTheorems, WellFoundedInduction, TLAPS

\* What may be in the buffer (the prover does not know that "NUL" is a string).
Chars == STRING \cup {"NUL"}
Labels == {"idle", "test", "look", "cr", "next", "lf"} \cup Taking

BufferTypeOK ==
  /\ m_read_buf \in Seq(Chars) /\ received \in Seq(Chars) /\ m_read_idx \in Nat
  /\ m_checked_index \in Nat /\ m_start_line \in Nat
  /\ requests \in Nat /\ reuses \in Nat /\ main \in {"idle", "count", "more"}
  /\ pc \in [Workers -> Labels] /\ text \in [Workers -> Nat]

\* main has counted all that is in the buffer, but for what the last recv has brought.
Counted ==
  /\ Len(m_read_buf) = Len(received) /\ m_read_idx <= Len(received)
  /\ main # "count" => m_read_idx = Len(received)
  /\ main # "idle" => received # <<>>

\* No line has been taken: the parser stands where it started, and a worker that has seen a CR
\* or LF saw the first character that was received.
NobodyTakes ==
  /\ ~Crashed /\ m_checked_index = 0 /\ m_start_line = 0 /\ m_read_buf = received
  /\ \A w \in Workers :
       /\ pc[w] \notin Taking
       /\ pc[w] \in {"cr", "next"} => received # <<>> /\ received[1] = "CR"
       /\ pc[w] = "lf" => received # <<>> /\ received[1] = "LF"
       /\ pc[w] = "next" => m_read_idx >= 2

\* One worker takes the line end that is the first thing in the buffer.
Takes(t) ==
  /\ ~Crashed /\ StartsWithLineEnd(received) /\ m_read_idx >= 2
  /\ pc[t] \in Taking \ {"clear both"}
  /\ \A w \in Workers : pc[w] \in Taking => w = t
  /\ m_checked_index = IF pc[t] = "clear first" THEN 0 ELSE IF pc[t] = "clear second" THEN 1 ELSE 2
  /\ m_start_line = IF pc[t] = "parse" THEN 2 ELSE 0
  /\ pc[t] # "clear first" => m_read_buf[1] = "NUL"
  /\ pc[t] \in {"start", "parse"} => text[t] = 0

\* It has found no space in the empty line.
HasCrashed ==
  /\ Crashed /\ StartsWithLineEnd(received)
  /\ m_start_line <= m_checked_index /\ m_checked_index <= m_read_idx

\* Who has a request has data to look at.
HasData == (requests > 0 \/ \E w \in Workers : pc[w] # "idle") => m_read_idx >= 1

\* A request line is never accepted or refused, and no header is ever looked at.
NothingIsParsed ==
  m_check_state = "REQUESTLINE" /\ result \in {"none", "NO_REQUEST", "undefined"}

\* A request that the pool has taken is still to be served, or has been answered as the whole
\* input deserves.
Answered ==
  asked => \/ main # "idle" \/ requests > 0 \/ (\E w \in Workers : pc[w] # "idle") \/ Crashed
           \/ result = "NO_REQUEST" /\ ~StartsWithLineEnd(received)

Orderly ==
  HasData /\ (NobodyTakes \/ (\E t \in Workers : Takes(t)) \/ HasCrashed) /\ NothingIsParsed /\ Answered

\* IndexesInOrder alone is not inductive: it does not say who is about to move which index, nor
\* that nothing has been overwritten.
HInv == BufferTypeOK /\ Counted /\ (~raced => Orderly) /\ RaceNeedsLineEnd

-----------------------------------------------------------------------------
\* A C string that starts with NUL is empty.
LEMMA NulIsTheEnd ==
  ASSUME NEW s \in Seq(Chars), s # <<>>, s[1] = "NUL"
  PROVE  CString(s) = <<>>
<1> DEFINE Z == {k \in 1..Len(s) : s[k] = "NUL"}
<1>1. 1 \in Z /\ \A k \in Z : k \in Nat /\ 1 <= k
  OBVIOUS
<1>2. CString(s) = IF (IF Z # {} THEN Min(Z) ELSE 0) = 0 THEN s
                   ELSE SubSeq(s, 1, (IF Z # {} THEN Min(Z) ELSE 0) - 1)
  BY Zenon DEF CString, SelectInSeq
<1> HIDE DEF Z
<1>3. Z # {} /\ Min(Z) = 1
  BY <1>1 DEF Min
<1>4. SubSeq(s, 1, 0) = <<>>
  OBVIOUS
<1> QED
  BY <1>2, <1>3, <1>4

\* An empty line has no space.
LEMMA NoSpaceInNothing == ParseRequestLine(<<>>) = "undefined"
<1>1. FirstSpace(<<>>) = 0
  <2>1. {k \in 1..Len(<<>>) : <<>>[k] = "SP"} = {}
    OBVIOUS
  <2> QED
    BY <2>1 DEF FirstSpace, SelectInSeq
<1> QED
  BY <1>1 DEF ParseRequestLine

\* The line of a buffer that starts with NUL is empty.
LEMMA NoTextNoSpace ==
  ASSUME NEW buf \in Seq(Chars), buf # <<>>, buf[1] = "NUL"
  PROVE  ParseRequestLine(Text(buf, 0)) = "undefined"
<1>1. SubSeq(buf, 0 + 1, Len(buf)) = buf
  OBVIOUS
<1> QED
  BY <1>1, NulIsTheEnd, NoSpaceInNothing DEF Text

\* Writing a NUL keeps the length and all other characters.
LEMMA ClearingOne ==
  ASSUME NEW buf \in Seq(Chars), NEW i \in Int
  PROVE  /\ Cleared(buf, i) \in Seq(Chars) /\ Len(Cleared(buf, i)) = Len(buf)
         /\ i + 1 \in 1..Len(buf) => Cleared(buf, i)[i + 1] = "NUL"
         /\ \A k \in 1..Len(buf) : k # i + 1 => Cleared(buf, i)[k] = buf[k]
<1>1. PICK n \in Nat : n = Len(buf)
  OBVIOUS
<1>2. buf \in [1..n -> Chars] /\ "NUL" \in Chars
  BY <1>1 DEF Chars
<1>3. PICK f : f = Cleared(buf, i)
  OBVIOUS
<1>4. f \in [1..n -> Chars]
  BY <1>1, <1>2, <1>3, Zenon DEF Cleared
<1>5. (i + 1 \in 1..n => f[i + 1] = "NUL") /\ \A k \in 1..n : k # i + 1 => f[k] = buf[k]
  BY <1>1, <1>2, <1>3 DEF Cleared
<1>6. f \in Seq(Chars) /\ Len(f) = n
  BY <1>1, <1>4
<1> QED
  BY <1>1, <1>3, <1>5, <1>6

\* What was received first stays first.
LEMMA Appending ==
  ASSUME NEW s \in Seq(Chars), NEW c \in Chunks
  PROVE  /\ s \o c \in Seq(Chars) /\ s \o c # <<>>
         /\ Len(s \o c) \in Nat /\ Len(s \o c) >= Len(s) /\ Len(s \o c) = Len(s) + Len(c)
         /\ s # <<>> => (s \o c)[1] = s[1]
         /\ StartsWithLineEnd(s) => StartsWithLineEnd(s \o c)
<1>1. c \in Seq(Chars) /\ c # <<>>
  BY ChunksAssumption DEF Chars
<1> QED
  BY <1>1 DEF StartsWithLineEnd

-----------------------------------------------------------------------------
(* Types, and what main has counted *)

\* Initially nothing has been received.
LEMMA ParserStarts == Init => HInv
<1> SUFFICES ASSUME Init PROVE HInv
  OBVIOUS
<1>1. BufferTypeOK
  BY DEF Init, BufferTypeOK, Labels
<1>2. \A w \in Workers : pc[w] = "idle"
  BY DEF Init
<1>3. Counted /\ NobodyTakes
  BY <1>2 DEF Init, Counted, NobodyTakes, Crashed, Taking
<1>4. HasData /\ NothingIsParsed
  BY <1>2 DEF Init, HasData, NothingIsParsed
<1>5. Answered /\ RaceNeedsLineEnd
  BY Zenon DEF Init, Answered, RaceNeedsLineEnd
<1> QED
  BY <1>1, <1>3, <1>4, <1>5 DEF HInv, Orderly

\* Every step keeps the types.
LEMMA TypeStep ==
  ASSUME BufferTypeOK, [Next]_vars
  PROVE  BufferTypeOK'
<1> USE DEF BufferTypeOK
<1>1. ASSUME NEW c \in Chunks, Recv(c) PROVE BufferTypeOK'
  BY <1>1, Appending DEF Recv, lines
<1>2. CASE Count \/ AppendRequest
  BY <1>2 DEF Count, AppendRequest, buffer, lines, counters
<1>3. CASE Reuse
  BY <1>3 DEF Reuse
<1>4. ASSUME NEW w \in Workers, Start(w) \/ TestData(w) \/ LookAt(w) \/ AtCR(w) \/ AfterCR(w) \/ AtLF(w)
      PROVE  BufferTypeOK'
  <2>1. /\ UNCHANGED <<m_read_buf, received, m_read_idx, m_checked_index, m_start_line, main, reuses,
                       text>>
        /\ requests' \in Nat
    <3>1. CASE Start(w)
      BY <3>1 DEF Start, buffer, lines, counters
    <3>2. CASE ~Start(w)
      BY <1>4, <3>2 DEF TestData, LookAt, AtCR, AfterCR, AtLF, UntouchedByTests, Return, Proceed,
                        TakeLine, buffer, lines, counters
    <3> QED
      BY <3>1, <3>2
  <2>3. \E l \in Labels : pc' = [pc EXCEPT ![w] = l]
    BY <1>4 DEF Start, TestData, LookAt, AtCR, AfterCR, AtLF, Return, Proceed, TakeLine, Goto,
                Labels, Taking
  <2>4. pc' \in [Workers -> Labels]
    BY <2>3
  <2> QED
    BY <2>1, <2>4
<1>5. ASSUME NEW w \in Workers, ClearFirst(w) \/ ClearSecond(w) \/ ClearBoth(w)
      PROVE  BufferTypeOK'
  <2>1. /\ Cleared(m_read_buf, m_checked_index) \in Seq(Chars)
        /\ Cleared(Cleared(m_read_buf, m_checked_index - 1), m_checked_index) \in Seq(Chars)
    BY ClearingOne
  <2>2. pc' \in [Workers -> Labels]
    BY <1>5 DEF ClearFirst, ClearSecond, ClearBoth, Proceed, Goto, Labels, Taking
  <2>3. m_read_buf' \in Seq(Chars) /\ m_checked_index' = m_checked_index + 1
    BY <1>5, <2>1, Zenon DEF ClearFirst, ClearSecond, ClearBoth
  <2>4. UNCHANGED <<received, m_read_idx, m_start_line, main, requests, reuses, text>>
    BY <1>5 DEF UntouchedByClears, counters, ClearFirst, ClearSecond, ClearBoth, Proceed
  <2>5. m_checked_index' \in Nat
    BY <2>3
  <2> QED
    BY <2>2, <2>3, <2>4, <2>5
<1>6. ASSUME NEW w \in Workers, GetLine(w) \/ StartLine(w)
      PROVE  BufferTypeOK'
  BY <1>6 DEF GetLine, StartLine, Proceed, Goto, Labels, Taking, UntouchedByTests, buffer, lines,
              counters
<1>7. ASSUME NEW w \in Workers, ParseText(w)
      PROVE  BufferTypeOK'
  <2>1. Cleared(m_read_buf, text[w]) \in Seq(Chars)
    BY ClearingOne
  <2>2. pc' \in [Workers -> Labels] /\ UNCHANGED text
    BY <1>7 DEF ParseText, Proceed, Return, Goto, Labels
  <2>3. m_read_buf' \in Seq(Chars)
    BY <1>7, <2>1 DEF ParseText
  <2> QED
    BY <1>7, <2>2, <2>3 DEF ParseText, counters
<1>8. CASE UNCHANGED vars
  BY <1>8 DEF vars, buffer, lines, counters
<1> QED
  BY <1>1, <1>2, <1>3, <1>4, <1>5, <1>6, <1>7, <1>8 DEF Next, Main, Worker

-----------------------------------------------------------------------------
(* The main thread *)

\* recv appends to the buffer, whatever the workers are doing with it.
LEMMA RecvStep ==
  ASSUME HInv, NEW c \in Chunks, Recv(c)
  PROVE  Counted' /\ (~raced' => Orderly') /\ RaceNeedsLineEnd'
<1> USE DEF HInv, BufferTypeOK
<1>1. /\ m_read_buf' = m_read_buf \o c /\ received' = received \o c
      /\ main' = "count" /\ main # "count"
      /\ UNCHANGED <<m_read_idx, m_checked_index, m_start_line, m_check_state, requests, reuses, pc,
                     text, result>>
      /\ raced' <=> raced
  BY DEF Recv, lines
<1>2. /\ Len(m_read_buf') = Len(m_read_buf) + Len(c) /\ Len(received') = Len(received) + Len(c)
      /\ Len(received') >= Len(received) /\ Len(received') \in Nat /\ received' # <<>>
      /\ StartsWithLineEnd(received) => StartsWithLineEnd(received')
      /\ received # <<>> => received'[1] = received[1]
      /\ m_read_buf # <<>> => m_read_buf'[1] = m_read_buf[1]
  BY <1>1, Appending
<1>3. Counted'
  BY <1>1, <1>2 DEF Counted
<1>4. RaceNeedsLineEnd'
  BY <1>1, <1>2 DEF RaceNeedsLineEnd
<1>5. ASSUME ~raced' PROVE Orderly'
  <2>1. Orderly
    BY <1>1, <1>5
  <2>2. NobodyTakes => NobodyTakes'
    BY <1>1, <1>2 DEF NobodyTakes, Crashed
  <2>3. ASSUME NEW t \in Workers, Takes(t) PROVE Takes(t)'
    <3>1. m_read_buf # <<>>
      <4>1. Len(received) >= 2 /\ Len(m_read_buf) = Len(received)
        BY <2>3 DEF Takes, Counted, StartsWithLineEnd
      <4> QED
        BY <4>1
    <3> QED
      BY <1>1, <1>2, <2>3, <3>1 DEF Takes, Crashed
  <2>4. HasCrashed => HasCrashed'
    BY <1>1, <1>2 DEF HasCrashed, Crashed
  <2>5. HasData' /\ NothingIsParsed' /\ Answered'
    BY <1>1, <2>1 DEF Orderly, HasData, NothingIsParsed, Answered
  <2> QED
    BY <2>1, <2>2, <2>3, <2>4, <2>5 DEF Orderly
<1> QED
  BY <1>3, <1>4, <1>5

\* Counting makes the characters visible to the workers.
LEMMA CountStep ==
  ASSUME HInv, Count
  PROVE  Counted' /\ (~raced' => Orderly') /\ RaceNeedsLineEnd'
<1> USE DEF HInv, BufferTypeOK
<1>1. /\ m_read_idx' = Len(received) /\ main' = "more" /\ main = "count"
      /\ UNCHANGED <<m_read_buf, received, m_checked_index, m_start_line, m_check_state, requests,
                     reuses, pc, text, result>>
      /\ raced' <=> raced
  BY DEF Count, lines, counters, Counted
<1>2. m_read_idx' >= m_read_idx /\ m_read_idx' >= 1 /\ Len(received) \in Nat
  BY <1>1 DEF Counted
<1>3. Counted' /\ RaceNeedsLineEnd'
  BY <1>1, <1>2 DEF Counted, RaceNeedsLineEnd
<1>4. ASSUME ~raced' PROVE Orderly'
  <2>1. Orderly
    BY <1>1, <1>4
  <2>2. NobodyTakes => NobodyTakes'
    BY <1>1, <1>2 DEF NobodyTakes, Crashed
  <2>3. \A t \in Workers : Takes(t) => Takes(t)'
    BY <1>1, <1>2 DEF Takes, Crashed, StartsWithLineEnd
  <2>4. HasCrashed => HasCrashed'
    BY <1>1, <1>2 DEF HasCrashed, Crashed
  <2>5. HasData' /\ NothingIsParsed' /\ Answered'
    BY <1>1, <1>2, <2>1 DEF Orderly, HasData, NothingIsParsed, Answered
  <2> QED
    BY <2>1, <2>2, <2>3, <2>4, <2>5 DEF Orderly
<1> QED
  BY <1>3, <1>4

\* append hands over a connection that has data.
LEMMA AppendStep ==
  ASSUME HInv, AppendRequest
  PROVE  Counted' /\ (~raced' => Orderly') /\ RaceNeedsLineEnd'
<1> USE DEF HInv, BufferTypeOK
<1>1. /\ main = "more" /\ main' = "idle"
      /\ UNCHANGED <<m_read_buf, received, m_read_idx, m_checked_index, m_start_line, m_check_state,
                     reuses, pc, text, result>>
      /\ raced' <=> raced
  BY DEF AppendRequest, buffer, lines, counters
<1>2. requests' = requests + 1 \/ (requests' = requests /\ ~asked')
  BY DEF AppendRequest
<1>3. m_read_idx >= 1
  BY <1>1 DEF Counted
<1>4. Counted' /\ RaceNeedsLineEnd'
  BY <1>1 DEF Counted, RaceNeedsLineEnd
<1>5. ASSUME ~raced' PROVE Orderly'
  <2>1. Orderly
    BY <1>1, <1>5
  <2>2. NobodyTakes => NobodyTakes'
    BY <1>1 DEF NobodyTakes, Crashed
  <2>3. \A t \in Workers : Takes(t) => Takes(t)'
    BY <1>1 DEF Takes, Crashed
  <2>4. HasCrashed => HasCrashed'
    BY <1>1 DEF HasCrashed, Crashed
  <2>5. HasData' /\ NothingIsParsed'
    BY <1>1, <1>3, <2>1 DEF Orderly, HasData, NothingIsParsed
  <2>6. Answered'
    BY <1>2 DEF Answered
  <2> QED
    BY <2>1, <2>2, <2>3, <2>4, <2>5, <2>6 DEF Orderly
<1> QED
  BY <1>4, <1>5

\* init() clears the slot; where no request is left this is the initial state again.
LEMMA ReuseStep ==
  ASSUME HInv, Reuse
  PROVE  Counted' /\ (~raced' => Orderly') /\ RaceNeedsLineEnd'
<1> USE DEF HInv, BufferTypeOK
<1>1. /\ m_read_buf' = <<>> /\ received' = <<>> /\ m_read_idx' = 0 /\ m_checked_index' = 0
      /\ m_start_line' = 0 /\ m_check_state' = "REQUESTLINE" /\ result' = "none" /\ ~asked'
      /\ reuses' = reuses + 1 /\ main' = "idle" /\ requests' = requests /\ pc' = pc
  BY DEF Reuse
<1>2. Counted' /\ RaceNeedsLineEnd'
  BY <1>1 DEF Counted, RaceNeedsLineEnd
<1>3. ASSUME ~raced' PROVE Orderly'
  <2>1. Quiet
    BY <1>3, Zenon DEF Reuse
  <2>2. requests' = 0 /\ \A w \in Workers : pc'[w] = "idle"
    BY <1>1, <2>1 DEF Quiet, Running
  <2>3. NobodyTakes'
    BY <1>1, <2>2 DEF NobodyTakes, Crashed, Taking
  <2>4. HasData' /\ NothingIsParsed' /\ Answered'
    BY <1>1, <2>2 DEF HasData, NothingIsParsed, Answered
  <2> QED
    BY <2>3, <2>4 DEF Orderly
<1> QED
  BY <1>2, <1>3

-----------------------------------------------------------------------------
(* A worker *)

\* A worker changes neither the length of the buffer nor what main counts, takes no step after
\* the crash, and races only with a worker that is already taking a line.
LEMMA WorkerKeeps ==
  ASSUME HInv, NEW w \in Workers, Worker(w)
  PROVE  /\ UNCHANGED <<received, m_read_idx, main, reuses>>
         /\ asked' => asked
         /\ Len(m_read_buf') = Len(m_read_buf) /\ ~Crashed
         /\ raced => raced'
         /\ raced' => raced \/ \E v \in Workers : pc[v] \in Taking
<1> USE DEF HInv, BufferTypeOK
<1>1. CASE Start(w)
  BY <1>1 DEF Start, At, buffer, counters
<1>2. CASE TestData(w) \/ LookAt(w) \/ AtCR(w) \/ AfterCR(w) \/ AtLF(w)
  <2>1. UNCHANGED UntouchedByTests
    BY <1>2 DEF TestData, LookAt, AtCR, AfterCR, AtLF
  <2>2. /\ ~Crashed /\ (raced => raced')
        /\ raced' => raced \/ \E v \in Workers : pc[v] \in Taking
    BY <1>2, Zenon DEF TestData, LookAt, AtCR, AfterCR, AtLF, At, Proceed, Return, TakeLine
  <2> QED
    BY <2>1, <2>2 DEF UntouchedByTests, buffer, counters
<1>3. CASE ClearFirst(w) \/ ClearSecond(w) \/ ClearBoth(w)
  <2>1. /\ m_checked_index - 1 \in Int
        /\ \A b \in Seq(Chars), i \in Int : Cleared(b, i) \in Seq(Chars) /\ Len(Cleared(b, i)) = Len(b)
    BY ClearingOne
  <2>2. \/ m_read_buf' = Cleared(m_read_buf, m_checked_index)
        \/ m_read_buf' = Cleared(Cleared(m_read_buf, m_checked_index - 1), m_checked_index)
    BY <1>3 DEF ClearFirst, ClearSecond, ClearBoth
  <2>3. Len(m_read_buf') = Len(m_read_buf)
    BY <2>1, <2>2
  <2>4. UNCHANGED UntouchedByClears
    BY <1>3, Zenon DEF ClearFirst, ClearSecond, ClearBoth
  <2>5. ~Crashed
    BY <1>3, Zenon DEF ClearFirst, ClearSecond, ClearBoth, At
  <2>6. UNCHANGED <<text, result, status, raced>>
    BY <1>3, Zenon DEF ClearFirst, ClearSecond, ClearBoth, Proceed
  <2> QED
    BY <2>3, <2>4, <2>5, <2>6 DEF UntouchedByClears, counters
<1>4. CASE GetLine(w) \/ StartLine(w)
  BY <1>4 DEF GetLine, StartLine, At, Proceed, UntouchedByTests, buffer, counters
<1>5. CASE ParseText(w)
  <2>1. Len(Cleared(m_read_buf, text[w])) = Len(m_read_buf)
    BY ClearingOne
  <2>2. Len(m_read_buf') = Len(m_read_buf)
    BY <1>5, <2>1 DEF ParseText
  <2>3. ~Crashed /\ (raced' <=> raced)
    BY <1>5 DEF ParseText, At, Proceed, Return
  <2> QED
    BY <1>5, <2>2, <2>3 DEF ParseText, counters
<1> QED
  BY <1>1, <1>2, <1>3, <1>4, <1>5 DEF Worker

\* A worker that looks on changes nothing: it goes on, or returns with NO_REQUEST.
LEMMA LooksOn ==
  ASSUME HInv, ~raced, NEW w \in Workers, NEW l \in Labels \ Taking, pc[w] \notin Taking,
         pc' = [pc EXCEPT ![w] = l], ~Crashed,
         UNCHANGED <<m_read_buf, received, m_read_idx, m_checked_index, m_start_line, m_check_state,
                     main, text>>,
         asked' => asked, requests' \in Nat,
         requests' = requests \/ (requests > 0 /\ l # "idle"),
         requests > 0 \/ pc[w] # "idle",
         l # "idle" => result' = result, l = "idle" => result' = "NO_REQUEST",
         NobodyTakes =>
           /\ l \in {"cr", "next"} => received # <<>> /\ received[1] = "CR"
           /\ l = "lf" => received # <<>> /\ received[1] = "LF"
           /\ l = "next" => m_read_idx >= 2
           /\ l = "idle" /\ main = "idle" => ~StartsWithLineEnd(received)
  PROVE  Orderly'
<1> USE DEF HInv, BufferTypeOK
<1>1. Orderly /\ m_read_idx >= 1
  BY DEF Orderly, HasData
<1>2. pc'[w] = l /\ \A v \in Workers : v # w => pc'[v] = pc[v]
  OBVIOUS
<1>3. ~Crashed'
  BY DEF Crashed
<1>4. NobodyTakes => NobodyTakes'
  BY <1>2, <1>3 DEF NobodyTakes
<1>5. ASSUME NEW t \in Workers, Takes(t) PROVE Takes(t)'
  <2>1. t # w /\ pc'[t] = pc[t]
    BY <1>2, <1>5 DEF Takes
  <2> QED
    BY <1>2, <1>3, <1>5, <2>1 DEF Takes, StartsWithLineEnd
<1>6. HasData' /\ NothingIsParsed'
  BY <1>1 DEF Orderly, HasData, NothingIsParsed
<1>7. Answered'
  <2>1. CASE l # "idle"
    BY <1>2, <2>1 DEF Answered
  <2>2. CASE l = "idle" /\ NobodyTakes
    <3>1. result' = "NO_REQUEST" /\ (main' = "idle" => ~StartsWithLineEnd(received'))
      BY <2>2
    <3>2. main' \in {"idle", "count", "more"}
      OBVIOUS
    <3> QED
      BY <3>1, <3>2 DEF Answered
  <2>3. ASSUME NEW t \in Workers, Takes(t) PROVE Answered'
    <3>1. t # w /\ pc'[t] # "idle"
      BY <1>2, <2>3 DEF Takes, Taking
    <3> QED
      BY <3>1 DEF Answered
  <2> QED
    BY <1>1, <2>1, <2>2, <2>3 DEF Orderly, HasCrashed
<1> QED
  BY <1>1, <1>4, <1>5, <1>6, <1>7 DEF Orderly, HasCrashed

\* The character at the first index, and the one behind it.
LEMMA FirstChars ==
  ASSUME HInv, NobodyTakes, m_read_idx >= 1
  PROVE  /\ Char(m_checked_index) = received[1] /\ received # <<>>
         /\ StartsWithLineEnd(received) => Char(m_checked_index + 1) = "LF"
         /\ Char(m_checked_index + 1) = "LF" => Len(received) >= 2 /\ received[2] = "LF"
<1> USE DEF HInv, BufferTypeOK
<1>1. PICK n \in Nat : n = Len(received)
  OBVIOUS
<1>2. n >= 1 /\ m_read_buf = received /\ m_checked_index = 0
  BY <1>1 DEF Counted, NobodyTakes
<1>3. Char(0) = received[1]
  BY <1>1, <1>2 DEF Char
<1>4. Char(1) = IF n >= 2 THEN received[2] ELSE "NUL"
  BY <1>1, <1>2 DEF Char
<1> QED
  BY <1>1, <1>2, <1>3, <1>4 DEF StartsWithLineEnd

\* The tests of parse_line, up to the one that finds a line end.
LEMMA TestStep ==
  ASSUME HInv, ~raced', NEW w \in Workers,
         Start(w) \/ TestData(w) \/ LookAt(w) \/ AtCR(w) \/ AfterCR(w) \/ AtLF(w)
  PROVE  Orderly'
<1> USE DEF HInv, BufferTypeOK
<1>1. Worker(w)
  BY DEF Worker
<1>2. ~raced /\ Orderly /\ ~Crashed /\ (asked' => asked)
  BY <1>1, WorkerKeeps
<1>3. CASE Start(w)
  <2>1. /\ pc[w] = "idle" /\ requests > 0 /\ requests' = requests - 1
        /\ pc' = [pc EXCEPT ![w] = "test"] /\ result' = result
        /\ UNCHANGED <<m_read_buf, received, m_read_idx, m_checked_index, m_start_line,
                       m_check_state, main, text>>
    BY <1>3 DEF Start, At, Goto, buffer, lines
  <2>2. requests' \in Nat
    BY <2>1
  <2>3. "test" \in Labels \ Taking /\ pc[w] \notin Taking
    BY <2>1 DEF Labels, Taking
  <2> QED
    BY <1>2, <2>1, <2>2, <2>3, LooksOn
<1>4. CASE ~Start(w)
  <2>1. m_read_idx >= 1
    BY <1>2, <1>4 DEF Orderly, HasData, TestData, LookAt, AtCR, AfterCR, AtLF, At
  <2>2. /\ UNCHANGED <<m_read_buf, received, m_read_idx, m_checked_index, m_start_line, m_check_state,
                        main, requests, text>>
    BY <1>4 DEF TestData, LookAt, AtCR, AfterCR, AtLF, Proceed, Return, TakeLine, UntouchedByTests,
                buffer, lines
  <2>3. NobodyTakes => /\ Char(m_checked_index) = received[1] /\ received # <<>>
                       /\ StartsWithLineEnd(received) => Char(m_checked_index + 1) = "LF"
                       /\ Char(m_checked_index + 1) = "LF" => Len(received) >= 2 /\ received[2] = "LF"
    BY <2>1, FirstChars
  <2>4. pc[w] \in {"test", "look", "cr", "next", "lf"} /\ pc[w] \notin Taking
    BY <1>4 DEF TestData, LookAt, AtCR, AfterCR, AtLF, At, Taking
  <2>5. ASSUME NEW l \in {"idle", "look", "cr", "next", "lf"}, pc' = [pc EXCEPT ![w] = l],
               l # "idle" => result' = result, l = "idle" => result' = "NO_REQUEST",
               NobodyTakes =>
                 /\ l \in {"cr", "next"} => received[1] = "CR"
                 /\ l = "lf" => received[1] = "LF"
                 /\ l = "next" => m_read_idx >= 2
                 /\ l = "idle" /\ main = "idle" => ~StartsWithLineEnd(received)
        PROVE  Orderly'
    <3>1. l \in Labels \ Taking
      BY DEF Labels, Taking
    <3> QED
      BY <1>2, <2>2, <2>3, <2>4, <2>5, <3>1, LooksOn
  <2>6. ASSUME NEW label, TakeLine(w, label)
        PROVE  NobodyTakes /\ pc' = [pc EXCEPT ![w] = label] /\ result' = result
    BY <1>2, <2>6 DEF TakeLine, Goto, Orderly, Takes, HasCrashed
  <2>7. CASE TestData(w)
    <3>1. CASE m_checked_index < m_read_idx
      BY <2>5, <2>7, <3>1 DEF TestData, Proceed, Goto
    <3>2. CASE ~(m_checked_index < m_read_idx)
      BY <2>1, <2>6, <2>7, <3>2 DEF TestData, NobodyTakes
    <3> QED
      BY <3>1, <3>2
  <2>8. CASE LookAt(w)
    <3>1. CASE Proceed(w, "cr") /\ Char(m_checked_index) = "CR"
      BY <2>3, <2>5, <3>1 DEF Proceed, Goto
    <3>2. CASE Proceed(w, "lf") /\ Char(m_checked_index) = "LF"
      BY <2>3, <2>5, <3>2 DEF Proceed, Goto
    <3>3. CASE Return(w, "OPEN", "NO_REQUEST") /\ Char(m_checked_index) \notin {"CR", "LF"}
      BY <2>3, <2>5, <3>3 DEF Return, Goto, StartsWithLineEnd
    <3> QED
      BY <2>8, <3>1, <3>2, <3>3 DEF LookAt
  <2>9. CASE AtCR(w)
    <3>0. NobodyTakes => m_checked_index = 0 /\ received[1] = "CR"
      BY <2>9 DEF NobodyTakes, AtCR, At
    <3>1. CASE m_read_idx = m_checked_index + 1
      <4>1. NobodyTakes /\ main = "idle" => ~StartsWithLineEnd(received)
        BY <3>0, <3>1 DEF Counted, StartsWithLineEnd
      <4> QED
        BY <2>5, <2>9, <3>1, <4>1 DEF AtCR, Return, Goto
    <3>2. CASE m_read_idx # m_checked_index + 1
      <4>1. NobodyTakes => m_read_idx >= 2
        BY <2>1, <3>0, <3>2
      <4> QED
        BY <2>5, <2>9, <3>0, <3>2, <4>1 DEF AtCR, Proceed, Goto
    <3> QED
      BY <3>1, <3>2
  <2>10. CASE AfterCR(w)
    <3>1. CASE Char(m_checked_index + 1) = "LF"
      <4>1. /\ NobodyTakes /\ pc' = [pc EXCEPT ![w] = "clear first"] /\ result' = result
        BY <2>6, <2>10, <3>1 DEF AfterCR
      <4>2. received[1] = "CR" /\ m_read_idx >= 2
        BY <2>10, <4>1 DEF AfterCR, At, NobodyTakes
      <4>3. pc'[w] = "clear first" /\ \A v \in Workers : v # w => pc'[v] = pc[v]
        BY <4>1
      <4>4. ~Crashed' /\ StartsWithLineEnd(received)
        BY <1>2, <2>3, <3>1, <4>1, <4>2 DEF Crashed, StartsWithLineEnd
      <4>5. Takes(w)'
        BY <2>2, <4>1, <4>2, <4>3, <4>4 DEF Takes, NobodyTakes, Taking, StartsWithLineEnd
      <4>6. HasData' /\ NothingIsParsed' /\ Answered'
        BY <1>2, <2>1, <2>2, <4>1, <4>3 DEF Orderly, HasData, NothingIsParsed, Answered
      <4> QED
        BY <4>5, <4>6 DEF Orderly
    <3>2. CASE Char(m_checked_index + 1) # "LF"
      BY <2>3, <2>5, <2>10, <3>2 DEF AfterCR, Return, Goto
    <3> QED
      BY <3>1, <3>2
  <2>11. CASE AtLF(w)
    <3>1. NobodyTakes => received[1] = "LF" /\ ~(m_checked_index > 1)
      BY <2>11 DEF NobodyTakes, AtLF, At
    <3>2. CASE m_checked_index > 1 /\ Char(m_checked_index - 1) = "CR"
      BY <2>6, <2>11, <3>1, <3>2 DEF AtLF
    <3>3. CASE ~(m_checked_index > 1 /\ Char(m_checked_index - 1) = "CR")
      BY <2>5, <2>11, <3>1, <3>3 DEF AtLF, Return, Goto, StartsWithLineEnd
    <3> QED
      BY <3>2, <3>3
  <2> QED
    BY <1>4, <2>7, <2>8, <2>9, <2>10, <2>11
<1> QED
  BY <1>3, <1>4

\* What the steps of a worker that takes a line do to the indexes.
LEMMA TakingMoves ==
  ASSUME NEW w \in Workers
  PROVE  /\ ClearFirst(w) =>
              /\ pc' = [pc EXCEPT ![w] = "clear second"] /\ UNCHANGED <<m_start_line, result>>
              /\ m_read_buf' = Cleared(m_read_buf, m_checked_index)
              /\ m_checked_index' = m_checked_index + 1
         /\ ClearSecond(w) =>
              /\ pc' = [pc EXCEPT ![w] = "take"] /\ UNCHANGED <<m_start_line, result>>
              /\ m_read_buf' = Cleared(m_read_buf, m_checked_index)
              /\ m_checked_index' = m_checked_index + 1
         /\ ParseText(w) =>
              /\ UNCHANGED <<m_checked_index, m_start_line>>
              /\ m_check_state = "REQUESTLINE" /\ ParseRequestLine(Text(m_read_buf, text[w])) = "undefined"
                   => result' = "undefined" /\ UNCHANGED m_check_state
BY DEF ClearFirst, ClearSecond, ParseText, Proceed, Return, Goto, UntouchedByClears

\* The worker that takes the line end goes on to parse the empty line, and crashes.
LEMMA TakeStep ==
  ASSUME HInv, ~raced', NEW w \in Workers,
         \/ ClearFirst(w) \/ ClearSecond(w) \/ ClearBoth(w)
         \/ GetLine(w) \/ StartLine(w) \/ ParseText(w)
  PROVE  Orderly'
<1> USE DEF HInv, BufferTypeOK
<1>1. Worker(w)
  BY DEF Worker
<1>2. /\ ~raced /\ Orderly /\ ~Crashed
      /\ UNCHANGED <<received, m_read_idx, main>> /\ Len(m_read_buf') = Len(m_read_buf)
  BY <1>1, WorkerKeeps
<1>3. pc[w] \in Taking
  BY DEF ClearFirst, ClearSecond, ClearBoth, GetLine, StartLine, ParseText, At, Taking
<1>4. Takes(w)
  BY <1>2, <1>3 DEF Orderly, NobodyTakes, Takes, HasCrashed
<1>5. Len(m_read_buf) >= 2 /\ m_read_idx >= 2 /\ StartsWithLineEnd(received)
  BY <1>4 DEF Takes, Counted, StartsWithLineEnd
<1>6. /\ m_check_state = "REQUESTLINE" /\ requests' = requests
      /\ ~ParseText(w) => m_check_state' = m_check_state
  <2>1. m_check_state = "REQUESTLINE"
    BY <1>2 DEF Orderly, NothingIsParsed
  <2>2. CASE ParseText(w)
    BY <2>1, <2>2 DEF ParseText
  <2>3. CASE GetLine(w) \/ StartLine(w)
    BY <2>1, <2>3 DEF GetLine, StartLine, UntouchedByTests, lines
  <2>4. CASE ClearFirst(w) \/ ClearSecond(w) \/ ClearBoth(w)
    BY <2>1, <2>4 DEF ClearFirst, ClearSecond, ClearBoth, UntouchedByClears
  <2> QED
    BY <2>1, <2>2, <2>3, <2>4
<1>7. ASSUME NEW l \in Taking, pc' = [pc EXCEPT ![w] = l], result' = result, Takes(w)',
             ~ParseText(w)
      PROVE  Orderly'
  <2>1. pc'[w] # "idle"
    BY <1>7 DEF Taking
  <2>2. HasData' /\ NothingIsParsed' /\ Answered'
    BY <1>2, <1>5, <1>6, <1>7, <2>1 DEF Orderly, HasData, NothingIsParsed, Answered
  <2> QED
    BY <1>7, <2>2 DEF Orderly
<1>8. ASSUME NEW l \in Taking, pc' = [pc EXCEPT ![w] = l], result' = result
      PROVE  /\ ~Crashed' /\ StartsWithLineEnd(received)' /\ m_read_idx' >= 2
             /\ pc'[w] = l /\ \A v \in Workers : pc'[v] \in Taking => v = w
  BY <1>2, <1>4, <1>5, <1>8 DEF Takes, Crashed, StartsWithLineEnd
<1>9. CASE ClearFirst(w)
  <2>1. m_checked_index = 0 /\ m_start_line = 0
    BY <1>4, <1>9 DEF Takes, ClearFirst, At
  <2>2. /\ m_checked_index' = 1 /\ m_start_line' = 0
        /\ pc' = [pc EXCEPT ![w] = "clear second"] /\ result' = result
        /\ m_read_buf' = Cleared(m_read_buf, 0)
    <3>1. m_checked_index' = m_checked_index + 1 /\ m_start_line' = m_start_line
      BY <1>9, TakingMoves
    <3>2. pc' = [pc EXCEPT ![w] = "clear second"] /\ result' = result
      BY <1>9, TakingMoves
    <3>3. m_read_buf' = Cleared(m_read_buf, m_checked_index)
      BY <1>9, TakingMoves
    <3>4. m_checked_index' = 1 /\ m_start_line' = 0
      BY <2>1, <3>1
    <3> QED
      BY <2>1, <3>2, <3>3, <3>4
  <2>3. m_read_buf'[1] = "NUL"
    <3>1. 0 \in Int /\ 0 + 1 \in 1..Len(m_read_buf)
      BY <1>5
    <3>2. Cleared(m_read_buf, 0)[0 + 1] = "NUL"
      BY <3>1, ClearingOne
    <3>3. 0 + 1 = 1
      OBVIOUS
    <3> QED
      BY <2>2, <3>2, <3>3, Zenon
  <2>4. "clear second" \in Taking \ {"clear both"} /\ ~ParseText(w)
    BY <1>9 DEF Taking, ClearFirst, ParseText, At
  <2> QED
    BY <1>7, <1>8, <2>2, <2>3, <2>4 DEF Takes
<1>10. CASE ClearSecond(w)
  <2>1. m_checked_index = 1 /\ m_start_line = 0 /\ m_read_buf[1] = "NUL"
    BY <1>4, <1>10 DEF Takes, ClearSecond, At
  <2>2. /\ m_checked_index' = 2 /\ m_start_line' = 0
        /\ pc' = [pc EXCEPT ![w] = "take"] /\ result' = result
        /\ m_read_buf' = Cleared(m_read_buf, 1)
    <3>1. m_checked_index' = m_checked_index + 1 /\ m_start_line' = m_start_line
      BY <1>10, TakingMoves
    <3>2. pc' = [pc EXCEPT ![w] = "take"] /\ result' = result
      BY <1>10, TakingMoves
    <3>3. m_read_buf' = Cleared(m_read_buf, m_checked_index)
      BY <1>10, TakingMoves
    <3>4. m_checked_index' = 2 /\ m_start_line' = 0
      BY <2>1, <3>1
    <3> QED
      BY <2>1, <3>2, <3>3, <3>4
  <2>3. m_read_buf'[1] = "NUL"
    <3>1. 1 \in Int /\ 1 # 1 + 1 /\ 1 \in 1..Len(m_read_buf)
      BY <1>5
    <3> QED
      BY <2>1, <2>2, <3>1, ClearingOne
  <2>4. "take" \in Taking \ {"clear both"} /\ ~ParseText(w)
    BY <1>10 DEF Taking, ClearSecond, ParseText, At
  <2> QED
    BY <1>7, <1>8, <2>2, <2>3, <2>4 DEF Takes
<1>11. CASE ClearBoth(w)
  BY <1>4, <1>11 DEF Takes, ClearBoth, At
<1>12. CASE GetLine(w)
  <2>1. /\ m_checked_index' = 2 /\ m_start_line' = 0 /\ text'[w] = 0
        /\ pc' = [pc EXCEPT ![w] = "start"] /\ result' = result /\ m_read_buf'[1] = "NUL"
    BY <1>4, <1>12 DEF Takes, GetLine, At, Goto, UntouchedByTests, buffer, lines
  <2>2. "start" \in Taking \ {"clear both"} /\ ~ParseText(w)
    BY <1>12 DEF Taking, GetLine, ParseText, At
  <2> QED
    BY <1>7, <1>8, <2>1, <2>2 DEF Takes
<1>13. CASE StartLine(w)
  <2>1. /\ m_checked_index' = 2 /\ m_start_line' = 2 /\ text'[w] = 0
        /\ pc' = [pc EXCEPT ![w] = "parse"] /\ result' = result /\ m_read_buf'[1] = "NUL"
    BY <1>4, <1>13 DEF Takes, StartLine, At, Proceed, Goto, buffer
  <2>2. "parse" \in Taking \ {"clear both"} /\ ~ParseText(w)
    BY <1>13 DEF Taking, StartLine, ParseText, At
  <2> QED
    BY <1>7, <1>8, <2>1, <2>2 DEF Takes
<1>14. CASE ParseText(w)
  <2>1. /\ pc[w] = "parse" /\ text[w] = 0 /\ m_read_buf[1] = "NUL" /\ m_read_buf # <<>>
        /\ m_checked_index = 2 /\ m_start_line = 2
    BY <1>4, <1>5, <1>14 DEF Takes, ParseText, At
  <2>2. ParseRequestLine(Text(m_read_buf, text[w])) = "undefined"
    BY <2>1, NoTextNoSpace
  <2>3. result' = "undefined" /\ UNCHANGED <<m_checked_index, m_start_line, m_check_state>>
    <3>1. UNCHANGED <<m_checked_index, m_start_line>>
      BY <1>14, TakingMoves
    <3>2. result' = "undefined" /\ UNCHANGED m_check_state
      BY <1>6, <1>14, <2>2, TakingMoves
    <3> QED
      BY <3>1, <3>2
  <2>4. HasCrashed'
    BY <1>2, <1>5, <2>1, <2>3 DEF HasCrashed, Crashed, StartsWithLineEnd
  <2>5. HasData' /\ NothingIsParsed' /\ Answered'
    <3>1. Answered'
      BY <2>3 DEF Answered, Crashed
    <3>2. HasData'
      BY <1>2, <1>5 DEF HasData
    <3>3. NothingIsParsed'
      BY <1>6, <2>3 DEF NothingIsParsed
    <3> QED
      BY <3>1, <3>2, <3>3
  <2> QED
    BY <2>4, <2>5 DEF Orderly
<1> QED
  BY <1>9, <1>10, <1>11, <1>12, <1>13, <1>14

-----------------------------------------------------------------------------
\* What holds of the parser in every reachable state.
THEOREM ParserInvariant == Spec => []HInv
<1>1. HInv /\ [Next]_vars => HInv'
  <2> SUFFICES ASSUME HInv, [Next]_vars PROVE HInv'
    OBVIOUS
  <2>1. BufferTypeOK'
    BY TypeStep DEF HInv
  <2>2. CASE Main
    BY <2>1, <2>2, RecvStep, CountStep, AppendStep, ReuseStep DEF Main, HInv
  <2>3. ASSUME NEW w \in Workers, Worker(w) PROVE HInv'
    <3>1. Counted'
      BY <2>3, WorkerKeeps DEF HInv, Counted
    <3>2. ~raced' => Orderly'
      BY <2>3, TestStep, TakeStep DEF Worker
    <3>3. RaceNeedsLineEnd'
      <4>1. received' = received /\ reuses' = reuses
        BY <2>3, WorkerKeeps
      <4>2. raced' => raced \/ \E v \in Workers : pc[v] \in Taking
        BY <2>3, WorkerKeeps
      <4>3. ~raced /\ (\E v \in Workers : pc[v] \in Taking) => StartsWithLineEnd(received)
        BY DEF HInv, Orderly, NobodyTakes, Takes, HasCrashed
      <4> QED
        BY <4>1, <4>2, <4>3 DEF HInv, RaceNeedsLineEnd
    <3> QED
      BY <2>1, <3>1, <3>2, <3>3 DEF HInv
  <2>4. CASE UNCHANGED vars
    <3>1. /\ UNCHANGED <<m_read_buf, received, m_read_idx, m_checked_index, m_start_line, m_check_state,
                         main, requests, reuses, pc, text, result>>
          /\ (raced' <=> raced) /\ (asked' <=> asked)
      BY <2>4 DEF vars, buffer, lines, counters
    <3>2. Counted' /\ RaceNeedsLineEnd'
      BY <3>1 DEF HInv, Counted, RaceNeedsLineEnd
    <3>3. Orderly => Orderly'
      BY <3>1 DEF Orderly, HasData, NobodyTakes, Takes, HasCrashed, NothingIsParsed, Answered, Crashed,
                  StartsWithLineEnd
    <3> QED
      BY <2>1, <3>1, <3>2, <3>3 DEF HInv
  <2> QED
    BY <2>2, <2>3, <2>4 DEF Next
<1> QED
  BY <1>1, ParserStarts, PTL DEF Spec

\* The parser never looks behind the data, while main receives and other workers look on.
THEOREM IndexesStayInOrder == Spec => []IndexesInOrder
<1>1. HInv => IndexesInOrder
  <2> SUFFICES ASSUME HInv, ~raced
               PROVE  /\ 0 <= m_start_line /\ m_start_line <= m_checked_index
                      /\ m_checked_index <= m_read_idx
    BY DEF IndexesInOrder
  <2>1. Orderly /\ m_read_idx \in Nat /\ m_start_line \in Nat
    BY DEF HInv, BufferTypeOK
  <2>2. CASE NobodyTakes
    BY <2>1, <2>2 DEF NobodyTakes
  <2>3. ASSUME NEW t \in Workers, Takes(t)
        PROVE  m_start_line <= m_checked_index /\ m_checked_index <= m_read_idx
    <3>0. m_checked_index = 0 \/ m_checked_index = 1 \/ m_checked_index = 2
      BY <2>3, Zenon DEF Takes
    <3>1. m_read_idx >= 2
      BY <2>3, Zenon DEF Takes
    <3>2. m_start_line = 0 \/ (m_start_line = 2 /\ m_checked_index = 2)
      BY <2>3 DEF Takes
    <3> QED
      BY <2>1, <3>0, <3>1, <3>2
  <2>4. CASE HasCrashed
    BY <2>1, <2>4 DEF HasCrashed
  <2> QED
    BY <2>1, <2>2, <2>3, <2>4 DEF Orderly
<1> QED
  BY <1>1, ParserInvariant, PTL

\* Workers race for a line only on input that starts with a line end, or in a reused slot.
THEOREM OnlyLineEndsRace == Spec => []RaceNeedsLineEnd
<1>1. HInv => RaceNeedsLineEnd
  BY DEF HInv
<1> QED
  BY <1>1, ParserInvariant, PTL

\* However TCP cuts the input into reads, and wherever the workers are when the reads come, the
\* verdict in the end is that on the whole input.
THEOREM ChunkingDoesNotShow == Spec => []ChunkingIsInvisible
<1>1. HInv => ChunkingIsInvisible
  <2> SUFFICES ASSUME HInv, Quiet, asked, ~raced PROVE result = AllAtOnce
    BY DEF ChunkingIsInvisible
  <2>1. Orderly /\ \A w \in Workers : pc[w] = "idle"
    BY DEF HInv, Quiet, Running
  <2>2. CASE Crashed
    <3>1. HasCrashed
      BY <2>1, <2>2 DEF Orderly, NobodyTakes, Takes
    <3> QED
      BY <2>2, <3>1, NoSpaceInNothing DEF HasCrashed, Crashed, AllAtOnce
  <2>3. CASE ~Crashed
    BY <2>1, <2>3 DEF Orderly, Answered, Quiet, HInv, BufferTypeOK, AllAtOnce
  <2> QED
    BY <2>2, <2>3
<1> QED
  BY <1>1, ParserInvariant, PTL

\* As parse_line is written, whatever the client sends and however it is cut, no request line is
\* ever accepted or refused unless two workers race: process_read waits for more, or writes
\* through NULL.
THEOREM NoRequestIsParsed == Spec => [](~raced => NothingIsParsed)
<1>1. HInv => (~raced => NothingIsParsed)
  BY DEF HInv, Orderly
<1> QED
  BY <1>1, ParserInvariant, PTL
-----------------------------------------------------------------------------
(* The grammar of parse_request_line *)

\* Of any positions one is the first.
LEMMA LeastNat ==
  ASSUME NEW S \in SUBSET Nat, S # {}
  PROVE  \E m \in S : \A n \in S : m <= n
<1> DEFINE T == {0..n : n \in S}
<1>1. T \subseteq FiniteSubsetsOf(Nat) /\ T # {}
  <2>1. \A n \in S : 0..n \in SUBSET Nat /\ IsFiniteSet(0..n)
    BY FS_Interval
  <2> QED
    BY <2>1 DEF FiniteSubsetsOf
<1>2. IsWellFoundedOn(StrictSubsetOrdering(Nat), FiniteSubsetsOf(Nat))
  BY FS_StrictSubsetOrderingWellFounded
<1>3. PICK x \in T : \A y \in T : ~(<<y, x>> \in StrictSubsetOrdering(Nat))
  <2> HIDE DEF T
  <2> QED
    BY <1>1, <1>2, WFMin
<1>4. PICK m \in S : x = 0..m
  BY DEF T
<1>5. ASSUME NEW n \in S, n < m PROVE FALSE
  <2>1. m \in 0..m /\ m \notin 0..n /\ 0..n \subseteq 0..m
    BY <1>5
  <2>2. <<0..n, 0..m>> \in StrictSubsetOrdering(Nat)
    BY <2>1 DEF StrictSubsetOrdering
  <2> QED
    BY <1>3, <1>4, <2>2
<1> QED
  BY <1>5

\* A part of a sequence, its length and its elements.
LEMMA PartOf ==
  ASSUME NEW S, NEW s \in Seq(S), NEW d \in Nat, NEW m \in Nat, d + m <= Len(s),
         NEW a, NEW b, a = d + 1, b = d + m
  PROVE  SubSeq(s, a, b) \in Seq(S) /\ Len(SubSeq(s, a, b)) = m
         /\ \A k \in 1..m : SubSeq(s, a, b)[k] = s[k + d]
<1>1. PICK n \in Nat : n = Len(s)
  OBVIOUS
<1>2. \A k \in a..b : s[k] \in S
  BY <1>1
<1>3. SubSeq(s, a, b) \in Seq(S)
  BY <1>1, <1>2
<1>4. Len(SubSeq(s, a, b)) = m
  BY <1>1
<1>5. \A k \in 1..m : SubSeq(s, a, b)[k] = s[k + d]
  BY <1>1
<1> QED
  BY <1>3, <1>4, <1>5

\* FirstSpace is the first space, or 0 if there is none.
LEMMA FirstSpaceFinds ==
  ASSUME NEW S, NEW s \in Seq(S)
  PROVE  /\ FirstSpace(s) \in 0..Len(s)
         /\ FirstSpace(s) = 0 => \A k \in 1..Len(s) : s[k] # "SP"
         /\ FirstSpace(s) # 0 => /\ s[FirstSpace(s)] = "SP"
                                 /\ \A k \in 1..FirstSpace(s) - 1 : s[k] # "SP"
<1> DEFINE I == {k \in 1..Len(s) : s[k] = "SP"}
<1>1. FirstSpace(s) = IF I # {} THEN Min(I) ELSE 0
  BY Zenon DEF FirstSpace, SelectInSeq
<1>2. CASE I = {}
  BY <1>1, <1>2
<1>3. CASE I # {}
  <2>1. I \in SUBSET Nat
    OBVIOUS
  <2>2. \E m \in I : \A k \in I : m <= k
    BY <1>3, <2>1, LeastNat
  <2>3. Min(I) \in I /\ \A k \in I : Min(I) <= k
    <3> HIDE DEF I
    <3> QED
      BY <2>2 DEF Min
  <2>4. FirstSpace(s) = Min(I)
    BY <1>1, <1>3
  <2>5. PICK n \in Nat : n = Len(s)
    OBVIOUS
  <2>6. FirstSpace(s) \in 1..n /\ s[FirstSpace(s)] = "SP"
    BY <2>3, <2>4, <2>5
  <2>7. \A k \in 1..n : s[k] = "SP" => FirstSpace(s) <= k
    BY <2>3, <2>4, <2>5
  <2> QED
    BY <2>5, <2>6, <2>7
<1> QED
  BY <1>2, <1>3

\* There is only one first space.
LEMMA FirstSpaceIs ==
  ASSUME NEW S, NEW s \in Seq(S), NEW k \in 1..Len(s),
         s[k] = "SP", \A l \in 1..k - 1 : s[l] # "SP"
  PROVE  FirstSpace(s) = k
<1>1. PICK n \in Nat : n = Len(s)
  OBVIOUS
<1>2. PICK f \in 0..n : f = FirstSpace(s)
  BY <1>1, FirstSpaceFinds
<1>3. f # 0 /\ s[f] = "SP" /\ \A l \in 1..f - 1 : s[l] # "SP"
  BY <1>1, <1>2, FirstSpaceFinds
<1>4. ~(f < k) /\ ~(k < f)
  BY <1>1, <1>2, <1>3
<1> QED
  BY <1>1, <1>2, <1>4

\* A sequence of one element is that element.
LEMMA OneElement ==
  ASSUME NEW S, NEW u \in Seq(S), NEW v
  PROVE  u = <<v>> <=> Len(u) = 1 /\ u[1] = v
<1>1. u = <<v>> => Len(u) = 1 /\ u[1] = v
  OBVIOUS
<1>2. ASSUME Len(u) = 1, u[1] = v PROVE u = <<v>>
  <2>1. u \in Seq(S \cup {v}) /\ <<v>> \in Seq(S \cup {v})
    OBVIOUS
  <2>2. Len(<<v>>) = 1 /\ <<v>>[1] = v
    OBVIOUS
  <2>3. \A k \in 1..1 : u[k] = <<v>>[k]
    BY <1>2, <2>2
  <2> QED
    BY <1>2, <2>1, <2>2, <2>3
<1> QED
  BY <1>1, <1>2

\* The request line of a target, lexeme by lexeme.
Fits(chars, t) ==
  /\ Len(chars) = Len(t) + 4
  /\ chars[1] = "GET" /\ chars[2] = "SP"
  /\ \A k \in 1..Len(t) : chars[k + 2] = t[k]
  /\ chars[Len(t) + 3] = "SP" /\ chars[Len(t) + 4] = "HTTP/1.1"
RequestOf(t) == <<"GET", "SP">> \o t \o <<"SP", "HTTP/1.1">>
NoSpace(t) == \A k \in 1..Len(t) : t[k] # "SP"

\* Fits says the same as RequestOf.
LEMMA FitsIsRequestOf ==
  ASSUME NEW S, NEW chars \in Seq(S), NEW t \in Seq(S)
  PROVE  Fits(chars, t) <=> chars = RequestOf(t)
<1>1. PICK n \in Nat : n = Len(t)
  OBVIOUS
<1>2. PICK T : T = S \cup {"GET", "SP", "HTTP/1.1"}
  OBVIOUS
<1>3. t \in Seq(T) /\ chars \in Seq(T) /\ <<"GET", "SP">> \in Seq(T) /\ <<"SP", "HTTP/1.1">> \in Seq(T)
  BY <1>2
<1>4. PICK r \in Seq(T) : r = RequestOf(t)
  <2>1. \A u, v \in Seq(T) : u \o v \in Seq(T)
    OBVIOUS
  <2>2. RequestOf(t) \in Seq(T)
    BY <1>3, <2>1 DEF RequestOf
  <2> QED
    BY <2>2
<1>5. Fits(r, t)
  BY <1>1, <1>3, <1>4 DEF Fits, RequestOf
<1>6. ASSUME Fits(chars, t) PROVE chars = r
  <2>1. Len(chars) = n + 4 /\ Len(r) = n + 4
    BY <1>1, <1>5, <1>6 DEF Fits
  <2>2. ASSUME NEW k \in 1..n + 4 PROVE chars[k] = r[k]
    <3>1. k = 1 \/ k = 2 \/ k = n + 3 \/ k = n + 4 \/ \E l \in 1..n : k = l + 2
      <4>1. k - 2 \in 1..n \/ k = 1 \/ k = 2 \/ k = n + 3 \/ k = n + 4
        BY <1>1
      <4>2. k = (k - 2) + 2
        BY <1>1
      <4> QED
        BY <4>1, <4>2
    <3> QED
      BY <1>1, <1>5, <1>6, <3>1 DEF Fits
  <2> QED
    BY <1>3, <1>4, <2>1, <2>2
<1> QED
  BY <1>4, <1>5, <1>6

\* A line that is accepted is that of its target.
LEMMA AcceptedHasTarget ==
  ASSUME NEW S, NEW chars \in Seq(S), ParseRequestLine(chars) = "NO_REQUEST"
  PROVE  \E t \in Seq(S) : Fits(chars, t) /\ NoSpace(t) /\ HasPath(t)
<1> DEFINE i == FirstSpace(chars)
           url == SubSeq(chars, i + 1, Len(chars))
           j == FirstSpace(url)
           t == SubSeq(url, 1, j - 1)
<1>1. /\ i # 0 /\ j # 0
      /\ SubSeq(chars, 1, i - 1) = <<"GET">>
      /\ SubSeq(url, j + 1, Len(url)) = <<"HTTP/1.1">>
      /\ HasPath(t)
  BY DEF ParseRequestLine
<1>2. PICK n \in Nat : n = Len(chars)
  OBVIOUS
<1>3. i \in 1..n /\ chars[i] = "SP"
  BY <1>1, <1>2, FirstSpaceFinds
<1>4. i = 2 /\ chars[1] = "GET"
  <2> HIDE DEF i
  <2> DEFINE u == SubSeq(chars, 1, i - 1)
  <2>0. i - 1 \in Nat /\ 0 + (i - 1) <= Len(chars) /\ 1 = 0 + 1 /\ i - 1 = 0 + (i - 1)
    BY <1>2, <1>3
  <2>1. u \in Seq(S) /\ Len(u) = i - 1 /\ \A k \in 1..i - 1 : u[k] = chars[k + 0]
    BY <2>0, PartOf
  <2> HIDE DEF u
  <2>2. Len(u) = 1 /\ u[1] = "GET"
    BY <1>1, <2>1, OneElement DEF u
  <2>3. i = 2
    <3>1. i - 1 = 1
      BY <2>1, <2>2, Zenon
    <3> QED
      BY <1>3, <3>1
  <2>4. u[1] = chars[1]
    BY <2>1, <2>3
  <2> QED
    BY <2>2, <2>3, <2>4
<1>5. url \in Seq(S) /\ Len(url) = n - 2 /\ \A k \in 1..n - 2 : url[k] = chars[k + 2]
  BY <1>2, <1>3, <1>4
<1> HIDE DEF i, url
<1>6. j \in 1..n - 2 /\ url[j] = "SP" /\ \A k \in 1..j - 1 : url[k] # "SP"
  BY <1>1, <1>2, <1>5, FirstSpaceFinds
<1> HIDE DEF j
<1>7. n - 2 = j + 1 /\ url[j + 1] = "HTTP/1.1"
  <2> DEFINE u == SubSeq(url, j + 1, Len(url))
  <2>1. /\ j \in Nat /\ n - 2 - j \in Nat /\ j + (n - 2 - j) <= Len(url)
        /\ Len(url) = j + (n - 2 - j)
    BY <1>2, <1>5, <1>6
  <2>2. u \in Seq(S) /\ Len(u) = n - 2 - j /\ \A k \in 1..n - 2 - j : u[k] = url[k + j]
    BY <1>5, <2>1, PartOf
  <2> HIDE DEF u
  <2>3. Len(u) = 1 /\ u[1] = "HTTP/1.1"
    BY <1>1, <2>2, OneElement DEF u
  <2>4. n - 2 = j + 1
    <3>1. n - 2 - j = 1
      BY <2>2, <2>3, Zenon
    <3> QED
      BY <1>2, <1>6, <3>1
  <2>5. u[1] = url[j + 1]
    BY <1>2, <1>6, <2>2, <2>4
  <2> QED
    BY <2>3, <2>4, <2>5
<1>8. t \in Seq(S) /\ Len(t) = j - 1 /\ \A k \in 1..j - 1 : t[k] = url[k]
  BY <1>2, <1>5, <1>6
<1> HIDE DEF t
<1>9. Fits(chars, t)
  BY <1>2, <1>3, <1>4, <1>5, <1>6, <1>7, <1>8 DEF Fits
<1>10. NoSpace(t)
  BY <1>2, <1>6, <1>8 DEF NoSpace
<1> QED
  BY <1>1, <1>8, <1>9, <1>10

\* The line of a target with a path and without a space is accepted.
LEMMA TargetIsAccepted ==
  ASSUME NEW S, NEW chars \in Seq(S), NEW t \in Seq(S), Fits(chars, t), NoSpace(t), HasPath(t)
  PROVE  ParseRequestLine(chars) = "NO_REQUEST"
<1> DEFINE url == SubSeq(chars, 3, Len(chars))
<1>1. PICK n \in Nat : n = Len(t)
  OBVIOUS
<1>2. Len(chars) = n + 4
  BY <1>1 DEF Fits
<1>3. FirstSpace(chars) = 2
  <2>1. 2 \in 1..Len(chars) /\ chars[2] = "SP" /\ \A l \in 1..2 - 1 : chars[l] # "SP"
    BY <1>1, <1>2 DEF Fits
  <2> QED
    BY <2>1, FirstSpaceIs
<1>4. SubSeq(chars, 1, 1) = <<"GET">>
  <2> DEFINE u == SubSeq(chars, 1, 1)
  <2>0. 0 + 1 <= Len(chars) /\ 1 = 0 + 1 /\ 0 \in Nat /\ 1 \in Nat
    BY <1>1, <1>2
  <2>1. u \in Seq(S) /\ Len(u) = 1 /\ \A k \in 1..1 : u[k] = chars[k + 0]
    BY <2>0, PartOf
  <2> HIDE DEF u
  <2>2. Len(u) = 1 /\ u[1] = "GET"
    BY <1>1, <1>2, <2>1 DEF Fits
  <2> QED
    BY <2>1, <2>2, OneElement DEF u
<1>5. url \in Seq(S) /\ Len(url) = n + 2 /\ \A k \in 1..n + 2 : url[k] = chars[k + 2]
  BY <1>1, <1>2
<1> HIDE DEF url
<1>6. (\A k \in 1..n : url[k] = t[k]) /\ url[n + 1] = "SP" /\ url[n + 2] = "HTTP/1.1"
  <2>1. /\ \A k \in 1..n : chars[k + 2] = t[k]
        /\ chars[n + 3] = "SP" /\ chars[n + 4] = "HTTP/1.1"
    BY <1>1 DEF Fits
  <2>2. \A k \in 1..n + 2 : url[k] = chars[k + 2]
    BY <1>5
  <2>3. \A k \in 1..n : url[k] = t[k]
    BY <2>1, <2>2
  <2>4. n + 1 \in 1..n + 2 /\ n + 2 \in 1..n + 2 /\ n + 1 + 2 = n + 3 /\ n + 2 + 2 = n + 4
    OBVIOUS
  <2>5. url[n + 1] = chars[n + 3] /\ url[n + 2] = chars[n + 4]
    BY <2>2, <2>4
  <2> QED
    BY <2>1, <2>3, <2>5
<1>7. FirstSpace(url) = n + 1
  <2>1. n + 1 \in 1..Len(url) /\ \A l \in 1..n + 1 - 1 : url[l] # "SP"
    BY <1>1, <1>5, <1>6 DEF NoSpace
  <2> QED
    BY <1>5, <1>6, <2>1, FirstSpaceIs
<1>8. SubSeq(url, 1, n) = t
  <2> DEFINE u == SubSeq(url, 1, n)
  <2>0. 0 + n <= Len(url) /\ 1 = 0 + 1 /\ 0 \in Nat /\ n = 0 + n
    BY <1>1, <1>5
  <2>1. u \in Seq(S) /\ Len(u) = n /\ \A k \in 1..n : u[k] = url[k + 0]
    BY <1>5, <2>0, PartOf
  <2> HIDE DEF u
  <2>2. Len(u) = n /\ \A k \in 1..n : u[k] = t[k]
    BY <1>1, <1>5, <1>6, <2>1
  <2> QED
    BY <1>1, <2>1, <2>2 DEF u
<1>9. SubSeq(url, n + 2, Len(url)) = <<"HTTP/1.1">>
  <2> DEFINE u == SubSeq(url, n + 2, Len(url))
  <2>0. /\ n + 1 \in Nat /\ (n + 1) + 1 <= Len(url) /\ n + 2 = (n + 1) + 1
        /\ Len(url) = (n + 1) + 1 /\ 1 \in Nat
    BY <1>1, <1>5
  <2>1. u \in Seq(S) /\ Len(u) = 1 /\ \A k \in 1..1 : u[k] = url[k + (n + 1)]
    BY <1>5, <2>0, PartOf
  <2> HIDE DEF u
  <2>2. Len(u) = 1 /\ u[1] = "HTTP/1.1"
    BY <1>1, <1>5, <1>6, <2>1
  <2> QED
    BY <2>1, <2>2, OneElement DEF u
<1>10. /\ FirstSpace(chars) # 0 /\ FirstSpace(url) # 0
       /\ SubSeq(chars, 1, FirstSpace(chars) - 1) = <<"GET">>
       /\ SubSeq(chars, FirstSpace(chars) + 1, Len(chars)) = url
       /\ SubSeq(url, FirstSpace(url) + 1, Len(url)) = <<"HTTP/1.1">>
       /\ SubSeq(url, 1, FirstSpace(url) - 1) = t
  <2>1. /\ FirstSpace(chars) # 0 /\ FirstSpace(chars) - 1 = 1 /\ FirstSpace(chars) + 1 = 3
        /\ FirstSpace(url) # 0 /\ FirstSpace(url) - 1 = n /\ FirstSpace(url) + 1 = n + 2
    BY <1>1, <1>3, <1>7
  <2>2. SubSeq(chars, FirstSpace(chars) + 1, Len(chars)) = url
    BY <2>1, Zenon DEF url
  <2> QED
    BY <1>4, <1>8, <1>9, <2>1, <2>2, Zenon
<1> QED
  BY <1>10, Zenon DEF ParseRequestLine

\* parse_request_line accepts, of lines of any length over any alphabet, exactly those that are
\* GET, a target with a path, and the version, separated by one space each.
THEOREM GrammarOfAnyLine ==
  ASSUME NEW S, NEW chars \in Seq(S)
  PROVE  ParseRequestLine(chars) = "NO_REQUEST" <=>
           \E t \in Seq(S) : NoSpace(t) /\ HasPath(t) /\ chars = RequestOf(t)
BY AcceptedHasTarget, TargetIsAccepted, FitsIsRequestOf

\* A target of at most two lexemes has a path and no space just if it is one of Targets.
LEMMA TargetsAreThose ==
  ASSUME NEW t \in Seq(Lexemes), Len(t) <= 2
  PROVE  t \in Targets <=> NoSpace(t) /\ HasPath(t)
<1>1. PICK n \in 0..2 : n = Len(t)
  <2>1. PICK n \in Nat : n = Len(t)
    OBVIOUS
  <2>2. n \in 0..2
    BY <2>1
  <2> QED
    BY <2>1, <2>2
<1>2. t \in [1..n -> Lexemes]
  BY <1>1
<1>3. n = 0 \/ n = 1 \/ n = 2
  BY <1>1
<1>4. CASE n = 0
  <2>1. t = <<>>
    <3>1. Len(t) = 0
      BY <1>1, <1>4, Zenon
    <3> QED
      BY <3>1
  <2>2. \A m \in 1..2 : t \notin [1..m -> Lexemes \ {"SP"}]
    <3>1. DOMAIN t = 1..n
      BY <1>2
    <3>2. \A m \in 1..2 : 1 \in 1..m /\ 1 \notin 1..n
      BY <1>4
    <3> QED
      BY <3>1, <3>2
  <2> QED
    BY <2>1, <2>2 DEF HasPath, Targets
<1>5. CASE n # 0
  <2>1. Head(t) = t[1] /\ t # <<>>
    BY <1>1, <1>5
  <2>2. NoSpace(t) <=> t \in [1..n -> Lexemes \ {"SP"}]
    BY <1>1, <1>2 DEF NoSpace
  <2>3. HasPath(t) <=> t[1] = "/path" \/ (n = 2 /\ t[1] = "http://" /\ t[2] \in WithSlash)
    BY <1>1, <1>3, <1>5, <2>1 DEF HasPath
  <2>4. t \in Targets <=>
          /\ \E m \in 1..2 : t \in [1..m -> Lexemes \ {"SP"}]
          /\ t[1] = "/path" \/ (n = 2 /\ t[1] = "http://" /\ t[2] \in WithSlash)
    BY <1>1 DEF Targets
  <2>5. (\E m \in 1..2 : t \in [1..m -> Lexemes \ {"SP"}]) <=> t \in [1..n -> Lexemes \ {"SP"}]
    BY <1>1, <1>3, <1>5
  <2> QED
    BY <2>2, <2>3, <2>4, <2>5
<1> QED
  BY <1>4, <1>5

\* On the lines and targets the run enumerates this is RequestLineGrammar.
THEOREM GrammarIsExact == Spec => []RequestLineGrammar
<1>1. ASSUME NEW n \in 1..6, NEW chars \in [1..n -> Lexemes]
      PROVE  ParseRequestLine(chars) = "NO_REQUEST" <=> \E t \in Targets : chars = RequestOf(t)
  <2>1. chars \in Seq(Lexemes) /\ Len(chars) = n
    OBVIOUS
  <2>2. ASSUME ParseRequestLine(chars) = "NO_REQUEST"
        PROVE  \E t \in Targets : chars = RequestOf(t)
    <3>1. PICK t \in Seq(Lexemes) : Fits(chars, t) /\ NoSpace(t) /\ HasPath(t)
      BY <2>1, <2>2, AcceptedHasTarget
    <3>2. Len(t) <= 2
      BY <2>1, <3>1 DEF Fits
    <3> QED
      BY <2>1, <3>1, <3>2, TargetsAreThose, FitsIsRequestOf
  <2>3. ASSUME NEW t \in Targets, chars = RequestOf(t)
        PROVE  ParseRequestLine(chars) = "NO_REQUEST"
    <3>0. PICK m \in 1..2 : t \in [1..m -> Lexemes \ {"SP"}]
      BY DEF Targets
    <3>1. t \in Seq(Lexemes) /\ Len(t) <= 2
      BY <3>0
    <3> QED
      BY <2>1, <2>3, <3>1, TargetsAreThose, GrammarOfAnyLine
  <2> QED
    BY <2>2, <2>3
<1>2. RequestLineGrammar
  BY <1>1 DEF RequestLineGrammar, RequestOf
<1> QED
  BY <1>2, PTL
=============================================================================
