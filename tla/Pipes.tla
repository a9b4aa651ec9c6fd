-------------------------------- MODULE Pipes -------------------------------
(***************************************************************************)
(* One pipe, one process that writes and one that reads: pipe.c and        *)
(* noblock.c, ps_aux_grep_xx.c, and write.c with read.c on a FIFO.         *)
(***************************************************************************)
EXTENDS PipeKernel

CONSTANTS
  Capacity,    \* pieces a pipe holds
  Pieces       \* pieces a writer has: all of it for ps and write.c, a bound for pipe.c

ASSUME PipesAssumption == Capacity \in Nat \ {0} /\ Pieces \in Nat \ {0}

VARIABLES
  pipeprog,    \* which program runs
  pp,          \* "writer" and "reader": the next step of each
  fifo         \* test_fifo exists

pipevars == <<pipeprog, pp, fifo>>

Both == {"writer", "reader"}
Endless == pipeprog \in {"pipe", "noblock"}
Goes(p, step) == pp' = [pp EXCEPT ![p] = step]

\* After pipe and fork both processes hold both ends.  write.c and read.c begin with nothing.
PipesInit ==
  /\ pipeprog \in {"pipe", "noblock", "ps", "fifo"}
  /\ LET holders == [x \in Pipes |-> IF x = "pipe" /\ pipeprog # "fifo" THEN Both ELSE {}]
     IN readers = holders /\ writers = holders
  /\ pp = [p \in Both |-> IF pipeprog # "fifo" THEN "close" ELSE IF p = "writer" THEN "mkfifo" ELSE "open"]
  /\ fifo \in BOOLEAN
  /\ KernelInit

\* Mutant of CloseUnused: a process keeps the end it does not use.
CloseNothing(p) ==
  /\ pp[p] = "close"
  /\ Goes(p, "loop")
  /\ UNCHANGED <<pipeprog, fifo, kvars>>

\* close(fd[1]) in the reader, close(fd[0]) in the writer.
CloseUnused(p) ==
  /\ pp[p] = "close"
  /\ IF p = "reader" THEN writers' = [writers EXCEPT !["pipe"] = @ \ {p}] /\ UNCHANGED readers
                     ELSE readers' = [readers EXCEPT !["pipe"] = @ \ {p}] /\ UNCHANGED writers
  /\ Goes(p, "loop")
  /\ UNCHANGED <<pipeprog, fifo, pieces>>

\* write.c: mkfifo, which fails if the FIFO is there, and that does not matter.
Mkfifo ==
  /\ pp["writer"] = "mkfifo"
  /\ fifo' = TRUE
  /\ Goes("writer", "open")
  /\ UNCHANGED <<pipeprog, kvars>>

\* open("test_fifo", ...) waits for the other side and ends its wait.  read.c leaves if
\* there is no such file.
Other(p) == IF p = "writer" THEN "reader" ELSE "writer"
Open(p) ==
  /\ pp[p] = "open" /\ (p = "writer" \/ fifo)
  /\ IF p = "reader" THEN readers' = [readers EXCEPT !["pipe"] = {p}] /\ UNCHANGED writers
                     ELSE writers' = [writers EXCEPT !["pipe"] = {p}] /\ UNCHANGED readers
  /\ pp' = IF pp[Other(p)] = "opening" THEN [q \in Both |-> "loop"] ELSE [pp EXCEPT ![p] = "opening"]
  /\ UNCHANGED <<pipeprog, fifo, pieces>>

\* A process ends: it is through, or was killed.
End(p) ==
  /\ Goes(p, "ended")
  /\ Drop({p})
  /\ UNCHANGED <<pipeprog, fifo, content, sent, got>>

OpenFails ==
  /\ pp["reader"] = "open" /\ ~fifo
  /\ End("reader") /\ UNCHANGED over

\* write: the writer waits while the pipe is full, and SIGPIPE kills it if there is no reader.
Write ==
  /\ pp["writer"] = "loop" /\ Len(sent["pipe"]) < Pieces
  /\ Len(content["pipe"]) < Capacity
  /\ Put("pipe")
  /\ UNCHANGED pipevars

WriteToNobody ==
  /\ pp["writer"] = "loop" /\ Len(sent["pipe"]) < Pieces /\ readers["pipe"] = {}
  /\ End("writer") /\ UNCHANGED over

\* ps has said everything, or execlp failed; write.c has sent its hundred lines.
WriterReturns ==
  /\ pp["writer"] = "loop" /\ ~Endless
  /\ pipeprog = "ps" \/ Len(sent["pipe"]) = Pieces
  /\ End("writer") /\ UNCHANGED over

Read ==
  /\ pp["reader"] = "loop"
  /\ Take("pipe")
  /\ UNCHANGED pipevars

\* Mutant of ReadEnd: an empty pipe is taken for its end.
ReadEndEarly ==
  /\ pp["reader"] = "loop" /\ ~Endless /\ content["pipe"] = <<>>
  /\ End("reader")
  /\ over' = [over EXCEPT !["pipe"] = TRUE]

\* read returns 0, and the reader returns.  pipe.c and noblock.c do not look: they read on.
ReadEnd ==
  /\ pp["reader"] = "loop" /\ ~Endless /\ AtEnd("pipe")
  /\ End("reader")
  /\ over' = [over EXCEPT !["pipe"] = TRUE]

Kill(p) ==
  /\ pp[p] # "ended"
  /\ End(p) /\ UNCHANGED over

Writer == CloseUnused("writer") \/ Mkfifo \/ Open("writer") \/ Write \/ WriteToNobody
Reader == CloseUnused("reader") \/ Read \/ ReadEnd
PipesNext ==
  \/ Writer \/ Reader \/ WriterReturns \/ Open("reader") \/ OpenFails
  \/ \E p \in Both : Kill(p)

PipesTypeOK ==
  /\ pp \in [Both -> {"mkfifo", "open", "opening", "close", "loop", "ended"}]
  /\ \A x \in Pipes : readers[x] \subseteq Both /\ writers[x] \subseteq Both
  /\ Len(content["pipe"]) <= Capacity

\* A reader does not wait for a writer that is gone: read has something to return, or the end.
\* Nobody, not the reader itself either, still holds the write end.
ReaderIsNotLeftWaiting ==
  (pp["writer"] = "ended" /\ pp["reader"] = "loop") => content["pipe"] # <<>> \/ AtEnd("pipe")

\* A reader of ps or of the FIFO that has come to its loop returns once the writer is gone.
ReaderNoticesEnd ==
  (~Endless /\ pp["writer"] = "ended" /\ pp["reader"] = "loop") ~> (pp["reader"] = "ended")
=============================================================================
