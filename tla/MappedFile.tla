----------------------------- MODULE MappedFile -----------------------------
(***************************************************************************)
(* The programs that share mapped memory.  a.c and b.c: each maps two      *)
(* files, and its parent writes one while its child reads the other; the   *)
(* model has one of the two directions.  mmap-p2c-ipc.c: the child writes  *)
(* and the parent reads.  mmap-anonymous.c: the parent writes and the      *)
(* child reads.  strcpy copies cell by cell, and nothing locks the memory. *)
(***************************************************************************)
EXTENDS Naturals

CONSTANTS
  Cells,     \* how many pieces a text has
  MaxTexts   \* bound on the lines the user types to a.c

MappedAssumption == Cells \in Nat \ {0} /\ MaxTexts \in Nat \ {0}

VARIABLES
  mprog,     \* "contact" (a.c and b.c), "p2c" or "anonymous"
  mem,       \* the mapped memory, per cell the text it belongs to; 0 is what was there
  text,      \* the last text that was typed or chosen
  wpc, wat,  \* the writer: its next step, and the cells strcpy has written
  rpc, rat,  \* the reader likewise
  buf,       \* what the reader has copied of it
  child,     \* contact: the child of the writer's process, which reads the other file
  cut        \* the writing child of p2c was killed

mvars == <<mprog, mem, text, wpc, wat, rpc, rat, buf, child, cut>>
writer == <<text, wpc, wat>>
reader == <<rpc, rat, buf>>

Text(n) == [i \in 1..Cells |-> n]

\* All begin at fork.  If it fails, a.c exits, p2c reads nothing and anonymous writes nothing.
\* The reader of a.c's text is the child of b.c, which is not there if the fork of b.c failed.
MappedInit ==
  /\ mprog \in {"contact", "p2c", "anonymous"}
  /\ mem = Text(0) /\ text = 0 /\ wat = 0 /\ rat = 0 /\ buf = Text(0)
  /\ \E forked \in BOOLEAN :
       CASE mprog = "contact"   -> /\ wpc = (IF forked THEN "scanf" ELSE "ended")
                                   /\ rpc \in {"read", "ended"}
                                   /\ child = (IF forked THEN "running" ELSE "none")
         [] mprog = "p2c"       -> /\ wpc = (IF forked THEN "scanf" ELSE "ended")
                                   /\ rpc = (IF forked THEN "wait" ELSE "ended")
                                   /\ child = "none"
         [] mprog = "anonymous" -> /\ wpc = (IF forked THEN "scanf" ELSE "ended")
                                   /\ rpc = (IF forked THEN "read" ELSE "ended")
                                   /\ child = "none"
  /\ cut = FALSE

-----------------------------------------------------------------------------
\* scanf("%s", buf) in a.c; the other two write a text of their own.
Scanf ==
  /\ wpc = "scanf" /\ text < (IF mprog = "contact" THEN MaxTexts ELSE 1)
  /\ text' = text + 1
  /\ wpc' = "write" /\ wat' = 0
  /\ UNCHANGED <<mprog, mem, reader, child, cut>>

\* strcpy(Wptr, buf);
WriteCell ==
  /\ wpc = "write" /\ wat < Cells
  /\ mem' = [mem EXCEPT ![wat + 1] = text]
  /\ wat' = wat + 1
  /\ UNCHANGED <<mprog, text, wpc, reader, child, cut>>

Written ==
  /\ wpc = "write" /\ wat = Cells
  /\ wpc' = IF mprog = "p2c" THEN "ended" ELSE "wait"
  /\ UNCHANGED <<mprog, mem, text, wat, reader, child, cut>>

\* wait(NULL) blocks while the writer's own child runs.  In a.c that child reads for ever;
\* if it is killed, wait returns, from then on at once.  The writer of anonymous ends.
WriterWaits ==
  /\ wpc = "wait"
  /\ IF mprog = "contact" THEN child = "killed" /\ wpc' = "scanf"
                          ELSE rpc = "ended" /\ wpc' = "ended"
  /\ UNCHANGED <<mprog, mem, text, wat, reader, child, cut>>

\* wait(NULL) of p2c.
ReaderWaits ==
  /\ rpc = "wait" /\ wpc = "ended"
  /\ rpc' = "read"
  /\ UNCHANGED <<mprog, mem, writer, rat, buf, child, cut>>

\* strcpy(buf, Rptr);
ReadCell ==
  /\ rpc = "read" /\ rat < Cells
  /\ buf' = [buf EXCEPT ![rat + 1] = mem[rat + 1]]
  /\ rat' = rat + 1
  /\ UNCHANGED <<mprog, mem, writer, rpc, child, cut>>

\* It prints what it has read.  The child of b.c reads again after a second.
Printed ==
  /\ rpc = "read" /\ rat = Cells
  /\ IF mprog = "contact" THEN rat' = 0 /\ UNCHANGED rpc ELSE rpc' = "ended" /\ UNCHANGED rat
  /\ UNCHANGED <<mprog, mem, writer, buf, child, cut>>

\* A child is killed: the one of a.c, the one of b.c that reads, or the writer of p2c in the
\* middle of its strcpy.
Killed ==
  \/ /\ mprog = "contact" /\ child = "running"
     /\ child' = "killed"
     /\ UNCHANGED <<mprog, mem, writer, reader, cut>>
  \/ /\ mprog = "contact" /\ rpc = "read"
     /\ rpc' = "ended"
     /\ UNCHANGED <<mprog, mem, writer, rat, buf, child, cut>>
  \/ /\ mprog = "p2c" /\ wpc \in {"scanf", "write"}
     /\ wpc' = "ended" /\ cut' = TRUE
     /\ UNCHANGED <<mprog, mem, text, wat, reader, child>>

MappedWrite == WriteCell \/ Written \/ WriterWaits \/ ReaderWaits
MappedRead == ReadCell \/ Printed
MappedNext == MappedWrite \/ MappedRead \/ Scanf \/ Killed

MappedTypeOK ==
  /\ mem \in [1..Cells -> 0..MaxTexts] /\ buf \in [1..Cells -> 0..MaxTexts]
  /\ text \in 0..MaxTexts /\ wat \in 0..Cells /\ rat \in 0..Cells
  /\ wpc \in {"scanf", "write", "wait", "ended"} /\ rpc \in {"wait", "read", "ended"}
  /\ child \in {"none", "running", "killed"} /\ cut \in BOOLEAN

\* wait is all the synchronisation there is: the parent of p2c prints the text of its child
\* and no mixture of it with what was there, unless the child was killed.
ReadsAreWhole == (mprog = "p2c" /\ ~cut /\ rpc = "read" /\ rat = Cells) => buf = Text(text)

\* What was written is read in the end, however strcpy here and there interleave: once the
\* writer waits, the reader of a.c's text, unless it is gone, and the one of p2c get it whole.
TextArrives ==
  \A n \in 1..MaxTexts :
    (mprog # "anonymous" /\ text = n /\ wpc \in {"wait", "ended"} /\ ~cut) ~>
      (buf = Text(n) \/ text > n \/ (mprog = "contact" /\ rpc = "ended"))
=============================================================================
