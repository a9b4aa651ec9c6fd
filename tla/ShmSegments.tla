----------------------------- MODULE ShmSegments ----------------------------
(***************************************************************************)
(* write_shm.c and read_shm.c: System V shared memory under the key 100.   *)
(* Both create the segment if need be, attach it, wait for a key, detach   *)
(* it and remove it.  Any number of them run at once, in any order.        *)
(***************************************************************************)
EXTENDS Naturals, FiniteSets

CONSTANTS
  Procs,        \* the processes
  Segments,     \* the identifiers shmget may hand out
  NoSegment     \* the key has no segment; shmget has failed

ASSUME ShmAssumption == NoSegment \notin Segments

VARIABLES
  role,         \* per process: "writer" or "reader"
  spc,          \* per process: its next step
  shmid,        \* per process: what shmget returned
  keyed,        \* the segment that key 100 names
  present,      \* the segments that exist
  created       \* history: the identifiers handed out, which do not come back

shvars == <<role, spc, shmid, keyed, present, created>>

Attached(s) == {p \in Procs : shmid[p] = s /\ spc[p] \in {"use", "getchar"}}

ShmInit ==
  /\ role \in [Procs -> {"writer", "reader"}]
  /\ spc = [p \in Procs |-> "shmget"] /\ shmid = [p \in Procs |-> NoSegment]
  /\ keyed = NoSegment /\ present = {} /\ created = {}

\* shmget(100, 4096, IPC_CREAT | 0664) creates a segment if there is none.
\* shmget(100, 0, IPC_CREAT) of the reader cannot: no segment has size 0.
Shmget(p) ==
  /\ spc[p] = "shmget"
  /\ \/ keyed # NoSegment /\ shmid' = [shmid EXCEPT ![p] = keyed] /\ UNCHANGED <<keyed, present>>
     \/ /\ keyed = NoSegment /\ role[p] = "writer"
        /\ \E s \in Segments \ created :
             /\ shmid' = [shmid EXCEPT ![p] = s]
             /\ keyed' = s /\ present' = present \cup {s}
     \/ keyed = NoSegment /\ role[p] = "reader" /\ UNCHANGED <<shmid, keyed, present>>
  /\ spc' = [spc EXCEPT ![p] = "shmat"]
  /\ created' = created \cup present'
  /\ UNCHANGED role

\* shmat.  Its -1 is not tested: the process crashes when it uses the pointer.
Shmat(p) ==
  /\ spc[p] = "shmat"
  /\ spc' = [spc EXCEPT ![p] = IF shmid[p] \in present THEN "use" ELSE "crashed"]
  /\ UNCHANGED <<role, shmid, keyed, present, created>>

\* memcpy(ptr, str, ...), or printf of what is there.
Use(p) ==
  /\ spc[p] = "use"
  /\ spc' = [spc EXCEPT ![p] = "getchar"]
  /\ UNCHANGED <<role, shmid, keyed, present, created>>

\* A segment without a key goes with its last attachment.
Detach(p) ==
  present' = IF shmid[p] # keyed /\ Attached(shmid[p]) = {p} THEN present \ {shmid[p]} ELSE present

\* A key is pressed: shmdt(ptr).
Shmdt(p) ==
  /\ spc[p] = "getchar"
  /\ Detach(p)
  /\ spc' = [spc EXCEPT ![p] = "rmid"]
  /\ UNCHANGED <<role, shmid, keyed, created>>

\* Mutant of Remove: the segment is left.
RemoveNever(p) ==
  /\ spc[p] = "rmid"
  /\ spc' = [spc EXCEPT ![p] = "returned"]
  /\ UNCHANGED <<role, shmid, keyed, present, created>>

\* shmctl(shmid, IPC_RMID, NULL): the key is free at once, the segment goes when nobody
\* has it attached.  The call fails if the segment is gone.
Remove(p) ==
  /\ spc[p] = "rmid"
  /\ keyed' = IF keyed = shmid[p] THEN NoSegment ELSE keyed
  /\ present' = IF Attached(shmid[p]) = {} THEN present \ {shmid[p]} ELSE present
  /\ spc' = [spc EXCEPT ![p] = "returned"]
  /\ UNCHANGED <<role, shmid, created>>

\* Ctrl-C instead of a key.
Interrupted(p) ==
  /\ spc[p] = "getchar"
  /\ Detach(p)
  /\ spc' = [spc EXCEPT ![p] = "killed"]
  /\ UNCHANGED <<role, shmid, keyed, created>>

ShmNext == \E p \in Procs :
  Shmget(p) \/ Shmat(p) \/ Use(p) \/ Shmdt(p) \/ Remove(p) \/ Interrupted(p)

ShmTypeOK ==
  /\ spc \in [Procs -> {"shmget", "shmat", "use", "getchar", "rmid", "returned", "killed", "crashed"}]
  /\ shmid \in [Procs -> Segments \cup {NoSegment}]
  /\ keyed \in present \cup {NoSegment} /\ present \subseteq created /\ created \subseteq Segments

\* Each program removes the segment while others may use or attach it.  One that exists has a
\* process that has yet to remove it, or that was killed before it could: without a kill no
\* segment outlives the programs.
NoSegmentLeftBehind ==
  \A s \in present :
    \E p \in Procs : shmid[p] = s /\ spc[p] \in {"shmat", "use", "getchar", "rmid", "killed"}

\* A process that has attached a segment keeps it, whoever removes it.
AttachedStays == \A p \in Procs : spc[p] \in {"use", "getchar"} => shmid[p] \in present
=============================================================================
