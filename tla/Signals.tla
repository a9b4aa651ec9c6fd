------------------------------- MODULE Signals ------------------------------
(***************************************************************************)
(* The programs about timers and blocked signals: alarm.c, alarm1.c,       *)
(* setitimer.c, sighanlder.c, sigaction.c, daemonP.c and sigprocmask.c.    *)
(* Seconds are left out: an armed timer may expire at any time.            *)
(***************************************************************************)
EXTENDS Naturals, Sequences

CONSTANT Rounds   \* the value of num at which sigprocmask.c unblocks, 10 in the code

SignalsAssumption == Rounds \in Nat \ {0}

VARIABLES
  sigprog,    \* which program runs
  todo,       \* its statements that are still to be done, in order
  timer,      \* "off", "once" or "periodic"
  caught,     \* a handler for SIGALRM is installed
  inside,     \* the handler runs
  mask, due,  \* the blocked signals and the pending ones; pending signals merge
  num,        \* rounds of sigprocmask.c
  sent,       \* history: the signals the user sent
  ended       \* how the process ended: "no", "exit" or the signal that killed it

svars == <<sigprog, todo, timer, caught, inside, mask, due, num, sent, ended>>

Keys == {"INT", "QUIT"}

\* The statements of each main.  A daemon forks, and its parent exits, before it begins.
Alarm       == <<"once", "once", "loop">>
Alarm1      == <<"once", "loop">>
Setitimer   == <<"periodic", "getchar">>
Sighanlder  == <<"catch", "periodic", "getchar">>
Sigaction   == <<"catch", "periodic", "loop">>
DaemonP     == <<"catch", "periodic", "loop">>
Sigprocmask == <<"block", "rounds">>

Statements == [
  alarm |-> Alarm, alarm1 |-> Alarm1, setitimer |-> Setitimer, sighanlder |-> Sighanlder,
  sigaction |-> Sigaction, daemonP |-> DaemonP, sigprocmask |-> Sigprocmask]

SignalsInit ==
  /\ sigprog \in DOMAIN Statements
  /\ todo = Statements[sigprog]
  /\ timer = "off" /\ caught = FALSE /\ inside = FALSE
  /\ mask = {} /\ due = {} /\ num = 0 /\ sent = {} /\ ended = "no"

\* The main program is at statement s, and no handler runs on top of it.
At(s) == ended = "no" /\ ~inside /\ Head(todo) = s
Done == todo' = Tail(todo)

\* signal or sigaction for SIGALRM.
Catch ==
  /\ At("catch")
  /\ caught' = TRUE
  /\ Done
  /\ UNCHANGED <<sigprog, timer, inside, mask, due, num, sent, ended>>

\* alarm or setitimer: there is one timer, and a new setting replaces the old one.
Arm ==
  /\ At("once") \/ At("periodic")
  /\ timer' = Head(todo)
  /\ Done
  /\ UNCHANGED <<sigprog, caught, inside, mask, due, num, sent, ended>>

\* Mutant of Expire: the timer of a process with a handler is not set again.
ExpireOnce ==
  /\ ended = "no" /\ timer # "off"
  /\ due' = due \cup {"ALRM"}
  /\ timer' = "off"
  /\ UNCHANGED <<sigprog, todo, caught, inside, mask, num, sent, ended>>

Expire ==
  /\ ended = "no" /\ timer # "off"
  /\ due' = due \cup {"ALRM"}
  /\ timer' = IF timer = "once" THEN "off" ELSE timer
  /\ UNCHANGED <<sigprog, todo, caught, inside, mask, num, sent, ended>>

\* The user presses Ctrl-C or Ctrl-\ for sigprocmask.c ...
Send(s) ==
  /\ ended = "no" /\ sigprog = "sigprocmask"
  /\ due' = due \cup {s} /\ sent' = sent \cup {s}
  /\ UNCHANGED <<sigprog, todo, timer, caught, inside, mask, num, ended>>

\* ... or the key that getchar waits for, which the handler does not interrupt.
Getchar ==
  /\ At("getchar")
  /\ ended' = "exit"
  /\ UNCHANGED <<sigprog, todo, timer, caught, inside, mask, due, num, sent>>

Block ==
  /\ At("block")
  /\ mask' = Keys
  /\ Done
  /\ UNCHANGED <<sigprog, timer, caught, inside, due, num, sent, ended>>

\* The pending signals are printed; if (num == 10) they are unblocked.  Rounds after that
\* are alike, and num stays.
Round ==
  /\ At("rounds") /\ num <= Rounds
  /\ num' = num + 1
  /\ mask' = IF num + 1 = Rounds THEN {} ELSE mask
  /\ UNCHANGED <<sigprog, todo, timer, caught, inside, due, sent, ended>>

\* A signal is acted upon: its handler starts, or the process is killed.
Deliver(s) ==
  /\ ended = "no" /\ s \in due \ mask /\ ~(s = "ALRM" /\ inside)
  /\ due' = due \ {s}
  /\ inside' = (s = "ALRM" /\ caught)
  /\ ended' = IF inside' THEN "no" ELSE s
  /\ UNCHANGED <<sigprog, todo, timer, caught, mask, num, sent>>

\* The handler prints, or writes the time to a file, and returns.
Return ==
  /\ ended = "no" /\ inside
  /\ inside' = FALSE
  /\ UNCHANGED <<sigprog, todo, timer, caught, mask, due, num, sent, ended>>

Main == Catch \/ Arm \/ Block \/ Round \/ Return
Delivery == \E s \in Keys \cup {"ALRM"} : Deliver(s)
SignalsNext == Main \/ Expire \/ Delivery \/ Getchar \/ \E s \in Keys : Send(s)
SignalsSpec == SignalsInit /\ [][SignalsNext]_svars

SignalsTypeOK ==
  /\ sigprog \in DOMAIN Statements /\ timer \in {"off", "once", "periodic"}
  /\ caught \in BOOLEAN /\ inside \in BOOLEAN
  /\ mask \subseteq Keys /\ due \subseteq Keys \cup {"ALRM"} /\ sent \subseteq Keys
  /\ num \in 0..Rounds + 1
  /\ ended \in {"no", "exit", "ALRM"} \cup Keys

\* A signal that is sent while it is blocked, however often, stays pending and then ends
\* the process; and no program with a handler is killed by its own timer.
SignalsAreKept ==
  /\ \A s \in sent : s \in due \/ ended # "no"
  /\ ended = "ALRM" => ~(\E i \in 1..Len(Statements[sigprog]) : Statements[sigprog][i] = "catch")

\* alarm.c:30 says that SIGALRM comes whatever the process is doing: alarm.c and alarm1.c
\* end.  A periodic timer runs its handler again and again.  What the user sent to
\* sigprocmask.c ends it in the end.
SignalsTakeEffect ==
  /\ (sigprog \in {"alarm", "alarm1"}) ~> (ended = "ALRM")
  /\ (sigprog \in {"sigaction", "daemonP"}) => []<>inside
  /\ (sent # {}) ~> (ended # "no")
=============================================================================
