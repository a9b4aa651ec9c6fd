------------------------------ MODULE Channels ------------------------------
(***************************************************************************)
(* The programs that exchange data: pipes and FIFOs, the chat, the echo    *)
(* clients and servers, the broadcast.  Which of them runs is chosen in    *)
(* the initial state.  What is read of pipes and FIFOs is shown to be what *)
(* Channel promises.  Operators without a prefix are those of Pipes, Echo  *)
(* and Broadcast.                                                          *)
(***************************************************************************)
EXTENDS Pipes, Echo, Broadcast

CONSTANT Lines

VARIABLES
  medium,
  at, proc, exists   \* those of Chat

C == INSTANCE Chat

chatvars == <<at, proc, exists>>
chvars == <<medium, kvars, pipevars, chatvars, echovars, castvars>>

Over(m) == medium = m

\* Those that do not run keep one initial state.
ChannelsInit ==
  /\ medium \in {"pipes", "chat", "echo", "broadcast"}
  /\ IF Over("pipes") THEN PipesInit
     ELSE C!ChatInit /\ pipeprog = "pipe" /\ pp = [p \in {"writer", "reader"} |-> "close"] /\ fifo = FALSE
  /\ at = [u \in C!Users |-> "access aFifo"] /\ proc = [p \in C!Talkers |-> "none"]
  /\ exists \in SUBSET {"aFifo", "bFifo"} /\ (Over("chat") \/ exists = {})
  /\ EchoInit /\ (Over("echo") \/ echoprog = "udp")
  /\ BroadcastInit /\ (Over("broadcast") \/ (castprog = "broadcast" /\ len = 0))

PipesStep(A) == Over("pipes") /\ A /\ UNCHANGED <<medium, chatvars, echovars, castvars>>
ChatStep(A) == Over("chat") /\ A /\ UNCHANGED <<medium, pipevars, echovars, castvars>>
EchoStep(A) == Over("echo") /\ A /\ UNCHANGED <<medium, kvars, pipevars, chatvars, castvars>>
CastStep(A) == Over("broadcast") /\ A /\ UNCHANGED <<medium, kvars, pipevars, chatvars, echovars>>

ChannelsNext ==
  \/ PipesStep(PipesNext)
  \/ ChatStep(C!ChatNext)
  \/ EchoStep(EchoNext)
  \/ CastStep(BroadcastNext)

-----------------------------------------------------------------------------
\* Every pipe and FIFO is a channel: nothing is lost, nothing overtakes, and a reader that
\* stops at the end has read everything, and every process that wrote is gone (see Channel).
Ideal == INSTANCE Channel WITH
           Names <- Pipes,
           Values <- 0..(Pieces + Lines),
           gone <- [x \in Pipes |-> CASE x = "pipe" -> Over("pipes") /\ pp["writer"] = "ended"
                                     [] x = "aFifo" -> C!Gone("a")
                                     [] x = "bFifo" -> C!Gone("b")]
PipesAreChannels == Ideal!ChannelSpec

ChannelsTypeOK ==
  /\ Over("pipes") => PipesTypeOK
  /\ Over("chat") => C!ChatTypeOK
  /\ Over("echo") => EchoTypeOK
  /\ Over("broadcast") => BroadcastTypeOK

\* No client takes for a message what is not that message: an echo goes to the client that sent
\* the number, in its round (see Echo), and nothing an earlier broadcast or an uninitialised
\* buffer has left is printed with a broadcast (see Broadcast).
MessagesAreNotMixed ==
  /\ ChannelsTypeOK
  /\ Over("echo") => AnswersAreOwn
  /\ Over("broadcast") => NothingLeftOverShows

\* Nobody is left waiting: no reader for a writer that is gone, and the chat programs not both
\* for the other in open (see Pipes, Chat).
NobodyIsLeftWaiting ==
  /\ Over("pipes") => ReaderIsNotLeftWaiting
  /\ Over("chat") => C!OpensDoNotCross /\ C!ReadersAreNotLeftWaiting

\* Nobody waits in vain: the chat programs meet in open, readers of pipes notice the end,
\* lines arrive, clients get an answer or an end (see Pipes, Chat, Echo).
NobodyWaitsInVain ==
  /\ Over("pipes") => ReaderNoticesEnd
  /\ Over("chat") => C!UsersMeet /\ C!LinesArrive
  /\ Over("echo") => NobodyWaitsForever
=============================================================================
