------------------------------ MODULE Channel -------------------------------
(***************************************************************************)
(* What a pipe or a FIFO promises: pieces come out complete and in the     *)
(* order they went in, several at once or one by one, and the reader is    *)
(* told of the end only when all is read and the senders are gone.         *)
(***************************************************************************)
EXTENDS Naturals, Sequences

CONSTANTS Names, Values   \* the channels, and what can be sent

VARIABLES
  sent, got,   \* per channel: what went in, what came out
  gone,        \* per channel: its senders are gone, for good
  over         \* per channel: the end was seen

ChannelInit ==
  /\ sent = [c \in Names |-> <<>>] /\ got = [c \in Names |-> <<>>]
  /\ gone = [c \in Names |-> FALSE] /\ over = [c \in Names |-> FALSE]

SendPiece(c) ==
  /\ ~gone[c]
  /\ \E m \in Values : sent' = [sent EXCEPT ![c] = Append(@, m)]
  /\ UNCHANGED <<got, over>>

ReceivePieces(c) ==
  /\ \E n \in Len(got[c]) + 1 .. Len(sent[c]) : got' = [got EXCEPT ![c] = SubSeq(sent[c], 1, n)]
  /\ UNCHANGED <<sent, over>>

SeeEnd(c) ==
  /\ gone[c] /\ got[c] = sent[c]
  /\ over' = [over EXCEPT ![c] = TRUE]
  /\ UNCHANGED <<sent, got>>

\* Senders may go at any step.
SendersGo == \A c \in Names : gone[c] => gone'[c]

ChannelNext ==
  /\ SendersGo
  /\ UNCHANGED <<sent, got, over>> \/ \E c \in Names : SendPiece(c) \/ ReceivePieces(c) \/ SeeEnd(c)
ChannelSpec == ChannelInit /\ [][ChannelNext]_<<sent, got, gone, over>>
=============================================================================
