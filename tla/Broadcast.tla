------------------------------ MODULE Broadcast -----------------------------
(***************************************************************************)
(* broadcast_server.c sends "hello , client ........num" and a newline     *)
(* once a second, and broadcast_client.c receives strlen(recvBuf) bytes    *)
(* into a buffer that it never initialises or clears, and prints it.       *)
(* multicast_sever.c sends likewise, but to 127.0.0.1, and                 *)
(* multicast_client.c never binds its socket.  Of a message only the       *)
(* number of characters matters: Prefix, the digits of num, the newline.   *)
(***************************************************************************)
EXTENDS Naturals

CONSTANTS
  Prefix,      \* the characters before the number: 23 in the code
  MaxDigits,   \* bound on the digits of num
  BufSize      \* BUFSIZ

ASSUME BroadcastAssumption ==
  /\ Prefix \in Nat /\ MaxDigits \in Nat \ {0}
  /\ BufSize \in Nat /\ Prefix + MaxDigits + 2 <= BufSize

VARIABLES
  castprog,    \* "broadcast" or "multicast"
  digits,      \* the digits of the sender's num
  flying,      \* the digits of the num in the datagram on its way, 0 if there is none
  bytes,       \* the length of that datagram
  len,         \* the client: strlen(recvBuf), which it is about to pass to recvfrom
  own          \* history: of those characters, how many are of the newest datagram

castvars == <<castprog, digits, flying, bytes, len, own>>

\* The characters of a message whose number has d digits.
Text(d) == Prefix + d + 1

\* recvBuf holds anything.  Nothing was printed of it yet, so all of it counts as printable.
BroadcastInit ==
  /\ castprog \in {"broadcast", "multicast"}
  /\ digits = 1 /\ flying = 0 /\ bytes = 0 /\ len \in 0..BufSize - 1 /\ own = len

\* Mutant of SendTo: sendto(cfd, sendBuf, strlen(sendBuf), ...).
SendToUnterminated ==
  /\ \/ flying' = digits /\ bytes' = Text(digits)
     \/ flying' = 0 /\ bytes' = 0
  /\ digits' \in {digits, digits + 1} /\ digits' <= MaxDigits
  /\ UNCHANGED <<castprog, len, own>>

\* sendto(cfd, sendBuf, strlen(sendBuf) + 1, ...), and num++ may give num one digit more.
\* A datagram nobody has taken may be lost.
SendTo ==
  /\ \/ flying' = digits /\ bytes' = Text(digits) + 1
     \/ flying' = 0 /\ bytes' = 0
  /\ digits' \in {digits, digits + 1} /\ digits' <= MaxDigits
  /\ UNCHANGED <<castprog, len, own>>

\* recvfrom(cfd, recvBuf, strlen(recvBuf), ...) cuts the datagram off at the length of the
\* text in the buffer.  If the zero that ends the datagram is not among what is received,
\* the text ends where it did before, at the zero that recvfrom cannot reach.
RecvFrom ==
  LET received == IF bytes < len THEN bytes ELSE len
      size == Text(flying)
  IN  /\ castprog = "broadcast" /\ flying # 0
      /\ len' = IF received > size THEN size ELSE len
      /\ own' = IF received > size THEN size ELSE received
      /\ flying' = 0 /\ bytes' = 0
      /\ UNCHANGED <<castprog, digits>>

BroadcastNext == SendTo \/ RecvFrom

BroadcastTypeOK ==
  /\ digits \in 1..MaxDigits /\ flying \in 0..MaxDigits /\ bytes \in Nat
  /\ len \in 0..BufSize - 1 /\ own \in 0..BufSize - 1

\* What the client prints after recvfrom is of the datagram it has just received, from the first
\* character to the last: neither what the uninitialised buffer held nor the rest of an
\* earlier message shows behind it.
NothingLeftOverShows == own = len
=============================================================================
