----------------------------- MODULE SharedStack ----------------------------
(***************************************************************************)
(* What the producer/consumer programs promise: a stack of nodes that many *)
(* threads push on and pop from, each in one step, with at most capacity   *)
(* nodes on it.                                                            *)
(***************************************************************************)
EXTENDS Naturals, Sequences

CONSTANT Nodes
VARIABLES stack,
          capacity   \* fixed in a behaviour, but not the same in all

OnStack(n) == \E i \in 1..Len(stack) : stack[i] = n

Push(n) ==
  /\ Len(stack) < capacity /\ ~OnStack(n)
  /\ stack' = <<n>> \o stack

Pop == stack # <<>> /\ stack' = Tail(stack)

StackSpec == stack = <<>> /\ [][Pop \/ \E n \in Nodes : Push(n)]_stack
=============================================================================
