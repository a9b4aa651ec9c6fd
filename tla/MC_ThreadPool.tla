--------------------------- MODULE MC_ThreadPool ---------------------------
(***************************************************************************)
(* Two clients and two workers share a pool with m_max_requests = 2, so    *)
(* that the queue fills, empties and overflows within four appends.        *)
(***************************************************************************)
EXTENDS ThreadPool, TLC

CONSTANTS p1, p2, w1, w2, r1

MCProducers == {p1, p2}
MCWorkers == {w1, w2}
MCRequests == {r1, Null}
=============================================================================
