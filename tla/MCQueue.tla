------------------------------ MODULE MCQueue ------------------------------
(***************************************************************************)
(* Queue with its open-ended stream of pushes cut off at MaxPush, so that  *)
(* the counters and the histories stay finite.  The bound is on the calls: *)
(* a push once called always runs to its end.                              *)
(***************************************************************************)
EXTENDS Queue

CONSTANT MaxPush

ASSUME MaxPushAssumption == MaxPush \in Nat

PushesWithinBound ==
    m_pushed_count + Cardinality(Among(ppc, {"timedwait", "lock", "crit"})) <= MaxPush

MCNext == Next /\ PushesWithinBound'

MCSpec == Init /\ [][MCNext]_vars

MCFairSpec == MCSpec /\ Fairness

(* Every item a push has stored is eventually handed out by a pop, while   *)
(* the consumer threads keep looping on pop.                               *)
EveryItemDelivered ==
    \A n \in 1 .. MaxPush : (Len(sent) >= n) ~> (Len(received) >= n)
=============================================================================
