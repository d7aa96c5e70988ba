------------------------ MODULE MCAdaptiveThreadPool ------------------------
(***************************************************************************)
(* The configurations with which the thread pool is model-checked.         *)
(***************************************************************************)
EXTENDS AdaptiveThreadPool

Default == [workersPerCore |-> 2, queueType |-> "EXCLUSIVE", queueShareFactor |-> 1,
            root |-> FALSE, threadPriority |-> 0, schedulePolicy |-> "DEFAULT"]

(* Three pools that can be built, two of them asking for a priority that   *)
(* is out of range, and two that cannot: too many workers, and a realtime  *)
(* policy without the right to it.                                         *)
JobsConfigs ==
    { Default,
      [Default EXCEPT !.workersPerCore = 1, !.queueType = "SHARED", !.queueShareFactor = 2,
                      !.root = TRUE, !.threadPriority = 20, !.schedulePolicy = "NO_SLICE"],
      [Default EXCEPT !.workersPerCore = 1, !.root = TRUE, !.threadPriority = 3,
                      !.schedulePolicy = "NO_SLICE"],
      [Default EXCEPT !.workersPerCore = 3],
      [Default EXCEPT !.schedulePolicy = "WITH_SLICE"] }

(* The constructor of ThreadPoolConfig leaves mQueueShareFactor unset: any *)
(* value, unless setQueueShareFactor is called.                            *)
AnyShareFactor ==
    { [Default EXCEPT !.workersPerCore = n, !.queueType = t, !.queueShareFactor = f] :
          n \in 1 .. 3, t \in {"EXCLUSIVE", "SHARED"}, f \in 1 .. 3 }
=============================================================================
