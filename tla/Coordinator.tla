---------------------------- MODULE Coordinator ----------------------------
(***************************************************************************)
(* How main of Sim/ProducerConsumerSim.cpp starts and awaits its           *)
(* processes, in both variants of Chapter14.  Run r has the processes      *)
(* <<r, "main">>, <<r, "producer">> and <<r, "consumer">>.  fork, exec and *)
(* waitpid are external, modelled by what the code relies on.              *)
(*                                                                         *)
(* execl returns only when it fails, and the code has no _exit after it:   *)
(* the child then carries on as a second coordinator.  p_clone and c_clone *)
(* are what main's children become that way; p_clone forks a consumer of   *)
(* its own, consumer2, or pc_clone.                                        *)
(***************************************************************************)
EXTENDS Naturals, Sequences, FiniteSets

LOCAL INSTANCE SequencesExt

CONSTANTS
    Id,              \* the id of the simulation, -n
    Failures,        \* what may happen: an "open", "fork" or "exec" fails, a "kill" hits a worker
    MaxFailures      \* bound: how often such a thing happens

ASSUME CoordinatorAssumption ==
    /\ Id \in Nat
    /\ Failures \subseteq {"open", "fork", "exec", "kill"}
    /\ MaxFailures \in Nat

VARIABLE proc        \* where the main of each process is

CoordinatorRoles == {"main", "p_clone", "c_clone", "pc_clone"}

(* A process ends regularly, or because its open or fork failed, or is     *)
(* killed.                                                                 *)
Ended(x) == proc[x] \in {"ended", "failed", "killed"}

(* itoa, with which the id gets on the command line of the workers: the    *)
(* digits from the lowest on, then turned round in place.                  *)
LowestFirst[n \in Nat] == IF n = 0 THEN << >> ELSE <<n % 10>> \o LowestFirst[n \div 10]

(* Mutant of Itoa: the digits are not turned round.                        *)
ItoaBackwards(n) == IF n = 0 THEN <<0>> ELSE LowestFirst[n]

Itoa(n) == IF n = 0 THEN <<0>> ELSE Reverse(LowestFirst[n])

Atoi(digits) == FoldLeft(LAMBDA n, d : 10 * n + d, 0, digits)

(* The id, and with it the name, that a worker knows.                      *)
WorkerId == Atoi(Itoa(Id))

Moves(x, from, to) ==
    /\ proc[x] = from
    /\ proc' = [proc EXCEPT ![x] = to]

(* A further failure of a kind is within the bound: until now opens and    *)
(* forks have failed, workers been killed, and failed execs made clones.   *)
MayFail(kind) ==
    /\ kind \in Failures
    /\ Cardinality({x \in DOMAIN proc :
          \/ proc[x] \in {"failed", "killed"}
          \/ x[2] \in CoordinatorRoles \ {"main"} /\ proc[x] # "none"}) < MaxFailures

(* The child is the worker, or a clone of the coordinator after a failed   *)
(* exec, which goes on where its parent is.                                *)
Fork(x, next, worker, clone) ==
    \/ proc' = [proc EXCEPT ![x] = next, ![worker] = "starting"]
    \/ MayFail("exec") /\ proc' = [proc EXCEPT ![x] = next, ![clone] = next]
    \/ MayFail("fork") /\ proc' = [proc EXCEPT ![x] = "failed"]

ForkProducer(r) ==
    /\ proc[<<r, "main">>] = "fork_producer"
    /\ Fork(<<r, "main">>, "fork_consumer", <<r, "producer">>, <<r, "p_clone">>)

ForkConsumer(r) ==
    \/ /\ proc[<<r, "main">>] = "fork_consumer"
       /\ Fork(<<r, "main">>, "wait_producer", <<r, "consumer">>, <<r, "c_clone">>)
    \/ /\ proc[<<r, "p_clone">>] = "fork_consumer"
       /\ Fork(<<r, "p_clone">>, "wait_producer", <<r, "consumer2">>, <<r, "pc_clone">>)

(* Mutant of WaitConsumer: the child is not waited for.                    *)
WaitConsumerNoWait(r, k) == Moves(<<r, k>>, "wait_consumer", "unlink")

(* waitpid on the producer's pid.  Only main has such a child: p_clone and *)
(* pc_clone have pid 0 and skip the call, c_clone gets ECHILD.             *)
WaitProducer(r, k) ==
    /\ k = "main" => \E c \in {"producer", "p_clone"} : Ended(<<r, c>>)
    /\ Moves(<<r, k>>, "wait_producer", "wait_consumer")

WaitConsumer(r, k) ==
    /\ k = "main" => \E c \in {"consumer", "c_clone"} : Ended(<<r, c>>)
    /\ k = "p_clone" => \E c \in {"consumer2", "pc_clone"} : Ended(<<r, c>>)
    /\ Moves(<<r, k>>, "wait_consumer", "unlink")

(* A worker w is killed; waitpid does not tell how it ended.               *)
Kill(w) ==
    /\ MayFail("kill")
    /\ proc[w] # "none" /\ ~Ended(w)
    /\ proc' = [proc EXCEPT ![w] = "killed"]

ForkAndWait(r) ==
    \/ ForkProducer(r) \/ ForkConsumer(r)
    \/ \E k \in CoordinatorRoles : WaitProducer(r, k) \/ WaitConsumer(r, k)
=============================================================================
