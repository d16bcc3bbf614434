-------------------------- MODULE MCExecutionQueue --------------------------
(* Instances of ExecutionQueue for TLC. *)
EXTENDS ExecutionQueue, TLC

(* settings.queue_concurrency_*: no class bounded, or the artifact class at one *)
MCUnbounded == [c \in Classes |-> 0]
MCOneEach == [interactive |-> 0, artifact |-> 1, validation |-> 1, maintenance |-> 1]

MCArtifact == {"artifact"}
MCTwoKinds == {"artifact", "runtime_validation"}

MCNoCancel == {"submit", "retry", "replay"}
MCCancel == {"submit", "cancel"}
MCNoReplay == {"submit", "cancel", "retry"}

Symmetric == Permutations(Workers) \cup Permutations(Clients)
SymmetricWorkers == Permutations(Workers)
=============================================================================
