------------------------------ MODULE JobLease ------------------------------
(***************************************************************************)
(* What execution_queue.py promises of a job, without its table: at any    *)
(* time at most one worker holds it, it is held at most Limit times, it    *)
(* yields at most one result, and once it has yielded one it is never held *)
(* again.  Giving a lease up is always allowed (success, failure, cancel   *)
(* or the death of the worker).                                            *)
(***************************************************************************)
EXTENDS Naturals

CONSTANTS Jobs, Workers, NoWorker, Limit

VARIABLES holder, runs, produced

leases == <<holder, runs, produced>>

Init ==
    /\ holder = [j \in Jobs |-> NoWorker]
    /\ runs = [j \in Jobs |-> 0]
    /\ produced = [j \in Jobs |-> 0]

Acquire(w, j) ==
    /\ holder[j] = NoWorker
    /\ \A i \in Jobs : holder[i] # w
    /\ runs[j] < Limit
    /\ produced[j] = 0
    /\ holder' = [holder EXCEPT ![j] = w]
    /\ runs' = [runs EXCEPT ![j] = @ + 1]
    /\ UNCHANGED produced

Yield(w, j) ==
    /\ holder[j] = w
    /\ produced[j] = 0
    /\ produced' = [produced EXCEPT ![j] = 1]
    /\ UNCHANGED <<holder, runs>>

GiveUp(w, j) ==
    /\ holder[j] = w
    /\ holder' = [holder EXCEPT ![j] = NoWorker]
    /\ UNCHANGED <<runs, produced>>

Next == \E w \in Workers, j \in Jobs : Acquire(w, j) \/ Yield(w, j) \/ GiveUp(w, j)

Spec == Init /\ [][Next]_leases
=============================================================================
