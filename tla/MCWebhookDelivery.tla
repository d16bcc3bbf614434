-------------------------- MODULE MCWebhookDelivery --------------------------
(***************************************************************************)
(* Instances of WebhookDelivery for TLC: destinations of one policy each,  *)
(* of which a configuration uses one.                                      *)
(***************************************************************************)
EXTENDS WebhookDelivery, TLC

CONSTANTS d1, d2, s1, s2

(* d1 takes alerts and events, has its own budget of two tries and a       *)
(* suppression window; d2 is a slack hook that takes critical alerts only  *)
(* and allows one try, which is two, the global budget, once it is gone.   *)
KindOf == [d \in Dests |-> IF d = d1 THEN "webhook" ELSE "slack"]
SubscriptionOf == [d \in Dests |-> IF d = d1 THEN {"alerts", "events"} ELSE {"alerts"}]
MaxAttemptsOf == [d \in Dests |-> IF d = d1 THEN 2 ELSE 1]
MinSeverityOf == [d \in Dests |-> IF d = d1 THEN "warning" ELSE "critical"]
AlertFilterOf == [d \in Dests |-> Signals]
WindowOf == [d \in Dests |-> d = d1]

EscalateNever == [d \in Dests |-> 0]
EscalateAfterTwo == [d \in Dests |-> 2]

Threads == Permutations(Flushers) \cup Permutations(Routers) \cup Permutations(Operators)
=============================================================================
