-------------------------- MODULE GuidedFlowProofs --------------------------
(***************************************************************************)
(* Proofs about GuidedFlow for any number of turns and any bounds.  FInv   *)
(* says why a claim by an UPDATE that is guarded by the status is enough:  *)
(* a granted row is consumed, and no turn can be granted it again.  CInv   *)
(* adds the counts: how many grants, how much recorded work and how much   *)
(* of an overshoot the turns on their way carry.  From FInv every plan row *)
(* is shown to be a OneShot offer.                                         *)
(***************************************************************************)
EXTENDS GuidedFlow, FiniteSetTheorems, TLAPS

USE DEF Ids, At

Rows == [kind : Kinds, key : Keys, status : {"none", "pending", "stale", "consumed", "replaced"},
         guided : BOOLEAN]
TurnStates == [pc : {"idle", "peek", "check", "select", "claim", "record", "execute",
                     "offer", "resume", "permit", "present"},
               reply : Replies, kind : Kinds, seen : Ids \cup {0}, held : Ids \cup {0}]

FInv == TypeOK /\ PlanRunsOnce /\ OnePendingRow /\ TurnsBacked

LEMMA BudgetsTyped == Budgets \subseteq [Requests -> Nat]
BY FlowAssumption, Zenon

LEMMA Typed ==
  ASSUME FInv
  PROVE  /\ flows \in [Ids -> Rows] /\ turn \in [Turns -> TurnStates] /\ runs \in [Ids -> Nat]
         /\ used \in [Gated -> Nat] /\ asks \in [Requests -> Nat] /\ made \in BOOLEAN
         /\ granted \subseteq Ids /\ lost \subseteq Ids
BY DEF FInv, TypeOK, Rows, TurnStates

LEMMA IdleTyped == Idle \in TurnStates /\ Idle.pc = "idle"
BY DEF Idle, TurnStates, Replies, Kinds, Gated

(* The variables no named part but the types speaks of. *)
OthersTyped ==
    /\ used \in [Gated -> Nat] /\ asks \in [Requests -> Nat] /\ made \in BOOLEAN
    /\ scoped \in BOOLEAN /\ lost \subseteq Ids

-----------------------------------------------------------------------------
(* The invariant *)

(* A turn that goes on as it was stays backed when rows keep their kind,   *)
(* grants are kept and no plan that it holds is run.                       *)
LEMMA StaysBacked ==
  ASSUME NEW u \in TurnStates, Backed(u), granted \subseteq granted',
         \A j \in Ids, k \in Kinds : j \in OfKind(k) => j \in OfKind(k)',
         u.pc \in Holding /\ u.kind = "plan" => runs'[u.held] = runs[u.held]
  PROVE  Backed(u)'
<1>1. u.kind \in Kinds
  BY DEF TurnStates
<1>2. \A k \in Kinds : OfKind(k) \subseteq Ids
  BY DEF OfKind
<1> QED
  BY <1>1, <1>2 DEF Backed

(* A turn goes on, or ends, without a row in its hands. *)
LEMMA MoveKeeps ==
  ASSUME FInv, NEW t \in Turns, NEW u \in TurnStates, turn' = [turn EXCEPT ![t] = u],
         UNCHANGED <<flows, runs, granted>>, OthersTyped', u.pc \notin Holding,
         u.pc \in Peeked => u.seen \in OfKind(u.kind), u.pc = "claim" => u.held \in OfKind(u.kind),
         u.pc = "peek" => u.kind # "clarification",
         u.pc \in Peeked /\ u.kind = "clarification" => u.reply = "answer"
  PROVE  FInv'
<1>1. TypeOK'
  BY DEF FInv, TypeOK, OthersTyped, TurnStates
<1>2. PlanRunsOnce' /\ OnePendingRow'
  BY DEF FInv, PlanRunsOnce, OnePendingRow, OfKind, Open
<1>3. \A v \in Turns : turn'[v] = IF v = t THEN u ELSE turn[v]
  BY Typed
<1>4. \A v \in Turns : Backed(turn[v])'
  <2>1. Backed(u)'
    BY DEF Backed, OfKind, Holding
  <2>2. ASSUME NEW v \in Turns \ {t} PROVE Backed(turn[v])'
    BY <1>3 DEF Backed, OfKind, FInv, TurnsBacked
  <2> QED
    BY <1>3, <2>1, <2>2 DEF Backed
<1>5. TurnsBacked'
  BY <1>3, <1>4 DEF FInv, TurnsBacked, Holding
<1> QED
  BY <1>1, <1>2, <1>5 DEF FInv

(* A row set replaces the pending one of its key and kind; what is         *)
(* consumed is left alone, and the row set was used by nobody.             *)
LEMMA SetRows ==
  ASSUME FInv, NEW row \in Rows, row.status = "pending", NEW i \in Ids, Unused(i), flows' = Replaced(i, row)
  PROVE  /\ flows' \in [Ids -> Rows] /\ OnePendingRow'
         /\ flows[i].status = "none" /\ flows'[i] = row
         /\ \A j \in Ids \ {i} :
              \/ flows'[j] = flows[j]
              \/ Open(j) /\ flows'[j] = [flows[j] EXCEPT !.status = "replaced"]
<1>1. flows \in [Ids -> Rows]
  BY Typed
<1>2. \A j \in Ids : flows'[j] = IF j = i THEN row
                                 ELSE IF Row(j, row.kind, row.key) THEN [flows[j] EXCEPT !.status = "replaced"]
                                 ELSE flows[j]
  BY DEF Replaced
<1>3. flows' \in [Ids -> Rows]
  BY <1>1 DEF Replaced, Rows
<1>4. \A j \in Ids \ {i} : Open(j)' => /\ flows'[j] = flows[j] /\ Open(j)
                                       /\ ~(flows[j].kind = row.kind /\ flows[j].key = row.key)
  BY <1>1, <1>2 DEF Open, Row, Rows
<1>5. OnePendingRow'
  BY <1>2, <1>4 DEF OnePendingRow, FInv
<1> QED
  BY <1>2, <1>3, <1>5 DEF Unused, Row

LEMMA SetKeeps ==
  ASSUME FInv, NEW t \in Turns, turn' = [turn EXCEPT ![t] = Idle],
         NEW row \in Rows, row.status = "pending", SetRow(row),
         UNCHANGED granted, OthersTyped', runs' \in [Ids -> Nat],
         \A j \in Ids : runs'[j] = runs[j] \/ (flows[j].status # "none" /\ flows[j].kind # "plan")
  PROVE  FInv'
<1>1. PICK i \in Ids : Unused(i) /\ flows' = Replaced(i, row)
  BY DEF SetRow
<1>2. /\ flows' \in [Ids -> Rows] /\ OnePendingRow' /\ flows[i].status = "none" /\ flows'[i] = row
      /\ \A j \in Ids \ {i} : \/ flows'[j] = flows[j]
                              \/ Open(j) /\ flows'[j] = [flows[j] EXCEPT !.status = "replaced"]
  BY <1>1, SetRows
<1>3. flows \in [Ids -> Rows] /\ turn \in [Turns -> TurnStates] /\ runs \in [Ids -> Nat] /\ granted \subseteq Ids
  BY Typed
<1>4. \A j \in Ids \ {i} : /\ flows'[j].kind = flows[j].kind
                           /\ flows'[j].status = "none" <=> flows[j].status = "none"
                           /\ flows[j].status = "consumed" => flows'[j].status = "consumed"
  BY <1>2, <1>3 DEF Open, Rows
<1>5. i \notin granted /\ flows'[i].status = "pending" /\ runs'[i] = 0
  BY <1>2, <1>3 DEF FInv, TurnsBacked
<1>6. TypeOK'
  BY <1>2, <1>3, IdleTyped DEF FInv, TypeOK, OthersTyped, TurnStates, Rows
<1>7. PlanRunsOnce'
  BY <1>2, <1>3, <1>4, <1>5 DEF FInv, PlanRunsOnce, OfKind
<1>8. \A v \in Turns : turn'[v] = IF v = t THEN Idle ELSE turn[v]
  BY <1>3
<1>9. \A j \in Ids, k \in Kinds : j \in OfKind(k) => j \in OfKind(k)' /\ j # i
  BY <1>2, <1>4 DEF OfKind
<1>10. TurnsBacked'
  <2>1. /\ \A j \in granted' : flows'[j].status = "consumed"
        /\ \A j \in Ids : flows'[j].status = "none" => runs'[j] = 0
    BY <1>3, <1>4, <1>5 DEF FInv, TurnsBacked
  <2>2. ASSUME NEW v \in Turns \ {t} PROVE Backed(turn[v])'
    <3>1. turn[v] \in TurnStates /\ Backed(turn[v])
      BY <1>3 DEF FInv, TurnsBacked
    <3>2. turn[v].pc \in Holding /\ turn[v].kind = "plan" => runs'[turn[v].held] = runs[turn[v].held]
      BY <3>1 DEF Backed, OfKind, Holding
    <3>3. turn'[v] = turn[v]
      BY <1>8
    <3> QED
      BY <1>9, <3>1, <3>2, <3>3, StaysBacked DEF Backed
  <2>3. Backed(turn[t])'
    BY <1>8, IdleTyped DEF Backed, Holding, Peeked
  <2>4. \A v \in Turns : turn'[v].pc \in Holding => turn'[v] = turn[v]
    BY <1>8, IdleTyped DEF Holding
  <2> QED
    BY <2>1, <2>2, <2>3, <2>4 DEF FInv, TurnsBacked
<1> QED
  BY <1>2, <1>6, <1>7, <1>10 DEF FInv

LEMMA ClaimKeeps ==
  ASSUME FInv, NEW t \in Turns, Claim(t)
  PROVE  FInv'
<1>1. /\ flows \in [Ids -> Rows] /\ turn \in [Turns -> TurnStates] /\ runs \in [Ids -> Nat]
      /\ granted \subseteq Ids
  BY Typed
<1>u. PICK u \in TurnStates : u = turn[t]
  BY <1>1
<1> DEFINE i == u.held
<1>2. u.pc = "claim" /\ i \in OfKind(u.kind) /\ u.seen \in OfKind(u.kind) /\ u \in TurnStates /\ Backed(u)
  BY <1>1, <1>u DEF Claim, FInv, TurnsBacked, Backed, Peeked
<1>3. CASE ~Claimable(i)
  <2>1. turn' = [turn EXCEPT ![t] = Idle] /\ UNCHANGED <<flows, runs, granted>>
    BY <1>3, <1>u DEF Claim, GoTo
  <2>2. OthersTyped'
    BY DEF Claim, FInv, TypeOK, OthersTyped
  <2> QED
    BY <2>1, <2>2, IdleTyped, MoveKeeps DEF Holding, Peeked
<1>4. CASE Claimable(i)
  <2>1. /\ flows' = [flows EXCEPT ![i].status = "consumed"]
        /\ granted' = IF u.reply # "reject" THEN granted \cup {i} ELSE granted
        /\ UNCHANGED <<used, asks, made, scoped, runs, lost>>
    BY <1>4, <1>u DEF Claim
  <2>2. i \in Ids /\ i \notin granted /\ Open(i) /\ flows[i].kind = u.kind
    BY <1>2, <1>4 DEF Claimable, Open, OfKind, FInv, TurnsBacked
  <2>3. \A j \in Ids : /\ flows'[j].kind = flows[j].kind /\ flows'[j].key = flows[j].key
                       /\ flows'[j].status = IF j = i THEN "consumed" ELSE flows[j].status
                       /\ flows'[j].guided = flows[j].guided
    BY <1>1, <2>1, <2>2 DEF Rows
  <2>4. flows' \in [Ids -> Rows]
    BY <1>1, <2>1, <2>2 DEF Rows
  <2>5. PICK w \in TurnStates : /\ turn' = [turn EXCEPT ![t] = w]
                                /\ w.pc \in {"resume", "record", "idle"}
                                /\ w.pc \in Holding => /\ w.held = i /\ w.seen = u.seen /\ w.kind = u.kind
                                                       /\ w.reply = u.reply
                                /\ (w.pc = "resume" <=> u.kind = "clarification")
                                /\ w.pc = "record" => u.kind # "clarification" /\ u.reply = "approve"
    <3>1. turn' = [turn EXCEPT ![t] = IF ClaimedNext(u) = "idle" THEN Idle ELSE [u EXCEPT !.pc = ClaimedNext(u)]]
      BY <1>1, <1>4, <1>u DEF Claim, GoTo
    <3>2. CASE u.kind = "clarification"
      <4>1. ClaimedNext(u) = "resume"
        BY <3>2 DEF ClaimedNext
      <4>2. turn' = [turn EXCEPT ![t] = [u EXCEPT !.pc = "resume"]] /\ [u EXCEPT !.pc = "resume"] \in TurnStates
        BY <3>1, <4>1 DEF TurnStates
      <4> QED
        BY <3>2, <4>2 DEF TurnStates, Holding
    <3>3. CASE u.kind # "clarification" /\ u.reply = "approve"
      <4>1. ClaimedNext(u) = "record"
        BY <3>3 DEF ClaimedNext
      <4>2. turn' = [turn EXCEPT ![t] = [u EXCEPT !.pc = "record"]] /\ [u EXCEPT !.pc = "record"] \in TurnStates
        BY <3>1, <4>1 DEF TurnStates
      <4> QED
        BY <3>3, <4>2 DEF TurnStates, Holding
    <3>4. CASE u.kind # "clarification" /\ u.reply # "approve"
      <4>1. ClaimedNext(u) = "idle"
        BY <3>4 DEF ClaimedNext
      <4> QED
        BY <3>1, <3>4, <4>1, IdleTyped DEF Holding
    <3> QED
      BY <3>2, <3>3, <3>4
  <2>6. u.kind = "clarification" => u.reply = "answer"
    BY <1>2 DEF Backed, Peeked
  <2>7. w.pc \in Holding => i \in granted'
    BY <2>1, <2>5, <2>6 DEF Holding
  <2>8. runs[i] = 0 \/ u.kind # "plan"
    BY <1>1, <2>2 DEF FInv, PlanRunsOnce, OfKind, Open
  <2>9. TypeOK'
    BY <1>1, <2>1, <2>2, <2>4, <2>5 DEF FInv, TypeOK, Rows, TurnStates
  <2>10. OnePendingRow'
    BY <2>3 DEF FInv, OnePendingRow, Open
  <2>11. PlanRunsOnce'
    BY <1>1, <2>1, <2>2, <2>3 DEF FInv, PlanRunsOnce, OfKind, Open
  <2>12. \A v \in Turns : turn'[v] = IF v = t THEN w ELSE turn[v]
    BY <1>1, <2>5
  <2>13. \A j \in Ids, k \in Kinds : j \in OfKind(k) => j \in OfKind(k)'
    BY <2>3 DEF OfKind
  <2>14. TurnsBacked'
    <3>1. /\ \A j \in granted' : flows'[j].status = "consumed"
          /\ \A j \in Ids : flows'[j].status = "none" => runs'[j] = 0
      BY <1>1, <2>1, <2>2, <2>3 DEF FInv, TurnsBacked
    <3>2. ASSUME NEW v \in Turns \ {t} PROVE Backed(turn[v])'
      <4>1. turn[v] \in TurnStates /\ Backed(turn[v])
        BY <1>1 DEF FInv, TurnsBacked
      <4>2. turn'[v] = turn[v] /\ granted \subseteq granted' /\ runs' = runs
        BY <2>1, <2>12
      <4> QED
        BY <2>13, <4>1, <4>2, StaysBacked DEF Backed
    <3>3. i \in OfKind(u.kind)' /\ u.seen \in OfKind(u.kind)'
      BY <1>2, <2>13 DEF TurnStates, OfKind
    <3>4. Backed(w)'
      BY <2>1, <2>5, <2>6, <2>7, <2>8, <3>3 DEF Backed, Holding, Peeked
    <3>5. \A v \in Turns : Backed(turn[v])'
      BY <2>12, <3>2, <3>4 DEF Backed
    <3>6. \A v \in Turns \ {t} : turn[v].pc \in Holding => turn[v].held # i
      BY <2>2 DEF FInv, TurnsBacked, Backed
    <3>7. \A v \in Turns : turn'[v].pc \in Holding => turn'[v].held = IF v = t THEN i ELSE turn[v].held
      BY <2>5, <2>12
    <3>8. \A v \in Turns \ {t} : turn'[v] = turn[v]
      BY <2>12
    <3> HIDE DEF i
    <3> QED
      BY <3>1, <3>5, <3>6, <3>7, <3>8 DEF FInv, TurnsBacked
  <2> QED
    BY <2>9, <2>10, <2>11, <2>14 DEF FInv
<1> QED
  BY <1>3, <1>4

LEMMA RecordKeeps ==
  ASSUME FInv, NEW t \in Turns, Record(t)
  PROVE  FInv'
<1>1. flows \in [Ids -> Rows] /\ turn \in [Turns -> TurnStates] /\ used \in [Gated -> Nat]
  BY Typed
<1>u. PICK u \in TurnStates : u = turn[t]
  BY <1>1
<1>w. PICK w \in TurnStates : w = [u EXCEPT !.pc = "execute"]
  BY DEF TurnStates
<1>2. u.pc = "record" /\ u.kind \in Gated /\ Backed(u)
  BY <1>u DEF Record, FInv, TurnsBacked, Backed, TurnStates, Kinds
<1>3. turn' = [turn EXCEPT ![t] = w] /\ UNCHANGED <<flows, asks, made, scoped, runs, granted, lost>>
  BY <1>u, <1>w DEF Record, GoTo
<1>4. used' \in [Gated -> Nat]
  <2>1. used' = [used EXCEPT ![u.kind] = @ + 1]
    BY <1>u DEF Record, Recorded
  <2> QED
    BY <1>1, <1>2, <2>1
<1>5. TypeOK'
  BY <1>3, <1>4 DEF FInv, TypeOK, TurnStates
<1>6. PlanRunsOnce' /\ OnePendingRow'
  BY <1>3 DEF FInv, PlanRunsOnce, OnePendingRow, OfKind, Open
<1>7. \A v \in Turns : turn'[v] = IF v = t THEN w ELSE turn[v]
  BY <1>1, <1>3
<1>8. w.pc = "execute" /\ w.seen = u.seen /\ w.held = u.held /\ w.kind = u.kind /\ w.reply = u.reply
  BY <1>w DEF TurnStates
<1>9. Backed(w)'
  BY <1>2, <1>3, <1>8 DEF Backed, OfKind, Holding, Peeked
<1>10. \A v \in Turns : Backed(turn[v])'
  <2>1. ASSUME NEW v \in Turns \ {t} PROVE Backed(turn[v])'
    BY <1>3, <1>7, <2>1 DEF Backed, OfKind, FInv, TurnsBacked
  <2> QED
    BY <1>7, <1>9, <2>1 DEF Backed
<1>11. \A v \in Turns : /\ turn'[v].held = turn[v].held
                        /\ turn'[v].pc \in Holding => turn[v].pc \in Holding
  BY <1>2, <1>7, <1>8, <1>u DEF Holding
<1>12. TurnsBacked'
  BY <1>3, <1>10, <1>11 DEF FInv, TurnsBacked
<1> QED
  BY <1>5, <1>6, <1>12 DEF FInv

(* The payload that is acted on: a plan is the row that was claimed, which *)
(* has not run, and which no other turn holds.                             *)
LEMMA ActKeeps ==
  ASSUME FInv, NEW t \in Turns, Act(t), made' \in BOOLEAN,
         NEW w \in TurnStates, w.pc \in {"idle", "offer"}, turn' = [turn EXCEPT ![t] = w]
  PROVE  FInv'
<1>1. /\ flows \in [Ids -> Rows] /\ turn \in [Turns -> TurnStates] /\ runs \in [Ids -> Nat]
      /\ granted \subseteq Ids
  BY Typed
<1>u. PICK u \in TurnStates : u = turn[t]
  BY <1>1
<1>2. u.pc = "execute" /\ u.kind \in Kinds /\ u.kind # "clarification" /\ Backed(u)
  BY <1>u DEF Act, FInv, TurnsBacked, Backed, TurnStates
<1>3. PICK a \in Ids : /\ a \in OfKind(u.kind) /\ runs' = [runs EXCEPT ![a] = @ + 1]
                       /\ u.kind = "plan" => a = u.held /\ a \in granted /\ runs[a] = 0
  BY <1>2, <1>u DEF Act, ActedOn, Backed, Peeked, Holding, OfKind
<1>4. UNCHANGED <<flows, used, asks, scoped, granted, lost>>
  BY DEF Act
<1>5. \A j \in Ids : runs'[j] = IF j = a THEN runs[a] + 1 ELSE runs[j]
  BY <1>1, <1>3
<1>6. TypeOK'
  BY <1>1, <1>3, <1>4 DEF FInv, TypeOK, TurnStates
<1>7. PlanRunsOnce' /\ OnePendingRow'
  <2>1. \A j \in OfKind("plan") : j = a => u.kind = "plan"
    BY <1>3 DEF OfKind
  <2> QED
    BY <1>3, <1>4, <1>5, <2>1 DEF FInv, PlanRunsOnce, OnePendingRow, OfKind, Open
<1>8. \A v \in Turns : turn'[v] = IF v = t THEN w ELSE turn[v]
  BY <1>1
<1>9. \A j \in Ids : flows'[j].status = "none" => runs'[j] = 0
  BY <1>3, <1>4, <1>5 DEF FInv, TurnsBacked, OfKind
<1>10. ASSUME NEW v \in Turns \ {t} PROVE Backed(turn[v])'
  <2>v. PICK x \in TurnStates : x = turn[v]
    BY <1>1
  <2>1. Backed(x)
    BY <2>v DEF FInv, TurnsBacked
  <2>2. ASSUME x.pc \in Holding, x.kind = "plan" PROVE runs'[x.held] = runs[x.held]
    <3>1. x.held \in OfKind("plan") /\ x.held \in Ids
      BY <2>1, <2>2 DEF Backed, Holding, OfKind
    <3>2. x.held # u.held
      BY <1>2, <1>u, <2>v, <2>2 DEF FInv, TurnsBacked, Holding
    <3>3. x.held # a
      BY <1>3, <3>1, <3>2 DEF OfKind
    <3> QED
      BY <1>5, <3>1, <3>3
  <2>3. \A j \in Ids, k \in Kinds : j \in OfKind(k) => j \in OfKind(k)'
    BY <1>4 DEF OfKind
  <2>4. Backed(x)'
    BY <1>4, <2>1, <2>2, <2>3, StaysBacked
  <2>5. turn'[v] = x
    BY <1>8, <2>v
  <2> QED
    BY <2>4, <2>5 DEF Backed
<1>11. Backed(turn[t])'
  BY <1>8 DEF Backed, Holding, Peeked
<1>12. \A v \in Turns : turn'[v].pc \in Holding => turn'[v] = turn[v]
  BY <1>8 DEF Holding
<1>13. TurnsBacked'
  BY <1>4, <1>9, <1>10, <1>11, <1>12 DEF FInv, TurnsBacked
<1> QED
  BY <1>6, <1>7, <1>13 DEF FInv

LEMMA ExpireKeeps ==
  ASSUME FInv, NEW i \in Ids, Expire(i)
  PROVE  FInv'
<1>1. flows \in [Ids -> Rows] /\ turn \in [Turns -> TurnStates] /\ granted \subseteq Ids
  BY Typed
<1>2. /\ flows' = [flows EXCEPT ![i].status = "stale"] /\ flows[i].status = "pending"
      /\ UNCHANGED <<used, turn, asks, made, scoped, runs, granted, lost>>
  BY DEF Expire
<1>3. \A j \in Ids : /\ flows'[j].kind = flows[j].kind /\ flows'[j].key = flows[j].key
                     /\ flows'[j].guided = flows[j].guided
                     /\ flows'[j].status = IF j = i THEN "stale" ELSE flows[j].status
  BY <1>1, <1>2 DEF Rows
<1>4. flows' \in [Ids -> Rows]
  BY <1>1, <1>2 DEF Rows
<1>5. TypeOK'
  BY <1>2, <1>4 DEF FInv, TypeOK, Rows
<1>6. OfKind("plan")' = OfKind("plan") /\ \A k \in Kinds : OfKind(k)' = OfKind(k)
  BY <1>2, <1>3 DEF OfKind
<1>7. PlanRunsOnce' /\ OnePendingRow'
  BY <1>2, <1>3, <1>6 DEF FInv, PlanRunsOnce, OnePendingRow, Open
<1>8. ASSUME NEW v \in Turns PROVE Backed(turn[v])'
  <2>1. turn[v] \in TurnStates /\ Backed(turn[v]) /\ turn'[v] = turn[v]
    BY <1>1, <1>2 DEF FInv, TurnsBacked
  <2> QED
    BY <1>2, <1>6, <2>1, StaysBacked DEF Backed
<1>9. TurnsBacked'
  BY <1>2, <1>3, <1>8 DEF FInv, TurnsBacked
<1> QED
  BY <1>5, <1>7, <1>9 DEF FInv

LEMMA InitHolds == Init => FInv
<1> SUFFICES ASSUME Init PROVE FInv
  OBVIOUS
<1>1. \A i \in Ids : flows[i] = NoRow /\ runs[i] = 0
  BY DEF Init
<1>2. \A t \in Turns : turn[t] = Idle
  BY DEF Init
<1>3. TypeOK
  <2>1. NoRow \in Rows
    BY DEF NoRow, Rows, Kinds, Keys, Gated
  <2> QED
    BY <2>1, IdleTyped, BudgetsTyped DEF Init, TypeOK, Rows, TurnStates
<1>4. PlanRunsOnce /\ OnePendingRow
  BY <1>1 DEF PlanRunsOnce, OnePendingRow, OfKind, Open, NoRow
<1>5. TurnsBacked
  BY <1>1, <1>2, IdleTyped DEF Init, TurnsBacked, Backed, Peeked, Holding
<1> QED
  BY <1>3, <1>4, <1>5 DEF FInv

(* The steps that only move a turn on: what they read is a row of its kind. *)
ReadsOf(t) == Start(t) \/ Peek(t) \/ Check(t) \/ Select(t) \/ Cap(t) \/ Die(t)

(* Only a turn that passed the check goes on to take a grant. *)
Passes(t, w) ==
    \/ turn[t].pc = "select" /\ turn[t].reply = "approve" /\ turn[t].kind = w.kind
    \/ used[w.kind] < QuotaLimit

LEMMA ReadsTurn ==
  ASSUME FInv, NEW t \in Turns, ReadsOf(t)
  PROVE  \E w \in TurnStates :
           /\ turn' = [turn EXCEPT ![t] = w] /\ w.pc \notin Holding
           /\ w.pc \in Peeked => w.seen \in OfKind(w.kind)
           /\ w.pc = "claim" => w.held \in OfKind(w.kind)
           /\ w.pc = "peek" => w.kind # "clarification"
           /\ w.pc \in Peeked /\ w.kind = "clarification" => w.reply = "answer"
           /\ w.pc \in {"select", "claim"} /\ w.reply = "approve" => Passes(t, w)
<1>t. turn \in [Turns -> TurnStates]
  BY Typed
<1>u. PICK u \in TurnStates : u = turn[t] /\ Backed(u)
  BY <1>t DEF FInv, TurnsBacked
<1>1. CASE turn' = [turn EXCEPT ![t] = Idle]
  BY <1>1, IdleTyped DEF Holding, Peeked
<1>2. CASE Start(t)
  <2>1. PICK w : /\ turn' = [turn EXCEPT ![t] = w]
                 /\ \/ w \in {[Idle EXCEPT !.pc = "peek", !.reply = d] : d \in {"approve", "reject"}}
                    \/ w \in {[Idle EXCEPT !.pc = "select", !.kind = "clarification", !.seen = i] :
                                 i \in Pending("clarification")}
                    \/ w \in {[Idle EXCEPT !.pc = "permit", !.reply = r] : r \in Requests}
    <3>1. \A says \in Messages : parse_plan_decision(says) \in {"approve", "reject", "none"}
      BY DEF parse_plan_decision
    <3>2. \/ \E d \in {"approve", "reject"} :
                turn' = [turn EXCEPT ![t] = [Idle EXCEPT !.pc = "peek", !.reply = d]]
          \/ \E i \in Pending("clarification") :
                turn' = [turn EXCEPT ![t] = [Idle EXCEPT !.pc = "select", !.kind = "clarification",
                                                         !.seen = i]]
          \/ \E r \in Requests :
                turn' = [turn EXCEPT ![t] = [Idle EXCEPT !.pc = "permit", !.reply = r]]
      BY <1>2, <3>1 DEF Start, Answered
    <3> QED
      BY <3>2, ZenonT(30)
  <2>2. w \in TurnStates /\ w.pc \in {"peek", "select", "permit"}
    BY <2>1, ZenonT(30) DEF TurnStates, Idle, Replies, Kinds, Gated, Pending
  <2> QED
    BY <2>1, <2>2 DEF Idle, Pending, Row, Open, OfKind, Holding, Peeked
<1>3. CASE Peek(t)
  <2>1. CASE \E i \in Pending(u.kind) :
               turn' = [turn EXCEPT ![t] = [u EXCEPT !.seen = i,
                                            !.pc = IF u.reply = "approve" THEN "check" ELSE "select"]]
    <3>1. PICK i \in Pending(u.kind) :
               turn' = [turn EXCEPT ![t] = [u EXCEPT !.seen = i,
                                            !.pc = IF u.reply = "approve" THEN "check" ELSE "select"]]
      BY <2>1
    <3>2. i \in OfKind(u.kind) /\ i \in Ids
      BY DEF Pending, Row, Open, OfKind
    <3>3. PICK w : w = [u EXCEPT !.seen = i, !.pc = IF u.reply = "approve" THEN "check" ELSE "select"]
      OBVIOUS
    <3>4. /\ w \in TurnStates /\ w.pc \in {"check", "select"} /\ w.seen = i /\ w.kind = u.kind
          /\ u.kind # "clarification" /\ (w.pc = "select" => w.reply # "approve")
      BY <1>3, <3>2, <3>3, <1>u DEF TurnStates, Peek, Backed
    <3> QED
      BY <3>1, <3>2, <3>3, <3>4 DEF Holding
  <2>2. CASE /\ u.kind \in {"artifact", "action"}
             /\ turn' = [turn EXCEPT ![t] = [u EXCEPT !.kind = After(u.kind)]]
    <3>1. PICK w : w = [u EXCEPT !.kind = After(u.kind)]
      OBVIOUS
    <3>2. w \in TurnStates /\ w.pc = "peek" /\ w.kind # "clarification"
      BY <1>3, <2>2, <3>1, <1>u DEF TurnStates, Peek, After, Kinds, Gated
    <3> QED
      BY <2>2, <3>1, <3>2 DEF Holding, Peeked
  <2> QED
    BY <1>1, <1>3, <2>1, <2>2, <1>t, <1>u, ZenonT(30) DEF Peek, GoTo
<1>4. CASE /\ turn' = [turn EXCEPT ![t] = [u EXCEPT !.pc = "select"]]
           /\ u.pc = "check" /\ used[u.kind] < QuotaLimit
  <2>1. PICK w : w = [u EXCEPT !.pc = "select"]
    OBVIOUS
  <2>2. w \in TurnStates /\ w.pc = "select" /\ w.seen = u.seen /\ w.kind = u.kind /\ w.reply = u.reply
    BY <2>1 DEF TurnStates
  <2> QED
    BY <1>4, <2>1, <2>2, <1>u DEF Backed, Holding, Peeked, Passes
<1>5. CASE \E i \in Pending(u.kind) :
             u.pc = "select" /\ turn' = [turn EXCEPT ![t] = [u EXCEPT !.pc = "claim", !.held = i]]
  <2>1. PICK i \in Pending(u.kind) : turn' = [turn EXCEPT ![t] = [u EXCEPT !.pc = "claim", !.held = i]]
    BY <1>5
  <2>2. PICK w : w = [u EXCEPT !.pc = "claim", !.held = i]
    OBVIOUS
  <2>3. i \in OfKind(u.kind) /\ i \in Ids
    BY DEF Pending, Row, Open, OfKind
  <2>4. /\ w \in TurnStates /\ w.pc = "claim" /\ w.held = i /\ w.seen = u.seen
        /\ w.kind = u.kind /\ w.reply = u.reply
    BY <2>2, <2>3 DEF TurnStates
  <2> QED
    BY <1>5, <2>1, <2>2, <2>3, <2>4, <1>u, ZenonT(30) DEF Backed, Holding, Peeked, Passes
<1>6. CASE turn' = [turn EXCEPT ![t] = [u EXCEPT !.pc = "present"]]
  <2>1. PICK w : w = [u EXCEPT !.pc = "present"]
    OBVIOUS
  <2>2. w \in TurnStates /\ w.pc = "present"
    BY <2>1 DEF TurnStates
  <2> QED
    BY <1>6, <2>1, <2>2 DEF Holding, Peeked
<1>7. CASE Check(t)
  BY <1>1, <1>4, <1>7, <1>t, <1>u DEF Check, Allowed, GoTo
<1>8. CASE Select(t)
  BY <1>1, <1>5, <1>8, <1>t, <1>u DEF Select, GoTo
<1>9. CASE Cap(t)
  BY <1>1, <1>6, <1>9, <1>t, <1>u DEF Cap, GoTo
<1>10. CASE Die(t)
  BY <1>1, <1>10 DEF Die, GoTo
<1> QED
  BY <1>2, <1>3, <1>7, <1>8, <1>9, <1>10 DEF ReadsOf

LEMMA ReadsKeep ==
  ASSUME FInv, NEW t \in Turns, ReadsOf(t)
  PROVE  FInv'
<1>1. /\ flows \in [Ids -> Rows] /\ turn \in [Turns -> TurnStates] /\ asks \in [Requests -> Nat]
      /\ lost \subseteq Ids
  BY Typed
<1>u. PICK u \in TurnStates : u = turn[t] /\ Backed(u)
  BY <1>1 DEF FInv, TurnsBacked
<1>2. UNCHANGED <<flows, runs, granted>>
  BY DEF ReadsOf, Start, Peek, Check, Select, Cap, Die
<1>3. OthersTyped'
  <2>1. asks' \in [Requests -> Nat]
    <3>1. CASE Start(t)
      <4>1. UNCHANGED asks \/ \E r \in Requests : asks[r] > 0 /\ asks' = [asks EXCEPT ![r] = @ - 1]
        BY <3>1 DEF Start, CanAsk
      <4> QED
        BY <1>1, <4>1
    <3> QED
      BY <1>1, <3>1 DEF ReadsOf, Peek, Check, Select, Cap, Die
  <2>2. lost' \subseteq Ids
    BY <1>1, <1>u DEF ReadsOf, Start, Peek, Check, Select, Cap, Die, Backed, Holding, OfKind
  <2> QED
    BY <2>1, <2>2 DEF OthersTyped, FInv, TypeOK, ReadsOf, Start, Peek, Check, Select, Cap, Die
<1>4. PICK w \in TurnStates :
        /\ turn' = [turn EXCEPT ![t] = w] /\ w.pc \notin Holding
        /\ w.pc \in Peeked => w.seen \in OfKind(w.kind)
        /\ w.pc = "claim" => w.held \in OfKind(w.kind)
        /\ w.pc = "peek" => w.kind # "clarification"
        /\ w.pc \in Peeked /\ w.kind = "clarification" => w.reply = "answer"
  BY ReadsTurn
<1> QED
  BY <1>2, <1>3, <1>4, MoveKeeps

(* The steps that set a row. *)
SetsOf(t) == Offer(t) \/ Resume(t) \/ PresentClarification(t) \/ PresentPlan(t)

LEMMA SetsRow ==
  ASSUME NEW t \in Turns, SetsOf(t)
  PROVE  \E row \in Rows : row.status = "pending" /\ SetRow(row)
<1>1. ASSUME NEW k \in Kinds, NEW key \in Keys, NEW g \in BOOLEAN
      PROVE [kind |-> k, key |-> key, status |-> "pending", guided |-> g] \in Rows
  BY DEF Rows
<1>2. SessionKey \in Keys /\ "owner" \in Keys /\ {"action", "plan", "artifact", "clarification"} \subseteq Kinds
  BY DEF SessionKey, Keys, Kinds, Gated
<1>3. \A r : option_groups_for(r) \in BOOLEAN
  BY DEF option_groups_for
<1> QED
  BY <1>1, <1>2, <1>3 DEF SetsOf, Offer, Resume, PresentClarification, PresentPlan, Set

(* Of these only an answered clarification has run. *)
LEMMA SetsRuns ==
  ASSUME FInv, NEW t \in Turns, SetsOf(t)
  PROVE  /\ runs' \in [Ids -> Nat]
         /\ \A j \in Ids : runs'[j] = runs[j] \/ (flows[j].status # "none" /\ flows[j].kind # "plan")
<1>1. runs \in [Ids -> Nat]
  BY Typed
<1>2. CASE Resume(t)
  <2>1. turn[t].pc = "resume" /\ turn[t].kind = "clarification" /\ turn[t].seen \in OfKind("clarification")
    BY <1>2 DEF Resume, FInv, TurnsBacked, Backed, Peeked, Holding
  <2> QED
    BY <1>1, <1>2, <2>1 DEF Resume, ActedOn, OfKind
<1>3. CASE UNCHANGED runs
  BY <1>1, <1>3
<1> QED
  BY <1>2, <1>3 DEF SetsOf, Offer, PresentClarification, PresentPlan

LEMMA SetsKeep ==
  ASSUME FInv, NEW t \in Turns, SetsOf(t)
  PROVE  FInv'
<1>1. UNCHANGED granted /\ turn' = [turn EXCEPT ![t] = Idle]
  BY DEF SetsOf, Offer, Resume, PresentClarification, PresentPlan, GoTo
<1>2. OthersTyped'
  BY DEF SetsOf, OthersTyped, FInv, TypeOK, Offer, Resume, PresentClarification, PresentPlan
<1> QED
  BY <1>1, <1>2, SetsRow, SetsRuns, SetKeeps

(* The steps that act on a payload. *)
ActsOf(t) ==
    \/ GenerateArtifact(t) \/ _maybe_enqueue_artifact(t)
    \/ execute_runtime_validation(t) \/ _execute_approved_plan(t)

LEMMA ActsTurn ==
  ASSUME FInv, NEW t \in Turns, ActsOf(t)
  PROVE  /\ Act(t) /\ made' \in BOOLEAN
         /\ \E w \in TurnStates : w.pc \in {"idle", "offer"} /\ turn' = [turn EXCEPT ![t] = w]
<1>1. Act(t) /\ made' \in BOOLEAN
  BY DEF ActsOf, GenerateArtifact, _maybe_enqueue_artifact, execute_runtime_validation,
         _execute_approved_plan, FInv, TypeOK
<1>2. CASE turn' = [turn EXCEPT ![t] = Idle]
  BY <1>1, <1>2, IdleTyped
<1>3. CASE turn' = [turn EXCEPT ![t].pc = "offer"]
  <2>1. PICK w : w = [turn[t] EXCEPT !.pc = "offer"]
    OBVIOUS
  <2>2. w \in TurnStates /\ w.pc = "offer"
    BY <2>1, Typed DEF TurnStates
  <2> QED
    BY <1>1, <1>3, <2>1, <2>2
<1> QED
  BY <1>2, <1>3, <1>1 DEF ActsOf, GenerateArtifact, _maybe_enqueue_artifact, execute_runtime_validation,
                          _execute_approved_plan, GoTo

LEMMA NextKeeps == FInv /\ [Next]_vars => FInv'
<1> SUFFICES ASSUME FInv, [Next]_vars PROVE FInv'
  OBVIOUS
<1>1. CASE UNCHANGED vars
  BY <1>1 DEF vars, FInv, TypeOK, PlanRunsOnce, OnePendingRow, TurnsBacked, Backed, OfKind, Open
<1>2. ASSUME NEW t \in Turns, Start(t) \/ Step(t) \/ Die(t) PROVE FInv'
  <2>1. CASE ReadsOf(t)
    BY <2>1, ReadsKeep
  <2>2. CASE SetsOf(t)
    BY <2>2, SetsKeep
  <2>3. CASE Claim(t)
    BY <2>3, ClaimKeeps
  <2>4. CASE Record(t)
    BY <2>4, RecordKeeps
  <2>5. CASE ActsOf(t)
    BY <2>5, ActsTurn, ActKeeps
  <2> QED
    BY <1>2, <2>1, <2>2, <2>3, <2>4, <2>5 DEF Step, ReadsOf, SetsOf, ActsOf
<1>3. ASSUME NEW i \in Ids, Expire(i) PROVE FInv'
  BY <1>3, ExpireKeeps
<1> QED
  BY <1>1, <1>2, <1>3 DEF Next

LEMMA FlowHolds == Spec => []FInv
BY InitHolds, NextKeeps, PTL DEF Spec

-----------------------------------------------------------------------------
(***************************************************************************)
(* How many runs.  A turn that claims a row carries one grant from the     *)
(* claim to the run, so the runs started and the grants carried are never  *)
(* more than the grants.  Against the quota the same turns count twice:    *)
(* between the check and the record as an overshoot of what is recorded,   *)
(* and after the record as recorded work still to be started.              *)
(***************************************************************************)
Holders(k) == {t \in Turns : turn[t].pc \in Holding /\ turn[t].kind = k}
Executors(k) == {t \in Turns : turn[t].pc = "execute" /\ turn[t].kind = k}
InFlight(k) ==
    {t \in Turns : /\ turn[t].pc \in {"select", "claim", "record"}
                   /\ turn[t].reply = "approve" /\ turn[t].kind = k}

ClaimsCounted ==
    \A k \in Kinds :
        /\ IsFiniteSet(Started(k))
        /\ Cardinality(Started(k)) + Cardinality(Holders(k)) <= Cardinality(OfKind(k) \cap granted)

QuotaCounted ==
    /\ \A t \in Turns : turn[t].pc = "record" => turn[t].reply = "approve"
    /\ \A k \in Gated : Cardinality(Started(k)) + Cardinality(Executors(k)) <= used[k]
    /\ \A k \in Gated : QuotaLimit > 0 =>
          used[k] + Cardinality(InFlight(k)) <= QuotaLimit + Cardinality(Turns) - 1

LEMMA TurnsFinite == IsFiniteSet(Turns) /\ MaxFlows \in Nat /\ QuotaLimit \in Nat
BY FlowAssumption, Zenon

LEMMA SomeTurns ==
  ASSUME NEW S \in SUBSET Turns
  PROVE  IsFiniteSet(S) /\ Cardinality(S) \in Nat /\ Cardinality(S) <= Cardinality(Turns) /\ Cardinality(Turns) \in Nat
BY TurnsFinite, FS_Subset, FS_CardinalityType

LEMMA RowsFinite ==
  ASSUME NEW S \in SUBSET Ids
  PROVE  IsFiniteSet(S) /\ Cardinality(S) \in Nat
<1>1. IsFiniteSet(Ids)
  BY TurnsFinite, FS_Interval
<1> QED
  BY <1>1, FS_Subset, FS_CardinalityType

(* One turn joins a set of turns, or leaves it. *)
LEMMA TurnJoins ==
  ASSUME NEW S \in SUBSET Turns, NEW t \in Turns, NEW T, T = S \cup {t}
  PROVE  Cardinality(T) <= Cardinality(S) + 1
BY SomeTurns, FS_AddElement

LEMMA TurnLeaves ==
  ASSUME NEW S \in SUBSET Turns, NEW t \in S, NEW T, T = S \ {t}
  PROVE  Cardinality(T) = Cardinality(S) - 1
BY SomeTurns, FS_RemoveElement

LEMMA OneMore ==
  ASSUME NEW S, IsFiniteSet(S), NEW x, x \notin S, NEW T, T = S \cup {x}
  PROVE  IsFiniteSet(T) /\ Cardinality(T) = Cardinality(S) + 1
BY FS_AddElement

LEMMA RunsOf ==
  ASSUME NEW k
  PROVE  \A x : x \in Started(k) <=> \E i \in OfKind(k) : \E n \in 1..runs[i] : x = <<i, n>>
BY DEF Started

(* A row that was set has not run, so a new row starts nothing. *)
LEMMA StartedStays ==
  ASSUME NEW k, OfKind(k) \subseteq OfKind(k)', \A j \in OfKind(k) : runs'[j] = runs[j],
         \A j \in OfKind(k)' : j \notin OfKind(k) => runs'[j] = 0
  PROVE  Started(k)' = Started(k)
<1>1. \A x : x \in Started(k)' <=> \E i \in OfKind(k)' : \E n \in 1..runs'[i] : x = <<i, n>>
  BY DEF Started
<1>2. \A x : x \in Started(k)' <=> x \in Started(k)
  BY <1>1, RunsOf
<1> QED
  BY <1>2

(* One run of one row is one pair more. *)
LEMMA StartedGrows ==
  ASSUME NEW k, OfKind(k) \subseteq OfKind(k)', NEW a \in OfKind(k), runs[a] \in Nat, runs'[a] = runs[a] + 1,
         \A j \in OfKind(k) \ {a} : runs'[j] = runs[j],
         \A j \in OfKind(k)' : j \notin OfKind(k) => runs'[j] = 0,
         IsFiniteSet(Started(k))
  PROVE  IsFiniteSet(Started(k)') /\ Cardinality(Started(k)') = Cardinality(Started(k)) + 1
<1>1. \A x : x \in Started(k)' <=> \E i \in OfKind(k)' : \E n \in 1..runs'[i] : x = <<i, n>>
  BY DEF Started
<1>2. 1..runs'[a] = 1..runs[a] \cup {runs[a] + 1}
  OBVIOUS
<1>3. \A x : x \in Started(k)' <=> x \in Started(k) \/ x = <<a, runs[a] + 1>>
  BY <1>1, <1>2, RunsOf
<1>4. Started(k)' = Started(k) \cup {<<a, runs[a] + 1>>}
  BY <1>3
<1>5. <<a, runs[a] + 1>> \notin Started(k)
  BY RunsOf
<1> QED
  BY <1>4, <1>5, OneMore

(* A turn t that goes on as w is in each set of turns as w says. *)
GoesOn(t, w) == turn' = [turn EXCEPT ![t] = w]

LEMMA TurnMoves ==
  ASSUME FInv, NEW t \in Turns, NEW w, GoesOn(t, w), NEW k
  PROVE  /\ w.pc \in Holding /\ w.kind = k => Holders(k)' = Holders(k) \cup {t}
         /\ ~(w.pc \in Holding /\ w.kind = k) => Holders(k)' = Holders(k) \ {t}
         /\ w.pc = "execute" /\ w.kind = k => Executors(k)' = Executors(k) \cup {t}
         /\ ~(w.pc = "execute" /\ w.kind = k) => Executors(k)' = Executors(k) \ {t}
         /\ w.pc \in {"select", "claim", "record"} /\ w.reply = "approve" /\ w.kind = k
               => InFlight(k)' = InFlight(k) \cup {t}
         /\ ~(w.pc \in {"select", "claim", "record"} /\ w.reply = "approve" /\ w.kind = k)
               => InFlight(k)' = InFlight(k) \ {t}
<1>1. \A v \in Turns : turn'[v] = IF v = t THEN w ELSE turn[v]
  BY Typed DEF GoesOn
<1>2. /\ w.pc \in Holding /\ w.kind = k => Holders(k)' = Holders(k) \cup {t}
      /\ ~(w.pc \in Holding /\ w.kind = k) => Holders(k)' = Holders(k) \ {t}
  BY <1>1 DEF Holders
<1>3. /\ w.pc = "execute" /\ w.kind = k => Executors(k)' = Executors(k) \cup {t}
      /\ ~(w.pc = "execute" /\ w.kind = k) => Executors(k)' = Executors(k) \ {t}
  BY <1>1 DEF Executors
<1>4. /\ w.pc \in {"select", "claim", "record"} /\ w.reply = "approve" /\ w.kind = k
            => InFlight(k)' = InFlight(k) \cup {t}
      /\ ~(w.pc \in {"select", "claim", "record"} /\ w.reply = "approve" /\ w.kind = k)
            => InFlight(k)' = InFlight(k) \ {t}
  BY <1>1 DEF InFlight
<1> QED
  BY <1>2, <1>3, <1>4

(* Sizes of the sets of a kind, and of the sets a step may make of them. *)
LEMMA SetsOfTurns ==
  ASSUME NEW k
  PROVE  /\ Holders(k) \subseteq Turns /\ Cardinality(Holders(k)) \in Nat
         /\ Executors(k) \subseteq Turns /\ Cardinality(Executors(k)) \in Nat
         /\ InFlight(k) \subseteq Turns /\ Cardinality(InFlight(k)) \in Nat
<1>1. Holders(k) \subseteq Turns /\ Executors(k) \subseteq Turns /\ InFlight(k) \subseteq Turns
  BY DEF Holders, Executors, InFlight
<1> QED
  BY <1>1, SomeTurns

LEMMA FewerTurns ==
  ASSUME NEW T \in SUBSET Turns, NEW S \in SUBSET T
  PROVE  Cardinality(S) <= Cardinality(T) /\ Cardinality(S) \in Nat
<1>1. IsFiniteSet(T)
  BY SomeTurns
<1> QED
  BY <1>1, FS_Subset, FS_CardinalityType

LEMMA MoreGranted ==
  ASSUME NEW k, OfKind(k) \subseteq OfKind(k)', granted \subseteq granted'
  PROVE  /\ Cardinality(OfKind(k) \cap granted) <= Cardinality((OfKind(k) \cap granted)')
         /\ Cardinality(OfKind(k) \cap granted) \in Nat /\ Cardinality((OfKind(k) \cap granted)') \in Nat
<1>1. (OfKind(k) \cap granted)' \subseteq Ids /\ OfKind(k) \cap granted \subseteq (OfKind(k) \cap granted)'
  BY DEF OfKind
<1>2. IsFiniteSet((OfKind(k) \cap granted)') /\ Cardinality((OfKind(k) \cap granted)') \in Nat
  BY <1>1, RowsFinite
<1> QED
  BY <1>1, <1>2, FS_Subset, FS_CardinalityType

CInv == FInv /\ ClaimsCounted /\ QuotaCounted

LEMMA CountsTyped ==
  ASSUME CInv
  PROVE  /\ \A k \in Kinds : IsFiniteSet(Started(k)) /\ Cardinality(Started(k)) \in Nat
         /\ \A k \in Gated : used[k] \in Nat
         /\ Gated \subseteq Kinds /\ Cardinality(Turns) \in Nat
         /\ turn \in [Turns -> TurnStates]
<1>1. \A k \in Kinds : IsFiniteSet(Started(k))
  BY DEF CInv, ClaimsCounted
<1> QED
  BY <1>1, FS_CardinalityType, TurnsFinite, Typed DEF CInv, Kinds

(* A step of a turn that starts nothing, records nothing and takes no      *)
(* grant: it may only let go of what it holds, or pass the check.          *)
LEMMA LetsGo ==
  ASSUME CInv, NEW t \in Turns, NEW w, GoesOn(t, w), w.pc \notin Holding,
         used' = used, granted \subseteq granted',
         \A k \in Kinds : OfKind(k) \subseteq OfKind(k)' /\ Started(k)' = Started(k),
         w.pc \in {"select", "claim"} /\ w.reply = "approve" =>
            \/ turn[t].pc \in {"select", "claim"} /\ turn[t].reply = "approve" /\ turn[t].kind = w.kind
            \/ used[w.kind] < QuotaLimit
  PROVE  ClaimsCounted' /\ QuotaCounted'
<1>1. FInv
  BY DEF CInv
<1>2. ASSUME NEW k \in Kinds
      PROVE  /\ IsFiniteSet(Started(k)')
             /\ Cardinality(Started(k)') + Cardinality(Holders(k)') <= Cardinality((OfKind(k) \cap granted)')
  <2>1. Holders(k)' \subseteq Holders(k)
    BY <1>1, TurnMoves
  <2>2. Cardinality(Holders(k)') <= Cardinality(Holders(k)) /\ Cardinality(Holders(k)') \in Nat
    BY <2>1, SetsOfTurns, FewerTurns
  <2>3. /\ Cardinality(OfKind(k) \cap granted) <= Cardinality((OfKind(k) \cap granted)')
        /\ Cardinality(OfKind(k) \cap granted) \in Nat /\ Cardinality((OfKind(k) \cap granted)') \in Nat
    BY <1>2, MoreGranted
  <2>4. Cardinality(Holders(k)) \in Nat
    BY SetsOfTurns
  <2>5. /\ IsFiniteSet(Started(k)) /\ Cardinality(Started(k)) \in Nat /\ Started(k)' = Started(k)
        /\ Cardinality(Started(k)) + Cardinality(Holders(k)) <= Cardinality(OfKind(k) \cap granted)
    BY <1>2, CountsTyped DEF CInv, ClaimsCounted
  <2> QED
    BY ONLY <2>2, <2>3, <2>4, <2>5
<1>3. ASSUME NEW k \in Gated
      PROVE  Cardinality(Started(k)') + Cardinality(Executors(k)') <= used'[k]
  <2>1. Executors(k)' \subseteq Executors(k)
    BY <1>1, TurnMoves DEF Holding
  <2>2. Cardinality(Executors(k)') <= Cardinality(Executors(k)) /\ Cardinality(Executors(k)') \in Nat
    BY <2>1, SetsOfTurns, FewerTurns
  <2>3. /\ Cardinality(Started(k)) \in Nat /\ Started(k)' = Started(k) /\ used[k] \in Nat
        /\ Cardinality(Started(k)) + Cardinality(Executors(k)) <= used[k] /\ used' = used
    BY <1>3, CountsTyped DEF CInv, QuotaCounted
  <2>4. Cardinality(Executors(k)) \in Nat
    BY SetsOfTurns
  <2> QED
    BY ONLY <2>2, <2>3, <2>4
<1>4. ASSUME NEW k \in Gated, QuotaLimit > 0
      PROVE  used'[k] + Cardinality(InFlight(k)') <= QuotaLimit + Cardinality(Turns) - 1
  <2>1. /\ used[k] \in Nat /\ used'[k] = used[k] /\ Cardinality(Turns) \in Nat /\ QuotaLimit \in Nat
        /\ used[k] + Cardinality(InFlight(k)) <= QuotaLimit + Cardinality(Turns) - 1
    BY <1>4, CountsTyped, TurnsFinite DEF CInv, QuotaCounted
  <2>2. CASE used[k] < QuotaLimit
    <3>1. InFlight(k)' \subseteq Turns
      BY <1>1, TurnMoves, SetsOfTurns
    <3>2. Cardinality(InFlight(k)') <= Cardinality(Turns) /\ Cardinality(InFlight(k)') \in Nat
      BY <3>1, SomeTurns
    <3> QED
      BY ONLY <2>1, <2>2, <3>2
  <2>3. CASE ~(used[k] < QuotaLimit)
    <3>1. InFlight(k)' \subseteq InFlight(k)
      <4>1. CASE w.pc \in {"select", "claim"} /\ w.reply = "approve" /\ w.kind = k
        <5>1. t \in InFlight(k)
          BY <2>3, <4>1 DEF InFlight
        <5> QED
          BY <1>1, <5>1, TurnMoves
      <4>2. CASE ~(w.pc \in {"select", "claim"} /\ w.reply = "approve" /\ w.kind = k)
        BY <1>1, <4>2, TurnMoves DEF Holding
      <4> QED
        BY <4>1, <4>2
    <3>2. Cardinality(InFlight(k)') <= Cardinality(InFlight(k)) /\ Cardinality(InFlight(k)') \in Nat
      BY <3>1, SetsOfTurns, FewerTurns
    <3>3. Cardinality(InFlight(k)) \in Nat
      BY SetsOfTurns
    <3> QED
      BY ONLY <2>1, <3>2, <3>3
  <2> QED
    BY <2>2, <2>3
<1>5. \A v \in Turns : turn'[v].pc = "record" => turn'[v].reply = "approve"
  <2>1. \A v \in Turns : turn'[v] = IF v = t THEN w ELSE turn[v]
    BY CountsTyped DEF GoesOn
  <2> QED
    BY <2>1 DEF CInv, QuotaCounted, Holding
<1> QED
  BY <1>2, <1>3, <1>4, <1>5 DEF ClaimsCounted, QuotaCounted

LEMMA ReadsCount ==
  ASSUME CInv, NEW t \in Turns, ReadsOf(t)
  PROVE  ClaimsCounted' /\ QuotaCounted'
<1>1. UNCHANGED <<flows, used, runs, granted>>
  BY DEF ReadsOf, Start, Peek, Check, Select, Cap, Die
<1>2. PICK w : /\ GoesOn(t, w) /\ w.pc \notin Holding
               /\ w.pc \in {"select", "claim"} /\ w.reply = "approve" => Passes(t, w)
  BY ReadsTurn DEF CInv, GoesOn
<1>3. \A k \in Kinds : OfKind(k) \subseteq OfKind(k)' /\ Started(k)' = Started(k)
  BY <1>1 DEF OfKind, Started
<1> QED
  BY <1>1, <1>2, <1>3, LetsGo DEF Passes

LEMMA IdleLetsGo == Idle.pc \notin Holding /\ Idle.pc \notin {"select", "claim", "record", "execute"}
BY IdleTyped DEF Holding

(* What setting a row does to the rows of each kind. *)
LEMMA SetGrows ==
  ASSUME FInv, NEW row \in Rows, row.status = "pending", SetRow(row), NEW k
  PROVE  /\ OfKind(k) \subseteq OfKind(k)'
         /\ \A j \in OfKind(k)' : j \notin OfKind(k) => flows[j].status = "none"
<1>1. PICK i \in Ids : Unused(i) /\ flows' = Replaced(i, row)
  BY DEF SetRow
<1>2. /\ flows[i].status = "none"
      /\ \A j \in Ids \ {i} : \/ flows'[j] = flows[j]
                              \/ Open(j) /\ flows'[j] = [flows[j] EXCEPT !.status = "replaced"]
  BY <1>1, SetRows
<1>3. \A j \in Ids \ {i} : /\ flows'[j].kind = flows[j].kind
                           /\ flows'[j].status = "none" <=> flows[j].status = "none"
  BY <1>2, Typed DEF Open, Rows
<1> QED
  BY <1>2, <1>3 DEF OfKind

LEMMA SetsCount ==
  ASSUME CInv, NEW t \in Turns, SetsOf(t), UNCHANGED runs
  PROVE  ClaimsCounted' /\ QuotaCounted'
<1>1. FInv
  BY DEF CInv
<1>2. PICK row \in Rows : row.status = "pending" /\ SetRow(row)
  BY SetsRow
<1>3. UNCHANGED <<used, granted>> /\ GoesOn(t, Idle)
  BY DEF SetsOf, Offer, Resume, PresentClarification, PresentPlan, GoTo, GoesOn
<1>4. ASSUME NEW k \in Kinds PROVE OfKind(k) \subseteq OfKind(k)' /\ Started(k)' = Started(k)
  <2>1. /\ OfKind(k) \subseteq OfKind(k)'
        /\ \A j \in OfKind(k)' : j \notin OfKind(k) => flows[j].status = "none"
    BY <1>1, <1>2, SetGrows
  <2>2. \A j \in OfKind(k)' : j \notin OfKind(k) => runs'[j] = 0
    BY <1>1, <2>1 DEF FInv, TurnsBacked, OfKind
  <2> QED
    BY <2>1, <2>2, StartedStays
<1> QED
  BY <1>3, <1>4, IdleLetsGo, LetsGo

(* A run that a turn starts with the grant it carries. *)
LEMMA StartsOne ==
  ASSUME CInv, NEW t \in Turns, NEW w, GoesOn(t, w), w.pc \notin Holding,
         w.pc \notin {"select", "claim"}, used' = used, granted' = granted,
         turn[t].pc \in {"execute", "resume"},
         turn[t].pc = "execute" <=> turn[t].kind \in Gated,
         NEW a \in OfKind(turn[t].kind), runs' = [runs EXCEPT ![a] = @ + 1],
         \A k \in Kinds : /\ OfKind(k) \subseteq OfKind(k)'
                          /\ \A j \in OfKind(k)' : j \notin OfKind(k) => flows[j].status = "none"
  PROVE  ClaimsCounted' /\ QuotaCounted'
<1>1. FInv
  BY DEF CInv
<1>u. PICK u \in TurnStates : u = turn[t]
  BY CountsTyped
<1>2. a \in Ids /\ flows[a].kind = u.kind /\ runs \in [Ids -> Nat] /\ u.kind \in Kinds /\ flows[a].status # "none"
  BY <1>1, <1>u, Typed DEF OfKind, TurnStates
<1>3. \A j \in Ids : runs'[j] = IF j = a THEN runs[a] + 1 ELSE runs[j]
  BY <1>2
<1>4. \A k \in Kinds : \A j \in OfKind(k)' : j \notin OfKind(k) => runs'[j] = 0
  BY <1>1, <1>2, <1>3 DEF FInv, TurnsBacked, OfKind
<1>5. /\ IsFiniteSet(Started(u.kind)')
      /\ Cardinality(Started(u.kind)') = Cardinality(Started(u.kind)) + 1
  <2>1. a \in OfKind(u.kind) /\ runs[a] \in Nat /\ runs'[a] = runs[a] + 1
    BY <1>2, <1>3, <1>u
  <2>2. \A j \in OfKind(u.kind) \ {a} : runs'[j] = runs[j]
    BY <1>3 DEF OfKind
  <2>3. IsFiniteSet(Started(u.kind)) /\ OfKind(u.kind) \subseteq OfKind(u.kind)'
    BY <1>2, CountsTyped
  <2> QED
    BY <1>2, <1>4, <2>1, <2>2, <2>3, StartedGrows
<1>6. ASSUME NEW k \in Kinds \ {u.kind} PROVE Started(k)' = Started(k)
  <2>1. \A j \in OfKind(k) : runs'[j] = runs[j]
    BY <1>2, <1>3, <1>6 DEF OfKind
  <2> QED
    BY <1>4, <2>1, StartedStays
<1>7. ASSUME NEW k \in Kinds
      PROVE  /\ Cardinality(Holders(k)) \in Nat /\ Cardinality(Holders(k)') \in Nat
             /\ Cardinality(Holders(k)') = Cardinality(Holders(k)) - (IF k = u.kind THEN 1 ELSE 0)
  <2>1. Holders(k)' = Holders(k) \ {t}
    BY <1>1, TurnMoves
  <2>2. t \in Holders(k) <=> k = u.kind
    BY <1>u DEF Holders, Holding
  <2>3. Cardinality(Holders(k)) \in Nat /\ Holders(k) \subseteq Turns
    BY SetsOfTurns
  <2>4. Cardinality(Holders(k)') \in Nat
    BY <2>1, <2>3, SomeTurns
  <2>5. CASE k = u.kind
    BY <2>1, <2>2, <2>3, <2>4, <2>5, TurnLeaves
  <2>6. CASE k # u.kind
    <3>1. Holders(k)' = Holders(k)
      BY <2>1, <2>2, <2>6
    <3> QED
      BY <2>3, <2>6, <3>1
  <2> QED
    BY <2>5, <2>6
<1>8. ASSUME NEW k \in Gated
      PROVE  /\ Cardinality(Executors(k)) \in Nat /\ Cardinality(Executors(k)') \in Nat
             /\ Cardinality(Executors(k)') = Cardinality(Executors(k)) - (IF k = u.kind THEN 1 ELSE 0)
  <2>1. Executors(k)' = Executors(k) \ {t}
    BY <1>1, TurnMoves DEF Holding
  <2>2. t \in Executors(k) <=> k = u.kind
    BY <1>u DEF Executors
  <2>3. Cardinality(Executors(k)) \in Nat /\ Executors(k) \subseteq Turns
    BY SetsOfTurns
  <2>4. Cardinality(Executors(k)') \in Nat
    BY <2>1, <2>3, SomeTurns
  <2>5. CASE k = u.kind
    BY <2>1, <2>2, <2>3, <2>4, <2>5, TurnLeaves
  <2>6. CASE k # u.kind
    <3>1. Executors(k)' = Executors(k)
      BY <2>1, <2>2, <2>6
    <3> QED
      BY <2>3, <2>6, <3>1
  <2> QED
    BY <2>5, <2>6
<1>9. ASSUME NEW k \in Kinds
      PROVE  /\ IsFiniteSet(Started(k)') /\ Cardinality(Started(k)) \in Nat
             /\ Cardinality(Started(k)') = Cardinality(Started(k)) + (IF k = u.kind THEN 1 ELSE 0)
  <2>1. IsFiniteSet(Started(k)) /\ Cardinality(Started(k)) \in Nat
    BY CountsTyped
  <2>2. CASE k = u.kind
    BY <1>5, <2>1, <2>2
  <2>3. CASE k # u.kind
    BY <1>6, <2>1, <2>3
  <2> QED
    BY <2>2, <2>3
<1>10. ClaimsCounted'
  <2> SUFFICES ASSUME NEW k \in Kinds
               PROVE  /\ IsFiniteSet(Started(k)')
                      /\ Cardinality(Started(k)') + Cardinality(Holders(k)') <= Cardinality((OfKind(k) \cap granted)')
    BY DEF ClaimsCounted
  <2>1. Cardinality(Started(k)) + Cardinality(Holders(k)) <= Cardinality(OfKind(k) \cap granted)
    BY DEF CInv, ClaimsCounted
  <2>2. /\ Cardinality(OfKind(k) \cap granted) <= Cardinality((OfKind(k) \cap granted)')
        /\ Cardinality(OfKind(k) \cap granted) \in Nat /\ Cardinality((OfKind(k) \cap granted)') \in Nat
    BY MoreGranted
  <2>3. /\ Cardinality(Holders(k)) \in Nat /\ Cardinality(Holders(k)') \in Nat
        /\ Cardinality(Holders(k)') = Cardinality(Holders(k)) - (IF k = u.kind THEN 1 ELSE 0)
    BY <1>7
  <2>4. /\ IsFiniteSet(Started(k)') /\ Cardinality(Started(k)) \in Nat
        /\ Cardinality(Started(k)') = Cardinality(Started(k)) + (IF k = u.kind THEN 1 ELSE 0)
    BY <1>9
  <2> QED
    BY ONLY <2>1, <2>2, <2>3, <2>4
<1>11. QuotaCounted'
  <2>1. \A v \in Turns : turn'[v].pc = "record" => turn'[v].reply = "approve"
    <3>1. \A v \in Turns : turn'[v] = IF v = t THEN w ELSE turn[v]
      BY CountsTyped DEF GoesOn
    <3> QED
      BY <3>1 DEF CInv, QuotaCounted, Holding
  <2>2. ASSUME NEW k \in Gated PROVE Cardinality(Started(k)') + Cardinality(Executors(k)') <= used'[k]
    <3>1. /\ Cardinality(Started(k)) + Cardinality(Executors(k)) <= used[k] /\ used' = used /\ used[k] \in Nat
          /\ k \in Kinds
      BY CountsTyped DEF CInv, QuotaCounted
    <3>2. /\ Cardinality(Executors(k)) \in Nat /\ Cardinality(Executors(k)') \in Nat
          /\ Cardinality(Executors(k)') = Cardinality(Executors(k)) - (IF k = u.kind THEN 1 ELSE 0)
      BY <1>8
    <3>3. /\ Cardinality(Started(k)) \in Nat
          /\ Cardinality(Started(k)') = Cardinality(Started(k)) + (IF k = u.kind THEN 1 ELSE 0)
      BY <1>9, <3>1
    <3> QED
      BY ONLY <3>1, <3>2, <3>3
  <2>3. ASSUME NEW k \in Gated, QuotaLimit > 0
        PROVE  used'[k] + Cardinality(InFlight(k)') <= QuotaLimit + Cardinality(Turns) - 1
    <3>1. InFlight(k)' = InFlight(k)
      <4>1. w.pc \notin {"select", "claim", "record"}
        BY DEF Holding
      <4>2. InFlight(k)' = InFlight(k) \ {t}
        BY <1>1, <4>1, TurnMoves
      <4>3. t \notin InFlight(k)
        BY DEF InFlight
      <4> QED
        BY <4>2, <4>3
    <3> QED
      BY <2>3, <3>1 DEF CInv, QuotaCounted
  <2> QED
    BY <2>1, <2>2, <2>3 DEF QuotaCounted
<1> QED
  BY <1>10, <1>11

LEMMA ResumeCount ==
  ASSUME CInv, NEW t \in Turns, Resume(t)
  PROVE  ClaimsCounted' /\ QuotaCounted'
<1>1. FInv
  BY DEF CInv
<1>2. PICK row \in Rows : row.status = "pending" /\ SetRow(row)
  BY SetsRow DEF SetsOf
<1>3. /\ UNCHANGED <<used, granted>> /\ GoesOn(t, Idle)
      /\ turn[t].pc = "resume" /\ turn[t].kind = "clarification"
      /\ turn[t].seen \in OfKind("clarification")
      /\ runs' = [runs EXCEPT ![turn[t].seen] = @ + 1]
  BY <1>1 DEF Resume, GoTo, GoesOn, ActedOn, FInv, TurnsBacked, Backed, Peeked
<1>4. \A k \in Kinds : /\ OfKind(k) \subseteq OfKind(k)'
                       /\ \A j \in OfKind(k)' : j \notin OfKind(k) => flows[j].status = "none"
  BY <1>1, <1>2, SetGrows
<1>5. "clarification" \notin Gated
  BY DEF Gated
<1> QED
  BY <1>3, <1>4, <1>5, IdleLetsGo, StartsOne

LEMMA ActsCount ==
  ASSUME CInv, NEW t \in Turns, ActsOf(t)
  PROVE  ClaimsCounted' /\ QuotaCounted'
<1>1. FInv
  BY DEF CInv
<1>2. Act(t)
  BY <1>1, ActsTurn
<1>3. PICK w : GoesOn(t, w) /\ w.pc \in {"idle", "offer"}
  BY <1>1, ActsTurn DEF GoesOn
<1>u. PICK u \in TurnStates : u = turn[t] /\ Backed(u)
  BY <1>1, CountsTyped DEF FInv, TurnsBacked
<1>4. u.pc = "execute" /\ u.kind \in Gated
  BY <1>2, <1>u DEF Act, Backed, TurnStates, Kinds
<1>5. PICK a \in OfKind(u.kind) : runs' = [runs EXCEPT ![a] = @ + 1]
  BY <1>2, <1>4, <1>u DEF Act, ActedOn, Backed, Peeked, Holding
<1>6. UNCHANGED <<flows, used, granted>>
  BY <1>2 DEF Act
<1>7. \A k \in Kinds : OfKind(k)' = OfKind(k)
  BY <1>6 DEF OfKind
<1>8. w.pc \notin Holding /\ w.pc \notin {"select", "claim"}
  BY <1>3 DEF Holding
<1> QED
  BY <1>3, <1>4, <1>5, <1>6, <1>7, <1>8, <1>u, StartsOne

(* A claim that is won takes one grant, and a turn to carry it. *)
LEMMA ClaimCount ==
  ASSUME CInv, NEW t \in Turns, Claim(t)
  PROVE  ClaimsCounted' /\ QuotaCounted'
<1>1. FInv
  BY DEF CInv
<1>u. PICK u \in TurnStates : u = turn[t] /\ Backed(u)
  BY <1>1, CountsTyped DEF FInv, TurnsBacked
<1>2. u.pc = "claim" /\ u.held \in OfKind(u.kind) /\ UNCHANGED <<used, runs>>
  BY <1>u DEF Claim, Backed
<1>3. \A k \in Kinds : OfKind(k)' = OfKind(k) /\ Started(k)' = Started(k)
  <2>1. \A j \in Ids : /\ flows'[j].kind = flows[j].kind
                       /\ flows'[j].status = "none" <=> flows[j].status = "none"
    BY <1>1, <1>2, <1>u, Typed DEF Claim, Rows, OfKind
  <2> QED
    BY <1>2, <2>1 DEF OfKind, Started
<1>4. CASE ~(Claimable(u.held) /\ ClaimedNext(u) # "idle")
  <2>1. GoesOn(t, Idle) /\ granted \subseteq granted'
    BY <1>4, <1>u DEF Claim, GoTo, GoesOn
  <2> QED
    BY <1>2, <1>3, <2>1, IdleLetsGo, LetsGo
<1>5. CASE Claimable(u.held) /\ ClaimedNext(u) # "idle"
  <2>1. PICK w \in TurnStates : /\ w = [u EXCEPT !.pc = ClaimedNext(u)] /\ GoesOn(t, w)
                                /\ w.pc = ClaimedNext(u) /\ w.kind = u.kind /\ w.reply = u.reply
    <3>1. ClaimedNext(u) \in {"resume", "record"}
      BY <1>5 DEF ClaimedNext
    <3>2. GoesOn(t, [u EXCEPT !.pc = ClaimedNext(u)])
      BY <1>5, <1>u DEF Claim, GoTo, GoesOn
    <3> QED
      BY <3>1, <3>2 DEF TurnStates
  <2>2. \/ w.pc = "resume" /\ u.kind = "clarification" /\ u.reply = "answer"
        \/ w.pc = "record" /\ u.reply = "approve"
    <3>1. u.kind = "clarification" => u.reply = "answer"
      BY <1>2, <1>u DEF Backed, Peeked
    <3>2. CASE u.kind = "clarification"
      BY <2>1, <3>1, <3>2 DEF ClaimedNext
    <3>3. CASE u.kind # "clarification" /\ u.reply = "approve"
      BY <2>1, <3>3 DEF ClaimedNext
    <3>4. CASE u.kind # "clarification" /\ u.reply # "approve"
      BY <1>5, <3>4 DEF ClaimedNext
    <3> QED
      BY <3>2, <3>3, <3>4
  <2>w. GoesOn(t, w) /\ w.kind = u.kind /\ w.reply = u.reply /\ w.pc \in Holding /\ w.pc # "execute"
    BY <2>1, <2>2 DEF Holding
  <2>3. granted' = granted \cup {u.held} /\ u.held \notin granted
    BY <1>1, <1>2, <1>5, <1>u, <2>2 DEF Claim, Claimable, Open, FInv, TurnsBacked
  <2>4. ASSUME NEW k \in Kinds
        PROVE  /\ IsFiniteSet(Started(k)')
               /\ Cardinality(Started(k)') + Cardinality(Holders(k)') <= Cardinality((OfKind(k) \cap granted)')
    <3>1. /\ Cardinality(Started(k)) + Cardinality(Holders(k)) <= Cardinality(OfKind(k) \cap granted)
          /\ IsFiniteSet(Started(k)) /\ Cardinality(Started(k)) \in Nat /\ Started(k)' = Started(k)
      BY <1>3, CountsTyped DEF CInv, ClaimsCounted
    <3>2. /\ Cardinality(OfKind(k) \cap granted) <= Cardinality((OfKind(k) \cap granted)')
          /\ Cardinality(OfKind(k) \cap granted) \in Nat /\ Cardinality((OfKind(k) \cap granted)') \in Nat
      BY <1>3, <2>3, MoreGranted
    <3>3. Cardinality(Holders(k)) \in Nat /\ Holders(k) \subseteq Turns
      BY SetsOfTurns
    <3>4. CASE k = u.kind
      <4>1. Holders(k)' = Holders(k) \cup {t}
        BY <1>1, <2>w, <3>4, TurnMoves
      <4>2. Cardinality(Holders(k)') <= Cardinality(Holders(k)) + 1 /\ Cardinality(Holders(k)') \in Nat
        BY <3>3, <4>1, TurnJoins, SomeTurns
      <4>3. (OfKind(k) \cap granted)' = (OfKind(k) \cap granted) \cup {u.held}
        BY <1>2, <1>3, <2>3, <3>4
      <4>4. IsFiniteSet(OfKind(k) \cap granted)
        BY RowsFinite DEF OfKind
      <4>5. Cardinality((OfKind(k) \cap granted)') = Cardinality(OfKind(k) \cap granted) + 1
        BY <2>3, <4>3, <4>4, OneMore
      <4> QED
        BY ONLY <3>1, <3>2, <3>3, <4>2, <4>5
    <3>5. CASE k # u.kind
      <4>1. Holders(k)' = Holders(k) \ {t}
        BY <1>1, <2>w, <3>5, TurnMoves
      <4>2. Cardinality(Holders(k)') <= Cardinality(Holders(k)) /\ Cardinality(Holders(k)') \in Nat
        BY <3>3, <4>1, FewerTurns
      <4> QED
        BY ONLY <3>1, <3>2, <3>3, <4>2
    <3> QED
      BY <3>4, <3>5
  <2>5. ASSUME NEW k \in Gated PROVE Cardinality(Started(k)') + Cardinality(Executors(k)') <= used'[k]
    <3>1. Executors(k)' = Executors(k)
      <4>1. Executors(k)' = Executors(k) \ {t}
        BY <1>1, <2>w, TurnMoves
      <4>2. t \notin Executors(k)
        BY <1>2, <1>u DEF Executors
      <4> QED
        BY <4>1, <4>2
    <3> QED
      BY <1>2, <1>3, <3>1 DEF CInv, QuotaCounted, Kinds
  <2>6. ASSUME NEW k \in Gated, QuotaLimit > 0
        PROVE  used'[k] + Cardinality(InFlight(k)') <= QuotaLimit + Cardinality(Turns) - 1
    <3>1. InFlight(k)' \subseteq InFlight(k)
      <4>1. w.reply = "approve" /\ w.kind = k => t \in InFlight(k)
        BY <1>2, <1>u, <2>1 DEF InFlight
      <4>2. CASE w.reply = "approve" /\ w.kind = k
        <5>1. w.pc = "record"
          BY <2>2, <2>w, <4>2
        <5>2. InFlight(k)' = InFlight(k) \cup {t}
          BY <1>1, <2>w, <4>2, <5>1, TurnMoves
        <5> QED
          BY <4>1, <4>2, <5>2
      <4>3. CASE ~(w.reply = "approve" /\ w.kind = k)
        BY <1>1, <2>w, <4>3, TurnMoves
      <4> QED
        BY <4>2, <4>3
    <3>2. Cardinality(InFlight(k)') <= Cardinality(InFlight(k)) /\ Cardinality(InFlight(k)') \in Nat
      BY <3>1, SetsOfTurns, FewerTurns
    <3>3. /\ used[k] \in Nat /\ used'[k] = used[k] /\ Cardinality(Turns) \in Nat /\ QuotaLimit \in Nat
          /\ used[k] + Cardinality(InFlight(k)) <= QuotaLimit + Cardinality(Turns) - 1
          /\ Cardinality(InFlight(k)) \in Nat
      BY <1>2, <2>6, CountsTyped, TurnsFinite, SetsOfTurns DEF CInv, QuotaCounted
    <3> QED
      BY ONLY <3>2, <3>3
  <2>7. \A v \in Turns : turn'[v].pc = "record" => turn'[v].reply = "approve"
    <3>1. \A v \in Turns : turn'[v] = IF v = t THEN w ELSE turn[v]
      BY <2>1, CountsTyped DEF GoesOn
    <3> QED
      BY <2>1, <2>2, <3>1 DEF CInv, QuotaCounted
  <2> QED
    BY <2>4, <2>5, <2>6, <2>7 DEF ClaimsCounted, QuotaCounted
<1> QED
  BY <1>4, <1>5

(* The record makes recorded work of an overshoot. *)
LEMMA RecordCount ==
  ASSUME CInv, NEW t \in Turns, Record(t)
  PROVE  ClaimsCounted' /\ QuotaCounted'
<1>1. FInv
  BY DEF CInv
<1>u. PICK u \in TurnStates : u = turn[t] /\ Backed(u)
  BY <1>1, CountsTyped DEF FInv, TurnsBacked
<1>2. /\ u.pc = "record" /\ u.kind \in Gated /\ u.reply = "approve"
      /\ UNCHANGED <<flows, runs, granted>>
      /\ \A k \in Gated : used'[k] = used[k] + (IF k = u.kind THEN 1 ELSE 0)
  <2>1. u.pc = "record" /\ used' = [used EXCEPT ![u.kind] = @ + 1] /\ UNCHANGED <<flows, runs, granted>>
    BY <1>u DEF Record, Recorded
  <2>2. u.kind \in Gated
    BY <2>1, <1>u DEF Backed, TurnStates, Kinds
  <2>3. u.reply = "approve"
    BY <2>1, <1>u DEF CInv, QuotaCounted
  <2>4. used \in [Gated -> Nat]
    BY <1>1, Typed
  <2>5. \A k \in Gated : used'[k] = IF k = u.kind THEN used[k] + 1 ELSE used[k]
    BY <2>1, <2>2, <2>4
  <2> QED
    BY <2>1, <2>2, <2>3, <2>4, <2>5
<1>w. PICK w : GoesOn(t, w) /\ w.pc = "execute" /\ w.kind = u.kind /\ w.reply = u.reply
  <2>1. PICK w : w = [u EXCEPT !.pc = "execute"]
    OBVIOUS
  <2>2. GoesOn(t, w)
    BY <2>1, <1>u DEF Record, GoTo, GoesOn
  <2>3. w.pc = "execute" /\ w.kind = u.kind /\ w.reply = u.reply
    BY <2>1 DEF TurnStates
  <2> QED
    BY <2>2, <2>3
<1>3. \A k \in Kinds : OfKind(k)' = OfKind(k) /\ Started(k)' = Started(k)
  BY <1>2 DEF OfKind, Started
<1>4. \A k \in Kinds : Holders(k)' = Holders(k)
  <2> SUFFICES ASSUME NEW k \in Kinds PROVE Holders(k)' = Holders(k)
    OBVIOUS
  <2>1. t \in Holders(k) <=> u.kind = k
    BY <1>2, <1>u DEF Holders, Holding
  <2>2. CASE u.kind = k
    <3>1. Holders(k)' = Holders(k) \cup {t}
      BY <1>1, <1>w, <2>2, TurnMoves DEF Holding
    <3> QED
      BY <2>1, <2>2, <3>1
  <2>3. CASE u.kind # k
    <3>1. Holders(k)' = Holders(k) \ {t}
      BY <1>1, <1>w, <2>3, TurnMoves
    <3> QED
      BY <2>1, <2>3, <3>1
  <2> QED
    BY <2>2, <2>3
<1>5. ClaimsCounted'
  BY <1>2, <1>3, <1>4 DEF CInv, ClaimsCounted
<1>6. ASSUME NEW k \in Gated
      PROVE  /\ Cardinality(Executors(k)') \in Nat
             /\ Cardinality(Executors(k)') <= Cardinality(Executors(k)) + (IF k = u.kind THEN 1 ELSE 0)
  <2>1. Executors(k) \subseteq Turns /\ Cardinality(Executors(k)) \in Nat
    BY SetsOfTurns
  <2>2. CASE k = u.kind
    <3>1. Executors(k)' = Executors(k) \cup {t}
      BY <1>1, <1>w, <2>2, TurnMoves
    <3> QED
      BY <2>1, <2>2, <3>1, TurnJoins, SomeTurns
  <2>3. CASE k # u.kind
    <3>1. Executors(k)' \subseteq Executors(k)
      BY <1>1, <1>w, <2>3, TurnMoves
    <3>2. Cardinality(Executors(k)') <= Cardinality(Executors(k)) /\ Cardinality(Executors(k)') \in Nat
      BY <2>1, <3>1, FewerTurns
    <3> QED
      BY <2>1, <2>3, <3>2
  <2> QED
    BY <2>2, <2>3
<1>7. ASSUME NEW k \in Gated PROVE Cardinality(Started(k)') + Cardinality(Executors(k)') <= used'[k]
  <2>1. /\ Cardinality(Started(k)) + Cardinality(Executors(k)) <= used[k] /\ used[k] \in Nat
        /\ Cardinality(Started(k)) \in Nat /\ Started(k)' = Started(k)
    BY <1>3, CountsTyped DEF CInv, QuotaCounted
  <2>2. used'[k] = used[k] + (IF k = u.kind THEN 1 ELSE 0)
    BY <1>2
  <2>3. /\ Cardinality(Executors(k)') \in Nat
        /\ Cardinality(Executors(k)') <= Cardinality(Executors(k)) + (IF k = u.kind THEN 1 ELSE 0)
    BY <1>6
  <2>4. Cardinality(Executors(k)) \in Nat
    BY SetsOfTurns
  <2> QED
    BY ONLY <2>1, <2>2, <2>3, <2>4
<1>8. ASSUME NEW k \in Gated, QuotaLimit > 0
      PROVE  used'[k] + Cardinality(InFlight(k)') <= QuotaLimit + Cardinality(Turns) - 1
  <2>1. /\ used[k] \in Nat /\ Cardinality(Turns) \in Nat /\ QuotaLimit \in Nat
        /\ used[k] + Cardinality(InFlight(k)) <= QuotaLimit + Cardinality(Turns) - 1
    BY <1>8, CountsTyped, TurnsFinite DEF CInv, QuotaCounted
  <2>2. used'[k] = used[k] + (IF k = u.kind THEN 1 ELSE 0)
    BY <1>2
  <2>3. InFlight(k)' = InFlight(k) \ {t} /\ (t \in InFlight(k) <=> k = u.kind)
    <3>1. InFlight(k)' = InFlight(k) \ {t}
      BY <1>1, <1>w, TurnMoves
    <3> QED
      BY <3>1, <1>2, <1>u DEF InFlight
  <2>4. InFlight(k) \subseteq Turns /\ Cardinality(InFlight(k)) \in Nat /\ Cardinality(InFlight(k)') \in Nat
    BY <2>3, SetsOfTurns, SomeTurns
  <2>5. Cardinality(InFlight(k)') = Cardinality(InFlight(k)) - (IF k = u.kind THEN 1 ELSE 0)
    <3>1. CASE k = u.kind
      BY <2>3, <2>4, <3>1, TurnLeaves
    <3>2. CASE k # u.kind
      <4>1. InFlight(k)' = InFlight(k)
        BY <2>3, <3>2
      <4> QED
        BY <2>4, <3>2, <4>1
    <3> QED
      BY <3>1, <3>2
  <2> QED
    BY ONLY <2>1, <2>2, <2>4, <2>5
<1>9. \A v \in Turns : turn'[v].pc = "record" => turn'[v].reply = "approve"
  <2>1. \A v \in Turns : turn'[v] = IF v = t THEN w ELSE turn[v]
    BY <1>w, CountsTyped DEF GoesOn
  <2> QED
    BY <1>w, <2>1 DEF CInv, QuotaCounted
<1> QED
  BY <1>5, <1>7, <1>8, <1>9 DEF QuotaCounted

LEMMA CountsStay ==
  ASSUME CInv, UNCHANGED <<turn, used, runs, granted>>, \A k \in Kinds : OfKind(k)' = OfKind(k)
  PROVE  ClaimsCounted' /\ QuotaCounted'
<1>1. \A k \in Kinds : Started(k)' = Started(k)
  BY DEF Started
<1>2. \A k : Holders(k)' = Holders(k) /\ Executors(k)' = Executors(k) /\ InFlight(k)' = InFlight(k)
  BY DEF Holders, Executors, InFlight
<1>3. ClaimsCounted'
  BY <1>1, <1>2 DEF CInv, ClaimsCounted
<1>4. QuotaCounted'
  BY <1>1, <1>2 DEF CInv, QuotaCounted, Kinds
<1> QED
  BY <1>3, <1>4

LEMMA NextCounts == CInv /\ [Next]_vars => CInv'
<1> SUFFICES ASSUME CInv, [Next]_vars PROVE ClaimsCounted' /\ QuotaCounted'
  BY NextKeeps DEF CInv
<1>1. CASE UNCHANGED vars
  BY <1>1, CountsStay DEF vars, OfKind
<1>2. ASSUME NEW t \in Turns, Start(t) \/ Step(t) \/ Die(t) PROVE ClaimsCounted' /\ QuotaCounted'
  <2>1. CASE ReadsOf(t)
    BY <2>1, ReadsCount
  <2>2. CASE SetsOf(t)
    BY <2>2, SetsCount, ResumeCount DEF SetsOf, Offer, PresentClarification, PresentPlan
  <2>3. CASE Claim(t)
    BY <2>3, ClaimCount
  <2>4. CASE Record(t)
    BY <2>4, RecordCount
  <2>5. CASE ActsOf(t)
    BY <2>5, ActsCount
  <2> QED
    BY <1>2, <2>1, <2>2, <2>3, <2>4, <2>5 DEF Step, ReadsOf, SetsOf, ActsOf
<1>3. ASSUME NEW i \in Ids, Expire(i) PROVE ClaimsCounted' /\ QuotaCounted'
  <2>1. \A j \in Ids : /\ flows'[j].kind = flows[j].kind
                       /\ flows'[j].status = "none" <=> flows[j].status = "none"
    BY <1>3, Typed DEF CInv, Expire, Rows
  <2>2. \A k \in Kinds : OfKind(k)' = OfKind(k)
    BY <2>1 DEF OfKind
  <2> QED
    BY <1>3, <2>2, CountsStay DEF Expire
<1> QED
  BY <1>1, <1>2, <1>3 DEF Next

LEMMA InitCounts == Init => CInv
<1> SUFFICES ASSUME Init PROVE CInv
  OBVIOUS
<1>1. FInv
  BY InitHolds
<1>2. ASSUME NEW k
      PROVE  Started(k) = {} /\ Holders(k) = {} /\ Executors(k) = {} /\ InFlight(k) = {} /\ OfKind(k) = {}
  <2>1. OfKind(k) = {}
    BY DEF Init, OfKind, NoRow
  <2>2. \A t \in Turns : turn[t].pc = "idle"
    BY IdleTyped DEF Init
  <2> QED
    BY <2>1, <2>2 DEF Started, Holders, Executors, InFlight, Holding
<1>3. IsFiniteSet({}) /\ Cardinality({}) = 0
  BY FS_EmptySet
<1>4. ClaimsCounted
  BY <1>2, <1>3 DEF ClaimsCounted
<1>5. \A k \in Gated : used[k] = 0
  BY DEF Init
<1>6. QuotaCounted
  <2>1. \A t \in Turns : turn[t].pc # "record"
    BY IdleTyped DEF Init
  <2>2. Cardinality(Turns) \in Nat /\ QuotaLimit \in Nat
    BY TurnsFinite, FS_CardinalityType
  <2>3. \A k \in Gated : Cardinality(Started(k)) = 0 /\ Cardinality(Executors(k)) = 0 /\ Cardinality(InFlight(k)) = 0
    BY <1>2, <1>3
  <2>4. \A k \in Gated : Cardinality(Started(k)) + Cardinality(Executors(k)) <= used[k]
    BY <1>5, <2>3
  <2>5. \A k \in Gated : QuotaLimit > 0 =>
           used[k] + Cardinality(InFlight(k)) <= QuotaLimit + Cardinality(Turns) - 1
    BY <1>5, <2>2, <2>3
  <2> QED
    BY <2>1, <2>4, <2>5 DEF QuotaCounted
<1> QED
  BY <1>1, <1>4, <1>6 DEF CInv

LEMMA CountsHold == Spec => []CInv
BY InitCounts, NextCounts, PTL DEF Spec

LEMMA Counted ==
  ASSUME CInv
  PROVE  ApprovalsBoundRuns /\ QuotaOvershoot
<1>1. OneClaimOneRun
  <2> SUFFICES ASSUME NEW k \in Kinds
               PROVE  Cardinality(Started(k)) <= Cardinality(OfKind(k) \cap granted)
    BY DEF OneClaimOneRun
  <2>1. /\ Cardinality(Started(k)) + Cardinality(Holders(k)) <= Cardinality(OfKind(k) \cap granted)
        /\ Cardinality(Started(k)) \in Nat /\ Cardinality(Holders(k)) \in Nat
    BY CountsTyped, SetsOfTurns DEF CInv, ClaimsCounted
  <2>2. Cardinality(OfKind(k) \cap granted) \in Nat
    BY RowsFinite DEF OfKind
  <2> QED
    BY ONLY <2>1, <2>2
<1>2. QuotaOvershoot
  <2> SUFFICES ASSUME NEW k \in Gated, QuotaLimit > 0
               PROVE  Cardinality(Started(k)) <= QuotaLimit + Cardinality(Turns) - 1
    BY DEF QuotaOvershoot
  <2>1. /\ Cardinality(Started(k)) + Cardinality(Executors(k)) <= used[k]
        /\ used[k] + Cardinality(InFlight(k)) <= QuotaLimit + Cardinality(Turns) - 1
    BY DEF CInv, QuotaCounted
  <2>2. /\ Cardinality(Started(k)) \in Nat /\ used[k] \in Nat
        /\ Cardinality(Turns) \in Nat /\ QuotaLimit \in Nat
    BY CountsTyped, TurnsFinite
  <2>3. Cardinality(Executors(k)) \in Nat /\ Cardinality(InFlight(k)) \in Nat
    BY SetsOfTurns
  <2> QED
    BY ONLY <2>1, <2>2, <2>3
<1> QED
  BY <1>1, <1>2 DEF CInv, FInv, ApprovalsBoundRuns

(* Duplicate clicks, replacement, expiry and dying turns: no plan is       *)
(* executed twice or without an approval, of each kind no more runs are    *)
(* started than rows were claimed by an approval or an answer, an approval *)
(* means one pending flow, and two turns never hold the same row           *)
(* (guided_flow_store.py set and consume).                                 *)
THEOREM ApprovalsBound == Spec => []ApprovalsBoundRuns
BY CountsHold, Counted, PTL

(* However many turns race past the check, a quota is exceeded by less     *)
(* than their number (QuotaService.check_windowed and record).             *)
THEOREM QuotaOvershootBounded == Spec => []QuotaOvershoot
BY CountsHold, Counted, PTL

-----------------------------------------------------------------------------
(* Every plan row is a OneShot offer. *)

PlanStep(i) == Plan(i)!Next \/ UNCHANGED Plan(i)!offer

(* A step that leaves the row where it is, or a row of another kind. *)
LEMMA StaysPut ==
  ASSUME NEW i \in Ids, flows[i].kind = flows'[i].kind,
         flows'[i].kind = "plan" => /\ runs'[i] = runs[i]
                                    /\ Carried(i)' <=> Carried(i)
                                    /\ flows'[i].status = "none" <=> flows[i].status = "none"
                                    /\ Open(i)' <=> Open(i)
                                    /\ flows'[i].status = "consumed" <=> flows[i].status = "consumed"
  PROVE  PlanStep(i)
<1>1. PlanState(i)' = PlanState(i)
  BY DEF PlanState
<1> QED
  BY <1>1 DEF PlanStep, Plan!offer

LEMMA PlanGivenUp ==
  ASSUME NEW i \in Ids, PlanState(i) \in {"offered", "taken"}, PlanState(i)' = "gone",
         flows'[i].kind = flows[i].kind, flows[i].kind = "plan" => runs'[i] = runs[i]
  PROVE  PlanStep(i)
BY DEF PlanStep, Plan!Next, Plan!GiveUp

LEMMA PlanPerformed ==
  ASSUME NEW i \in Ids, PlanState(i) = "taken", PlanState(i)' = "gone",
         flows[i].kind = "plan", flows'[i].kind = "plan", runs'[i] = runs[i] + 1
  PROVE  PlanStep(i)
BY DEF PlanStep, Plan!Next, Plan!Perform

LEMMA PlanTaken ==
  ASSUME NEW i \in Ids, PlanState(i) = "offered", PlanState(i)' = "taken",
         flows'[i].kind = flows[i].kind, flows[i].kind = "plan" => runs'[i] = runs[i]
  PROVE  PlanStep(i)
BY DEF PlanStep, Plan!Next, Plan!Take

(* A row is carried by the turn that moves, before and after, or by none. *)
CarriedBy(u, i) == u.pc \in {"record", "execute"} /\ u.held = i

LEMMA CarriedStays ==
  ASSUME NEW t \in Turns, NEW w, turn \in [Turns -> TurnStates], turn' = [turn EXCEPT ![t] = w],
         NEW i \in Ids, CarriedBy(w, i) <=> CarriedBy(turn[t], i)
  PROVE  Carried(i)' <=> Carried(i)
<1>1. \A v \in Turns : turn'[v] = IF v = t THEN w ELSE turn[v]
  OBVIOUS
<1> QED
  BY <1>1 DEF Carried, CarriedBy

LEMMA MovesStay ==
  ASSUME FInv, NEW t \in Turns, NEW w, turn' = [turn EXCEPT ![t] = w], UNCHANGED flows,
         NEW i \in Ids, flows[i].kind = "plan" => UNCHANGED runs[i] /\ (CarriedBy(w, i) <=> CarriedBy(turn[t], i))
  PROVE  PlanStep(i)
<1>1. CASE flows[i].kind = "plan"
  <2>1. Carried(i)' <=> Carried(i)
    BY <1>1, CarriedStays, Typed
  <2> QED
    BY <2>1, <1>1, StaysPut DEF Open
<1>2. CASE flows[i].kind # "plan"
  BY <1>2, StaysPut
<1> QED
  BY <1>1, <1>2

LEMMA ReadsStay ==
  ASSUME FInv, NEW t \in Turns, Start(t) \/ Peek(t) \/ Check(t) \/ Select(t) \/ Cap(t) \/ Record(t),
         NEW i \in Ids
  PROVE  PlanStep(i)
<1>1. turn \in [Turns -> TurnStates] /\ UNCHANGED <<flows, runs>>
  BY Typed DEF Start, Peek, Check, Select, Cap, Record
<1>2. CASE Record(t)
  <2>1. PICK w : w = [turn[t] EXCEPT !.pc = "execute"]
    OBVIOUS
  <2>2. turn' = [turn EXCEPT ![t] = w] /\ turn[t].pc = "record"
    BY <1>2, <2>1 DEF Record, GoTo
  <2>3. CarriedBy(w, i) <=> CarriedBy(turn[t], i)
    BY <1>1, <2>1, <2>2 DEF CarriedBy, TurnStates
  <2> QED
    BY <1>1, <2>2, <2>3, MovesStay
<1>3. CASE Start(t) \/ Peek(t) \/ Check(t) \/ Select(t) \/ Cap(t)
  <2>1. turn[t].pc \notin {"record", "execute"}
    BY <1>3 DEF Start, Peek, Check, Select, Cap
  <2>2. PICK w : turn' = [turn EXCEPT ![t] = w] /\ w.pc \notin {"record", "execute"}
    <3>1. \E w \in TurnStates : turn' = [turn EXCEPT ![t] = w] /\ w.pc \notin Holding
      BY <1>3, ReadsTurn DEF ReadsOf
    <3> QED
      BY <3>1 DEF Holding
  <2>3. CarriedBy(w, i) <=> CarriedBy(turn[t], i)
    BY <2>1, <2>2 DEF CarriedBy
  <2> QED
    BY <1>1, <2>2, <2>3, MovesStay
<1> QED
  BY <1>2, <1>3

LEMMA ClaimIsTake ==
  ASSUME FInv, NEW t \in Turns, Claim(t), NEW i \in Ids
  PROVE  PlanStep(i)
<1>1. flows \in [Ids -> Rows] /\ turn \in [Turns -> TurnStates]
  BY Typed
<1>u. PICK u \in TurnStates : u = turn[t]
  BY <1>1
<1>2. u.pc = "claim" /\ u.held \in Ids /\ UNCHANGED runs
  BY <1>u DEF Claim, FInv, TurnsBacked, Backed, OfKind
<1>w. PICK w : /\ turn' = [turn EXCEPT ![t] = w]
               /\ w.pc \in {"idle", "resume", "record"} /\ (w.pc = "record" => w.held = u.held)
  <2>1. ClaimedNext(u) \in {"idle", "resume", "record"}
    BY DEF ClaimedNext
  <2>2. PICK p \in {"idle", "resume", "record"} :
          turn' = [turn EXCEPT ![t] = IF p = "idle" THEN Idle ELSE [@ EXCEPT !.pc = p]]
    BY <2>1, <1>u DEF Claim, GoTo
  <2>3. PICK w : w = IF p = "idle" THEN Idle ELSE [u EXCEPT !.pc = p]
    OBVIOUS
  <2>4. w.pc = p /\ (p # "idle" => w.held = u.held)
    BY <2>3 DEF Idle, TurnStates
  <2> QED
    BY <1>1, <1>u, <2>2, <2>3, <2>4, Zenon
<1>3. CASE flows' = flows /\ ~Claimable(u.held)
  <2>1. turn' = [turn EXCEPT ![t] = Idle]
    BY <1>3, <1>u DEF Claim, GoTo
  <2>2. CarriedBy(Idle, i) <=> CarriedBy(turn[t], i)
    BY <1>2, <1>u DEF CarriedBy, Idle
  <2> QED
    BY <1>2, <1>3, <2>1, <2>2, MovesStay
<1>4. CASE flows' = [flows EXCEPT ![u.held].status = "consumed"] /\ Claimable(u.held)
  <2>1. \A j \in Ids : /\ flows'[j].kind = flows[j].kind
                       /\ flows'[j].status = IF j = u.held THEN "consumed" ELSE flows[j].status
    BY <1>1, <1>2, <1>4 DEF Rows
  <2>2. CASE i # u.held
    <3>1. CarriedBy(w, i) <=> CarriedBy(turn[t], i)
      BY <1>2, <1>u, <1>w, <2>2 DEF CarriedBy
    <3>2. Carried(i)' <=> Carried(i)
      BY <1>1, <1>w, <3>1, CarriedStays
    <3> QED
      BY <1>2, <2>1, <2>2, <3>2, StaysPut DEF Open
  <2>3. CASE i = u.held /\ flows[i].kind = "plan"
    <3>1. PlanState(i) = "offered"
      BY <1>4, <2>3 DEF PlanState, Claimable, Open
    <3>2. PlanState(i)' \in {"taken", "gone"}
      BY <2>1, <2>3 DEF PlanState, Open
    <3> QED
      BY <1>2, <2>1, <3>1, <3>2, PlanTaken, PlanGivenUp
  <2>4. CASE i = u.held /\ flows[i].kind # "plan"
    BY <2>1, <2>4, StaysPut
  <2> QED
    BY <2>2, <2>3, <2>4
<1> QED
  BY <1>3, <1>4, <1>u DEF Claim

(* What a turn holds is carried by it alone. *)
LEMMA OneCarrier ==
  ASSUME FInv, NEW t \in Turns, NEW u \in TurnStates, u = turn[t], u.pc \in Holding,
         NEW w, w.pc \notin {"record", "execute"}, turn' = [turn EXCEPT ![t] = w]
  PROVE  u.held \in OfKind(u.kind) /\ flows[u.held].status = "consumed" /\ ~Carried(u.held)'
<1>1. turn \in [Turns -> TurnStates]
  BY Typed
<1>2. \A v \in Turns : turn'[v] = IF v = t THEN w ELSE turn[v]
  BY <1>1
<1>3. ~Carried(u.held)'
  <2>1. ASSUME NEW v \in Turns PROVE ~(turn'[v].pc \in {"record", "execute"} /\ turn'[v].held = u.held)
    BY <1>2 DEF FInv, TurnsBacked, Holding
  <2> QED
    BY <2>1 DEF Carried
<1> QED
  BY <1>3 DEF FInv, TurnsBacked, Backed

(* An execution performs the plan that the turn holds. *)
LEMMA ActIsPerform ==
  ASSUME FInv, NEW t \in Turns, Act(t),
         NEW w, w.pc \in {"idle", "offer"}, turn' = [turn EXCEPT ![t] = w], NEW i \in Ids
  PROVE  PlanStep(i)
<1>1. turn \in [Turns -> TurnStates] /\ runs \in [Ids -> Nat]
  BY Typed
<1>u. PICK u \in TurnStates : u = turn[t]
  BY <1>1
<1>2. u.pc = "execute" /\ u.pc \in Holding /\ UNCHANGED flows
  BY <1>u DEF Act, Holding
<1>3. u.held \in OfKind(u.kind) /\ u.seen \in OfKind(u.kind) /\ u.held \in Ids /\ u.seen \in Ids
  BY <1>2, <1>u DEF FInv, TurnsBacked, Backed, Peeked, Holding, OfKind
<1>4. runs' = [runs EXCEPT ![ActedOn(u)] = @ + 1]
  BY <1>u DEF Act
<1>5. CASE flows[i].kind = "plan" /\ i = u.held
  <2>1. u.kind = "plan" /\ runs'[i] = runs[i] + 1
    BY <1>1, <1>3, <1>4, <1>5 DEF ActedOn, OfKind
  <2>2. flows[i].status = "consumed" /\ ~Carried(i)'
    BY <1>2, <1>5, <1>u, OneCarrier
  <2>3. Carried(i)
    BY <1>2, <1>5, <1>u DEF Carried
  <2>4. PlanState(i) = "taken" /\ PlanState(i)' = "gone"
    BY <1>2, <1>5, <2>2, <2>3 DEF PlanState, Open
  <2> QED
    BY <1>2, <1>5, <2>1, <2>4, PlanPerformed
<1>6. CASE flows[i].kind = "plan" /\ i # u.held
  <2>1. UNCHANGED runs[i]
    BY <1>1, <1>3, <1>4, <1>6 DEF ActedOn, OfKind
  <2>2. CarriedBy(w, i) <=> CarriedBy(turn[t], i)
    BY <1>6, <1>u DEF CarriedBy
  <2> QED
    BY <1>2, <2>1, <2>2, MovesStay
<1>7. CASE flows[i].kind # "plan"
  BY <1>2, <1>7, StaysPut
<1> QED
  BY <1>5, <1>6, <1>7

LEMMA DieIsGiveUp ==
  ASSUME FInv, NEW t \in Turns, Die(t), NEW i \in Ids
  PROVE  PlanStep(i)
<1>1. turn \in [Turns -> TurnStates]
  BY Typed
<1>u. PICK u \in TurnStates : u = turn[t]
  BY <1>1
<1>2. u.pc \in Holding /\ UNCHANGED <<flows, runs>> /\ turn' = [turn EXCEPT ![t] = Idle]
  BY <1>u DEF Die, GoTo, Holding
<1>3. CASE CarriedBy(u, i) /\ flows[i].kind = "plan"
  <2>1. flows[i].status = "consumed" /\ ~Carried(i)'
    BY <1>2, <1>3, <1>u, OneCarrier, IdleTyped DEF CarriedBy
  <2>2. Carried(i)
    BY <1>3, <1>u DEF Carried, CarriedBy
  <2>3. PlanState(i) = "taken" /\ PlanState(i)' = "gone"
    BY <1>2, <1>3, <2>1, <2>2 DEF PlanState, Open
  <2> QED
    BY <1>2, <2>3, PlanGivenUp
<1>4. CASE ~CarriedBy(u, i) \/ flows[i].kind # "plan"
  BY <1>2, <1>4, <1>u, MovesStay, IdleTyped DEF CarriedBy
<1> QED
  BY <1>3, <1>4

(* A row that is set is an offer, the row it replaces is withdrawn. *)
LEMMA SetIsOffer ==
  ASSUME FInv, NEW t \in Turns, SetsOf(t), NEW i \in Ids
  PROVE  PlanStep(i)
<1>1. flows \in [Ids -> Rows] /\ turn \in [Turns -> TurnStates] /\ runs \in [Ids -> Nat]
  BY Typed
<1>2. turn' = [turn EXCEPT ![t] = Idle] /\ turn[t].pc \notin {"record", "execute"}
  BY DEF SetsOf, Offer, Resume, PresentClarification, PresentPlan, GoTo
<1>3. Carried(i)' <=> Carried(i)
  <2>1. CarriedBy(Idle, i) <=> CarriedBy(turn[t], i)
    BY <1>2, IdleTyped DEF CarriedBy
  <2> QED
    BY <1>1, <1>2, <2>1, CarriedStays
<1>4. PICK row \in Rows : row.status = "pending" /\ SetRow(row)
  BY SetsRow
<1>5. PICK n \in Ids : Unused(n) /\ flows' = Replaced(n, row)
  BY <1>4 DEF SetRow
<1>6. /\ flows[n].status = "none" /\ flows'[n] = row
      /\ \A j \in Ids \ {n} : \/ flows'[j] = flows[j]
                              \/ Open(j) /\ flows'[j] = [flows[j] EXCEPT !.status = "replaced"]
  BY <1>4, <1>5, SetRows
<1>7. \A j \in Ids : runs'[j] = runs[j] \/ (flows[j].status # "none" /\ flows[j].kind # "plan")
  BY SetsRuns
<1>8. CASE i # n /\ flows'[i] = flows[i]
  BY <1>3, <1>7, <1>8, StaysPut DEF Open
<1>9. CASE i # n /\ Open(i) /\ flows'[i] = [flows[i] EXCEPT !.status = "replaced"]
  <2>1. flows'[i].kind = flows[i].kind /\ flows'[i].status = "replaced"
    BY <1>1, <1>9 DEF Rows
  <2>2. CASE flows[i].kind = "plan"
    <3>1. PlanState(i) = "offered" /\ PlanState(i)' = "gone"
      BY <1>9, <2>1, <2>2 DEF PlanState, Open
    <3> QED
      BY <1>7, <2>1, <3>1, PlanGivenUp
  <2> QED
    BY <2>1, <2>2, StaysPut
<1>10. CASE i = n
  <2>1. runs[i] = 0 /\ runs'[i] = runs[i] /\ PlanState(i) = "new"
    BY <1>6, <1>7, <1>10 DEF FInv, TurnsBacked, PlanState, Open
  <2>2. CASE row.kind = "plan"
    <3>1. PlanState(i)' = "offered" /\ flows'[i].kind = "plan"
      BY <1>4, <1>6, <1>10, <2>2 DEF PlanState, Open
    <3> QED
      BY <2>1, <3>1 DEF PlanStep, Plan!Next, Plan!Offer
  <2>3. CASE row.kind # "plan"
    <3>1. PlanState(i)' = "new" /\ flows'[i].kind # "plan"
      BY <1>6, <1>10, <2>3 DEF PlanState
    <3> QED
      BY <2>1, <3>1 DEF PlanStep, Plan!offer
  <2> QED
    BY <2>2, <2>3
<1> QED
  BY <1>6, <1>8, <1>9, <1>10

LEMMA ExpireStays ==
  ASSUME FInv, NEW j \in Ids, Expire(j), NEW i \in Ids
  PROVE  PlanStep(i)
<1>1. flows \in [Ids -> Rows]
  BY Typed
<1>2. /\ flows' = [flows EXCEPT ![j].status = "stale"] /\ flows[j].status = "pending"
      /\ UNCHANGED <<turn, runs>>
  BY DEF Expire
<1>3. flows'[i].kind = flows[i].kind /\ flows'[i].status = IF i = j THEN "stale" ELSE flows[i].status
  BY <1>1, <1>2 DEF Rows
<1> QED
  BY <1>2, <1>3, StaysPut DEF Open, Carried

LEMMA StepsAreOneShot ==
  ASSUME FInv, Next, NEW i \in Ids
  PROVE  PlanStep(i)
<1>1. ASSUME NEW t \in Turns, Start(t) \/ Step(t) \/ Die(t) PROVE PlanStep(i)
  <2>1. CASE ActsOf(t)
    BY <2>1, ActsTurn, ActIsPerform
  <2>2. CASE SetsOf(t)
    BY <2>2, SetIsOffer
  <2>3. CASE Claim(t)
    BY <2>3, ClaimIsTake
  <2>4. CASE Die(t)
    BY <2>4, DieIsGiveUp
  <2>5. CASE Start(t) \/ Peek(t) \/ Check(t) \/ Select(t) \/ Cap(t) \/ Record(t)
    BY <2>5, ReadsStay
  <2> QED
    BY <1>1, <2>1, <2>2, <2>3, <2>4, <2>5 DEF Step, SetsOf, ActsOf
<1>2. ASSUME NEW j \in Ids, Expire(j) PROVE PlanStep(i)
  BY <1>2, ExpireStays
<1> QED
  BY <1>1, <1>2 DEF Next

(* Whatever turns race, die or expire, every step on a plan is the offer,  *)
(* its one take, the one performance of its taker, or a giving up          *)
(* (guided_flow_store.py consume, _execute_approved_plan).                 *)
THEOREM PlansImplementOneShot == Spec => PlansAreOneShot
<1>1. Spec => []FInv
  BY InitHolds, NextKeeps, PTL DEF Spec
<1>2. Init => \A i \in Ids : Plan(i)!Init
  <2> SUFFICES ASSUME Init, NEW i \in Ids PROVE Plan(i)!Init
    OBVIOUS
  <2>1. flows[i] = NoRow /\ runs[i] = 0
    BY DEF Init
  <2> QED
    BY <2>1 DEF Plan!Init, PlanState, NoRow, Open
<1>3. FInv /\ [Next]_vars => [\A i \in Ids : Plan(i)!Next \/ UNCHANGED Plan(i)!offer]_vars
  BY StepsAreOneShot DEF PlanStep
<1> QED
  BY <1>1, <1>2, <1>3, PTL DEF Spec, PlansAreOneShot
=============================================================================
