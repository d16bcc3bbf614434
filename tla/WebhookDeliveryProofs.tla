------------------------ MODULE WebhookDeliveryProofs ------------------------
(***************************************************************************)
(* Proofs about WebhookDelivery, for any number of flushers, routers and   *)
(* operators.  A flusher writes a row by its id from what it read before   *)
(* its POST, a sweep inserts what it decided on an earlier state, and an   *)
(* operator what it checked before; each of these races may cost something *)
(* of the rows and destinations it is about, and the history variables say *)
(* which.  The theorems say that nothing is lost beyond that: each part    *)
(* has its own invariant on top of BaseInv.  Only the bound of the         *)
(* attempts column (RacesStayBounded) needs that there be two flushers at  *)
(* most: a third one can count a row's attempts past its budget.           *)
(***************************************************************************)
EXTENDS WebhookDelivery, FiniteSetTheorems, TLAPS

-----------------------------------------------------------------------------
(* What holds for any number of flushers, routers and operators: the       *)
(* types; the table is filled in the order of the ids, an absent row has   *)
(* no history; flushers and operators only know rows that exist; and the   *)
(* inserts that are on their way fit below the bound.                      *)
Live == 1 .. created
counts == <<posts, accepted, observed>>

RowsKept ==
    \A i \in Ids : /\ status[i] # Absent <=> i <= created
                   /\ i <= created => rows[i] \in Requests
                   /\ i > created => attempts[i] = 0 /\ posts[i] = 0 /\ i \notin accepted

InHand(f) == fpc[f] \in {"sent", "seen"}

HeldLive ==
    \A f \in Flushers : DOMAIN fbatch[f] \subseteq Live /\ (InHand(f) => fsent[f].id \in Live)

RoutersFit ==
    \A r \in Routers :
        /\ rpc[r] = "decide" => Len(rnew[r]) + Cardinality(rtodo[r]) <= Cardinality(Pairs)
        /\ \A p \in rtodo[r] : p[2] \in DOMAIN ralerts[r]
        /\ \A n \in DOMAIN rnew[r] : rnew[r][n].redrive_of = NoId

OperatorsFit == \A o \in Operators : opc[o] = "insert" => oroot[o] \in Live

Room == created + Reserved <= MaxDeliveries

BaseInv == WorkTypeOK /\ RowsKept /\ HeldLive /\ RoutersFit /\ OperatorsFit /\ Room

(* "delivered" is backed by an accepted POST, and so is the answer that a  *)
(* flusher is about to write.                                              *)
HonestInv ==
    /\ HonestDelivered
    /\ \A f \in Flushers : InHand(f) /\ fsent[f].ok => fsent[f].id \in accepted

(* No counter is ahead of the sweeps, and what a router is about to insert *)
(* has had its sweeps.                                                     *)
EscalationInv ==
    /\ NoEarlyEscalation
    /\ \A s \in Signals : occurrences[s] <= observed[s]
    /\ \A r \in Routers :
         /\ \A s \in DOMAIN ralerts[r] : ralerts[r][s].count <= observed[s]
         /\ \A n \in DOMAIN rnew[r] :
              LET new == rnew[r][n]
              IN  new.signal # Event => observed[new.signal] >= DestEscalateAfter[new.dest]

-----------------------------------------------------------------------------
(* What two flushers keep: of a settled row only one of them can still     *)
(* hold a copy, so nothing changes between its read and its write; a       *)
(* pending row has an attempt left.                                        *)
Settled(i) == status[i] \in {DELIVERED, FAILED}
Holds(f, i) == i \in DOMAIN fbatch[f] \/ (InHand(f) /\ fsent[f].id = i)

OneHolder ==
    \A i \in Live : Settled(i) => \A f, g \in Flushers : Holds(f, i) /\ Holds(g, i) => f = g

SeenStands ==
    \A f \in Flushers : fpc[f] = "seen" /\ fseen[f].status # PENDING =>
        /\ fseen[f].status = status[fsent[f].id] /\ Settled(fsent[f].id)
        /\ fseen[f].attempts = attempts[fsent[f].id]

BudgetLeft ==
    /\ \A i \in Live : /\ attempts[i] <= BudgetBound(i)
                       /\ status[i] = PENDING => attempts[i] < BudgetBound(i)
    /\ \A f \in Flushers :
         /\ \A i \in DOMAIN fbatch[f] : fbatch[f][i] < BudgetBound(i)
         /\ InHand(f) => /\ fsent[f].tries <= BudgetBound(fsent[f].id)
                         /\ fsent[f].budget <= BudgetBound(fsent[f].id)
                         /\ fsent[f].id \notin DOMAIN fbatch[f]

RaceInv == OneHolder /\ SeenStands /\ BudgetLeft

-----------------------------------------------------------------------------
(* What a flusher has in hand is out of its batch. *)
HandInv ==
    \A f \in Flushers :
        /\ InHand(f) => fsent[f].id \notin DOMAIN fbatch[f]
        /\ ~InHand(f) => fsent[f].id = NoId
        /\ fpc[f] = "ready" => DOMAIN fbatch[f] = {}

(* A row that nobody took from under a holder has one holder at most, and  *)
(* it is pending and as that holder read it.                               *)
AsRead(f, i) ==
    /\ status[i] = PENDING
    /\ i \in DOMAIN fbatch[f] => fbatch[f][i] = attempts[i]
    /\ InHand(f) /\ fsent[f].id = i => fsent[f].tries = attempts[i] + 1
    /\ fpc[f] = "seen" /\ fsent[f].id = i => fseen[f].status = PENDING /\ fseen[f].attempts = attempts[i]

LoneInv ==
    \A i \in Live : again[i] = 0 =>
        /\ \A f, g \in Flushers : Holds(f, i) /\ Holds(g, i) => f = g
        /\ \A f \in Flushers : Holds(f, i) => AsRead(f, i)

(* What is about to be opened by a sweep that has seen all there is has    *)
(* nothing open before it, but for the two races.                          *)
Alerts(i, d, s) == i \in Live /\ rows[i].redrive_of = NoId /\ rows[i].dest = d /\ rows[i].signal = s

BlindAfter(i) == {n \in blind : Alerts(n, rows[i].dest, rows[i].signal) /\ i < n}

OpenInOrder ==
    \A i, k \in Live :
        /\ status[i] = PENDING /\ rows[i].redrive_of = NoId /\ rows[i].signal # Event
        /\ Alerts(k, rows[i].dest, rows[i].signal) /\ i < k
        => again[i] > 0 \/ \E n \in BlindAfter(i) : n <= k

NewDue(r, n) ==
    LET new == rnew[r][n]
        p == <<new.dest, new.signal>>
    IN  new.signal # Event =>
          /\ p \notin met[r] =>
               \A i \in Live : Alerts(i, new.dest, new.signal) /\ status[i] = PENDING =>
                   again[i] > 0 \/ BlindAfter(i) # {}
          /\ p \notin rtodo[r]
          /\ \A m \in DOMAIN rnew[r] :
               rnew[r][m].dest = new.dest /\ rnew[r][m].signal = new.signal => m = n

NewAreDue ==
    \A r \in Routers : /\ rpc[r] = "ready" => DOMAIN rnew[r] = {}
                       /\ \A n \in DOMAIN rnew[r] : NewDue(r, n)

OpenInv == OpenInOrder /\ NewAreDue

(* The redrives of a row and those that operators have checked and are yet *)
(* to insert.                                                              *)
Inserting(i) == {o \in Operators : opc[o] = "insert" /\ oroot[o] = i}
OpenRedrives(i) == {k \in redrives(i) : status[k] = PENDING /\ again[k] = 0}

RedriveInv ==
    \A i \in Ids :
        /\ Cardinality(redrives(i)) + Cardinality(Inserting(i)) < AtLeast1(RedriveLimit) + Cardinality(Operators)
        /\ Cardinality(OpenRedrives(i)) + Cardinality(Inserting(i)) <= Cardinality(Operators)

(* A failure streak has a dead letter, be it that of a redrive's origin;   *)
(* a cooldown has its streak; and the health a flusher has read is that on *)
(* record unless an operator has cleared it.  Each may be lost where two   *)
(* flushers raced.                                                         *)
DeadLetterOf(d) == \E o \in Live : status[o] = FAILED /\ rows[o].redrive_of = NoId /\ rows[o].dest = d
Owed(d) == DeadLetterOf(d) \/ Undone(d)

Known(f) ==
    LET d == rows[fsent[f].id].dest
    IN  \/ d \in crossed
        \/ failures[d] = 0 /\ cooldown[d] = "unset"
        \/ failures[d] = fseen[f].failures /\ (cooldown[d] = "ahead" => fseen[f].cooldown = "ahead")

HealthInv ==
    /\ CooldownJustified
    /\ \A i \in Live : rows[i].redrive_of # NoId => Owed(rows[i].dest)
    /\ \A o \in Operators : opc[o] = "insert" => status[oroot[o]] = FAILED \/ Undone(rows[oroot[o]].dest)
    /\ \A d \in Dests : failures[d] # 0 => Owed(d)
    /\ \A f \in Flushers : fpc[f] = "seen" => Known(f)

(* A row's tries, counted by batches.  Its attempts stay below the budget  *)
(* and the batches that took it while it was held, but for the last try of *)
(* one that holds it alone; its posts, with those that are due, stay below *)
(* the attempts counted, or that a holder is to count, the lost ones and   *)
(* those batches.                                                          *)
Tries(f, i) == IF i \in DOMAIN fbatch[f] THEN fbatch[f][i] + 1 ELSE fsent[f].tries
Ceiling(i) == BudgetBound(i) + again[i]
Due(i) == {f \in Flushers : i \in DOMAIN fbatch[f]}
Slack(i) == again[i] + losses[i]

BudgetsHeld == \A f \in Flushers : InHand(f) => fsent[f].budget <= BudgetBound(fsent[f].id)

LastTry(f, i) ==
    /\ Tries(f, i) = Ceiling(i) /\ status[i] = PENDING
    /\ fpc[f] = "seen" /\ fsent[f].id = i => fseen[f].status = PENDING
    /\ \A g \in Flushers : Holds(g, i) => g = f

Countable(i) ==
    /\ attempts[i] <= Ceiling(i)
    /\ status[i] = PENDING => attempts[i] < Ceiling(i)
    /\ \A f \in Flushers : Holds(f, i) =>
         attempts[i] < Ceiling(i) /\ (Tries(f, i) < Ceiling(i) \/ LastTry(f, i))

AttemptsInv == BudgetsHeld /\ \A i \in Live : Countable(i)

Unwritten(i) ==
    /\ \E f \in Flushers : Holds(f, i)
    /\ \A f \in Flushers : Holds(f, i) =>
         /\ Tries(f, i) = attempts[i] + 1
         /\ fpc[f] = "seen" /\ fsent[f].id = i => fseen[f].attempts = attempts[i]

Posted(i) ==
    /\ \A f \in Flushers : Holds(f, i) => posts[i] + Cardinality(Due(i)) <= Tries(f, i) + Slack(i)
    /\ posts[i] + Cardinality(Due(i)) <= attempts[i] + Slack(i) \/ Unwritten(i)

PostsInv == \A i \in Live : Posted(i)

(* An accepted POST that was not lost or raced for is on record, or is in  *)
(* the hand of the one flusher that will write it.                         *)
AnswersInv ==
    \A i \in accepted : again[i] = 0 /\ losses[i] = 0 =>
        status[i] = DELIVERED \/ \E f \in Flushers : InHand(f) /\ fsent[f].id = i /\ fsent[f].ok

-----------------------------------------------------------------------------
(* Facts of the definitions. *)

Statuses == {Absent, PENDING, DELIVERED, FAILED}
Cooldowns == {"unset", "ahead", "past"}
Sents == [id : Ids \cup {NoId}, tries : Nat, ok : BOOLEAN, budget : Nat]
Seens == [status : Statuses, attempts : Nat, dest : BOOLEAN, failures : Nat, cooldown : Cooldowns]

LEMMA BoundsTyped == MaxDeliveries \in Nat /\ MaxSweeps \in Nat /\ MaxCrashes \in Nat
BY DeliveryAssumption

USE BoundsTyped

LEMMA StatusesDiffer ==
    /\ Absent # PENDING /\ Absent # DELIVERED /\ Absent # FAILED
    /\ PENDING # DELIVERED /\ PENDING # FAILED /\ DELIVERED # FAILED
BY DEF Absent, PENDING, DELIVERED, FAILED

LEMMA EmptyTyped ==
    NotSent \in Sents /\ NotSeen \in Seens /\ DOMAIN EmptyBatch = {} /\ DOMAIN NoAlerts = {}
BY DEF NotSent, NotSeen, Sents, Seens, Statuses, Cooldowns, EmptyBatch, NoAlerts, NoId, Absent

LEMMA SomeBudget == \A n \in Int : AtLeast1(n) \in Nat /\ AtLeast1(n) >= 1
BY DEF AtLeast1

LEMMA EffectiveBudget ==
  ASSUME NEW d \in Dests
  PROVE  LET b == effective_max_attempts(DestKind[d], DestMaxAttempts[d]) IN b \in Nat /\ b >= 1
<1>1. AtLeast1(GlobalMaxAttempts) \in Nat /\ AtLeast1(GlobalMaxAttempts) >= 1
  BY SomeBudget, DeliveryAssumption
<1>2. ASSUME DestMaxAttempts[d] # Unset
      PROVE  AtLeast1(DestMaxAttempts[d]) \in Nat /\ AtLeast1(DestMaxAttempts[d]) >= 1
  BY <1>2, SomeBudget, DeliveryAssumption
<1>3. ASSUME AdapterDefault[DestKind[d]] # Unset
      PROVE  AtLeast1(AdapterDefault[DestKind[d]]) \in Nat /\ AtLeast1(AdapterDefault[DestKind[d]]) >= 1
  <2>1. AdapterDefault[DestKind[d]] = 2
    BY <1>3, DeliveryAssumption DEF AdapterDefault, Kinds
  <2> QED
    BY <2>1, SomeBudget
<1> QED
  BY <1>1, <1>2, <1>3 DEF effective_max_attempts

LEMMA BudgetsOrdered ==
  ASSUME NEW i \in Ids, rows[i] \in Requests
  PROVE  /\ BudgetBound(i) \in Nat /\ BudgetBound(i) >= 1
         /\ Budget(rows[i].dest) \in Nat /\ Budget(rows[i].dest) <= BudgetBound(i)
<1>1. rows[i].dest \in Dests
  BY DEF Requests
<1> QED
  BY <1>1, EffectiveBudget, SomeBudget, DeliveryAssumption DEF BudgetBound, Budget

LEMMA OutcomeSettles == ASSUME NEW sent PROVE Outcome(sent) \in {PENDING, DELIVERED, FAILED}
BY DEF Outcome

LEMMA PairsFinite == IsFiniteSet(Pairs) /\ Cardinality(Pairs) \in Nat
                     /\ \A S \in SUBSET Dests : IsFiniteSet(S) /\ Cardinality(S) <= Cardinality(Pairs)
<1>1. Pairs = Dests \X Signals
  BY DEF Pairs
<1>2. /\ IsFiniteSet(Pairs)
      /\ Cardinality(Pairs) = Cardinality(Dests) * Cardinality(Signals)
  BY <1>1, FS_Product, DeliveryAssumption
<1>3. Cardinality(Signals) \in Nat /\ Cardinality(Signals) # 0 /\ Cardinality(Dests) \in Nat
  BY FS_CardinalityType, FS_EmptySet, DeliveryAssumption
<1>4. Cardinality(Dests) <= Cardinality(Dests) * Cardinality(Signals)
  <2> DEFINE a == Cardinality(Dests)
             b == Cardinality(Signals)
  <2>1. a \in Nat /\ b \in Nat /\ b >= 1
    BY <1>3
  <2> HIDE DEF a, b
  <2>2. a * b = a + a * (b - 1) /\ a * (b - 1) >= 0
    BY <2>1
  <2>3. a <= a * b
    BY <2>1, <2>2
  <2> QED
    BY <2>3 DEF a, b
<1>5. ASSUME NEW S \in SUBSET Dests
      PROVE  IsFiniteSet(S) /\ Cardinality(S) <= Cardinality(Dests) /\ Cardinality(S) \in Nat
  BY FS_Subset, FS_CardinalityType, DeliveryAssumption
<1> QED
  BY <1>2, <1>3, <1>4, <1>5, FS_CardinalityType

(* One element more, or fewer. *)
LEMMA OneMore ==
  ASSUME NEW S, IsFiniteSet(S), NEW x, x \notin S
  PROVE  IsFiniteSet(S \cup {x}) /\ Cardinality(S \cup {x}) = Cardinality(S) + 1
BY FS_AddElement

LEMMA OneLess ==
  ASSUME NEW S, IsFiniteSet(S), NEW x \in S
  PROVE  IsFiniteSet(S \ {x}) /\ Cardinality(S \ {x}) = Cardinality(S) - 1
BY FS_RemoveElement

(* The deliveries of an event as a sequence: one per destination. *)
LEMMA Ordered ==
  ASSUME NEW S, IsFiniteSet(S)
  PROVE  SetToSeq(S) \in Seq(S) /\ Len(SetToSeq(S)) = Cardinality(S)
<1>1. PICK n \in Nat : ExistsBijection(1..n, S)
  BY FS_NatBijection
<1>2. Cardinality(S) = n
  BY <1>1, FS_CountingElements
<1>3. PICK f \in [1..n -> S] : IsInjective(f)
  BY <1>1 DEF ExistsBijection, Bijection, Injection, IsInjective
<1>4. SetToSeq(S) \in [1..n -> S]
  BY <1>2, <1>3 DEF SetToSeq
<1> QED
  BY <1>2, <1>4

-----------------------------------------------------------------------------
(* BaseInv: the flushers. *)

LEMMA TypesUnfold ==
  ASSUME BaseInv
  PROVE  /\ fsent \in [Flushers -> Sents] /\ fseen \in [Flushers -> Seens]
         /\ status \in [Ids -> Statuses] /\ cooldown \in [Dests -> Cooldowns]
         /\ Live \subseteq Ids
         /\ \A i \in Live : status[i] # Absent /\ rows[i] \in Requests /\ rows[i].dest \in Dests
         /\ \A i \in Ids : status[i] # Absent => i \in Live
<1>1. created \in Nat /\ created <= MaxDeliveries /\ Live \subseteq Ids
  BY DEF BaseInv, WorkTypeOK, DeliveryTypeOK, Live, Ids
<1>2. \A i \in Live : status[i] # Absent /\ rows[i] \in Requests
  BY <1>1 DEF BaseInv, RowsKept, Live
<1>3. \A i \in Live : rows[i].dest \in Dests
  BY <1>2 DEF Requests
<1>4. \A i \in Ids : status[i] # Absent => i \in Live
  BY <1>1 DEF BaseInv, RowsKept, Live, Ids
<1> QED
  BY <1>1, <1>2, <1>3, <1>4
     DEF BaseInv, WorkTypeOK, DeliveryTypeOK, FlusherTypeOK, Sents, Seens, Statuses, Cooldowns

(* Where a flusher goes, and that it holds rows that exist. *)
LEMMA FlusherMoves ==
  ASSUME BaseInv, NEW f \in Flushers, NEW pc \in {"ready", "batch", "sent", "seen"}, NEW batch,
         NEW sent \in Sents, NEW seen \in Seens, FlusherAt(f, pc, batch, sent, seen), created' = created,
         DOMAIN batch \subseteq Live, \A i \in DOMAIN batch : batch[i] \in Nat,
         pc \in {"sent", "seen"} => sent.id \in Live
  PROVE  FlusherTypeOK' /\ HeldLive'
<1> USE DEF FlusherAt
<1>1. /\ fpc \in [Flushers -> {"ready", "batch", "sent", "seen"}]
      /\ fsent \in [Flushers -> Sents] /\ fseen \in [Flushers -> Seens]
  BY TypesUnfold DEF BaseInv, WorkTypeOK, FlusherTypeOK
<1>2. /\ fpc' \in [Flushers -> {"ready", "batch", "sent", "seen"}]
      /\ fsent' \in [Flushers -> Sents] /\ fseen' \in [Flushers -> Seens]
  BY <1>1
<1>3. Live' = Live /\ Live \subseteq Ids
  BY TypesUnfold DEF Live
<1>4. \A g \in Flushers : /\ fpc'[g] = IF g = f THEN pc ELSE fpc[g]
                          /\ fbatch'[g] = IF g = f THEN batch ELSE fbatch[g]
                          /\ fsent'[g] = IF g = f THEN sent ELSE fsent[g]
  BY <1>1 DEF BaseInv, WorkTypeOK, FlusherTypeOK
<1>5. \A g \in Flushers : /\ DOMAIN fbatch'[g] \subseteq Live
                          /\ \A i \in DOMAIN fbatch'[g] : fbatch'[g][i] \in Nat
  BY <1>4 DEF BaseInv, HeldLive, WorkTypeOK, FlusherTypeOK
<1>6. FlusherTypeOK'
  <2>1. DOMAIN fbatch' = Flushers
    BY DEF BaseInv, WorkTypeOK, FlusherTypeOK
  <2> QED
    BY <2>1, <1>2, <1>3, <1>5 DEF FlusherTypeOK, Sents, Seens, Statuses, Cooldowns
<1>7. HeldLive'
  BY <1>3, <1>4, <1>5 DEF BaseInv, HeldLive, InHand
<1> QED
  BY <1>6, <1>7

(* What a flusher does beside itself: it writes rows that exist and the    *)
(* health of destinations.                                                 *)
LEMMA FlusherFrame ==
  ASSUME BaseInv, FlusherTypeOK', HeldLive',
         UNCHANGED <<rows, created, recent, gone, disabled, occurrences, router, operator, sweeps, observed>>,
         status' \in [Ids -> Statuses], attempts' \in [Ids -> Nat], posts' \in [Ids -> Nat],
         accepted' \subseteq Ids, failures' \in [Dests -> Nat], cooldown' \in [Dests -> Cooldowns],
         crashes' \in 0 .. MaxCrashes,
         \A i \in Ids : status'[i] = Absent <=> status[i] = Absent,
         \A i \in Ids : i > created => /\ attempts'[i] = attempts[i] /\ posts'[i] = posts[i]
                                       /\ i \in accepted' => i \in accepted
  PROVE  BaseInv'
<1> USE DEF router, operator
<1>1. WorkTypeOK' /\ RouterTypeOK'
  BY DEF BaseInv, WorkTypeOK, DeliveryTypeOK, RouterTypeOK, Statuses, Cooldowns
<1>2. RowsKept'
  BY DEF BaseInv, RowsKept
<1>3. Reserved' = Reserved /\ Live' = Live
  BY DEF Reserved, Live
<1>4. RoutersFit' /\ OperatorsFit' /\ Room'
  BY <1>3 DEF BaseInv, RoutersFit, OperatorsFit, Room
<1> QED
  BY <1>1, <1>2, <1>4 DEF BaseInv

LEMMA NextItemMoves ==
  ASSUME BaseInv, NEW f \in Flushers, NEW batch, NextItem(f, batch), created' = created,
         DOMAIN batch \subseteq Live, \A i \in DOMAIN batch : batch[i] \in Nat
  PROVE  FlusherTypeOK' /\ HeldLive'
<1>1. CASE DOMAIN batch = {}
  BY <1>1, FlusherMoves, EmptyTyped DEF NextItem
<1>2. CASE DOMAIN batch # {}
  BY <1>2, FlusherMoves, EmptyTyped DEF NextItem
<1> QED
  BY <1>1, <1>2

LEMMA WithoutLess ==
  ASSUME NEW batch, NEW i
  PROVE  /\ DOMAIN Without(batch, i) = DOMAIN batch \ {i}
         /\ \A k \in DOMAIN batch \ {i} : Without(batch, i)[k] = batch[k]
BY DEF Without

LEMMA BatchIsPending ==
    /\ DOMAIN PendingBatch \subseteq {i \in Ids : status[i] = PENDING}
    /\ \A i \in DOMAIN PendingBatch : PendingBatch[i] = attempts[i]
BY DEF PendingBatch

LEMMA SelectBase == ASSUME BaseInv, NEW f \in Flushers, FlushSelect(f) PROVE BaseInv'
<1> USE DEF FlushSelect, delivery, destination, counts, history, flushHistory, routeHistory
<1>1. DOMAIN PendingBatch \subseteq Live /\ \A i \in DOMAIN PendingBatch : PendingBatch[i] \in Nat
  BY BatchIsPending, TypesUnfold, StatusesDiffer DEF BaseInv, WorkTypeOK, DeliveryTypeOK
<1>2. FlusherTypeOK' /\ HeldLive'
  BY <1>1, NextItemMoves
<1> QED
  BY <1>2, FlusherFrame, TypesUnfold DEF BaseInv, WorkTypeOK, DeliveryTypeOK

(* The row that a flusher posts next, and what it knows afterwards. *)
Sending(f, i, ok) == [id |-> i, tries |-> fbatch[f][i] + 1, ok |-> ok, budget |-> Budget(rows[i].dest)]

Sends(f, i, ok) ==
    /\ i \in DOMAIN fbatch[f] /\ ok \in BOOLEAN
    /\ rows[i].dest \in gone => ~ok
    /\ posts' = IF rows[i].dest \in gone THEN posts ELSE [posts EXCEPT ![i] = @ + 1]
    /\ accepted' = IF ok THEN accepted \cup {i} ELSE accepted
    /\ FlusherAt(f, "sent", Without(fbatch[f], i), Sending(f, i, ok), NotSeen)

LEMMA SendingOne ==
  ASSUME NEW f \in Flushers, FlushSend(f)
  PROVE  \E i \in DOMAIN fbatch[f], ok \in BOOLEAN : Sends(f, i, ok)
BY DEF FlushSend, Sends, Sending

LEMMA SendingTyped ==
  ASSUME BaseInv, NEW f \in Flushers, NEW i \in DOMAIN fbatch[f], NEW ok \in BOOLEAN
  PROVE  /\ i \in Live /\ i \in Ids /\ Sending(f, i, ok) \in Sents
         /\ Sending(f, i, ok).id = i /\ Sending(f, i, ok).tries = fbatch[f][i] + 1
         /\ Sending(f, i, ok).ok = ok /\ Sending(f, i, ok).budget = Budget(rows[i].dest)
<1>1. i \in Live /\ i \in Ids /\ rows[i] \in Requests
  BY TypesUnfold DEF BaseInv, HeldLive
<1>2. fbatch[f][i] \in Nat /\ Budget(rows[i].dest) \in Nat
  BY <1>1, BudgetsOrdered DEF BaseInv, WorkTypeOK, FlusherTypeOK
<1> QED
  BY <1>1, <1>2 DEF Sending, Sents

LEMMA SendBase == ASSUME BaseInv, NEW f \in Flushers, FlushSend(f) PROVE BaseInv'
<1>1. PICK i \in DOMAIN fbatch[f], ok \in BOOLEAN : Sends(f, i, ok)
  BY SendingOne
<1>2. i \in Live /\ i \in Ids /\ Sending(f, i, ok) \in Sents /\ Sending(f, i, ok).id = i
  BY SendingTyped
<1>3. /\ DOMAIN Without(fbatch[f], i) \subseteq Live
      /\ \A k \in DOMAIN Without(fbatch[f], i) : Without(fbatch[f], i)[k] \in Nat
  <2>1. DOMAIN fbatch[f] \subseteq Live /\ \A k \in DOMAIN fbatch[f] : fbatch[f][k] \in Nat
    BY DEF BaseInv, HeldLive, WorkTypeOK, FlusherTypeOK
  <2>2. /\ DOMAIN Without(fbatch[f], i) = DOMAIN fbatch[f] \ {i}
        /\ \A k \in DOMAIN fbatch[f] \ {i} : Without(fbatch[f], i)[k] = fbatch[f][k]
    BY WithoutLess
  <2> QED
    BY <2>1, <2>2
<1>4. FlusherTypeOK' /\ HeldLive'
  <2> DEFINE sent == Sending(f, i, ok)
  <2>1. sent \in Sents /\ sent.id \in Live /\ FlusherAt(f, "sent", Without(fbatch[f], i), sent, NotSeen)
    BY <1>1, <1>2 DEF Sends
  <2>2. created' = created
    BY DEF FlushSend, delivery
  <2> HIDE DEF sent
  <2> QED
    BY <1>3, <2>1, <2>2, FlusherMoves, EmptyTyped
<1>5. /\ posts' \in [Ids -> Nat] /\ accepted' \subseteq Ids
      /\ \A k \in Ids : k # i => posts'[k] = posts[k] /\ (k \in accepted' => k \in accepted)
  <2>1. posts \in [Ids -> Nat] /\ accepted \subseteq Ids
    BY DEF BaseInv, WorkTypeOK
  <2>2. posts' = posts \/ posts' = [posts EXCEPT ![i] = @ + 1]
    BY <1>1 DEF Sends
  <2>3. accepted' = accepted \/ accepted' = accepted \cup {i}
    BY <1>1 DEF Sends
  <2> QED
    BY <1>2, <2>1, <2>2, <2>3
<1>6. \A k \in Ids : k > created => k # i
  BY <1>2 DEF Live, Ids, BaseInv, WorkTypeOK, DeliveryTypeOK
<1> QED
  BY <1>4, <1>5, <1>6, FlusherFrame, TypesUnfold
     DEF FlushSend, delivery, destination, routeHistory, BaseInv, WorkTypeOK, DeliveryTypeOK

LEMMA ReadBase == ASSUME BaseInv, NEW f \in Flushers, FlushRead(f) PROVE BaseInv'
<1> USE DEF FlushRead, delivery, destination, counts, history, flushHistory, routeHistory
<1> DEFINE i == fsent[f].id
           d == rows[i].dest
           seen == [status |-> status[i], attempts |-> attempts[i], dest |-> d \notin gone,
                    failures |-> failures[d], cooldown |-> cooldown[d]]
<1>1. i \in Live /\ i \in Ids /\ d \in Dests
  BY TypesUnfold DEF BaseInv, HeldLive, InHand
<1>2. seen \in Seens
  BY <1>1, TypesUnfold DEF Seens, BaseInv, WorkTypeOK, DeliveryTypeOK
<1>3. FlusherAt(f, "seen", fbatch[f], fsent[f], seen)
  OBVIOUS
<1>4. fsent[f] \in Sents /\ fsent[f].id \in Live
  BY <1>1, TypesUnfold
<1>5. DOMAIN fbatch[f] \subseteq Live /\ \A k \in DOMAIN fbatch[f] : fbatch[f][k] \in Nat
  BY DEF BaseInv, HeldLive, WorkTypeOK, FlusherTypeOK
<1> HIDE DEF i, d, seen
<1>6. FlusherTypeOK' /\ HeldLive'
  BY <1>2, <1>3, <1>4, <1>5, FlusherMoves
<1> QED
  BY <1>6, FlusherFrame, TypesUnfold DEF BaseInv, WorkTypeOK, DeliveryTypeOK

LEMMA CrashBase == ASSUME BaseInv, NEW f \in Flushers, Crash(f) PROVE BaseInv'
<1> USE DEF Crash, delivery, destination, counts, history, flushHistory, routeHistory
<1>1. FlusherTypeOK' /\ HeldLive'
  BY FlusherMoves, EmptyTyped
<1>2. crashes' \in 0 .. MaxCrashes
  BY DEF BaseInv, WorkTypeOK
<1> QED
  BY <1>1, <1>2, FlusherFrame, TypesUnfold DEF BaseInv, WorkTypeOK, DeliveryTypeOK

(* What a flusher writes to the row and to its destination. *)
Writing(f, i, d) ==
    /\ status' = [status EXCEPT ![i] = Written(Outcome(fsent[f]), fseen[f].status, @)]
    /\ attempts' = [attempts EXCEPT ![i] = Written(fsent[f].tries, fseen[f].attempts, @)]
    /\ NextItem(f, fbatch[f])

Untouched(f) ==
    /\ UNCHANGED <<status, attempts, failures, cooldown>>
    /\ FlusherAt(f, "ready", EmptyBatch, NotSent, NotSeen)

Health(f, d) ==
    IF ~WritesDest(Outcome(fsent[f]), fseen[f]) THEN UNCHANGED <<failures, cooldown>>
    ELSE IF Outcome(fsent[f]) = DELIVERED
    THEN /\ failures' = [failures EXCEPT ![d] = Written(0, fseen[f].failures, @)]
         /\ cooldown' = [cooldown EXCEPT ![d] = Written("unset", fseen[f].cooldown, @)]
    ELSE /\ failures' = [failures EXCEPT ![d] = fseen[f].failures + 1]
         /\ cooldown' = [cooldown EXCEPT ![d] = IF Cools(Outcome(fsent[f]), fseen[f]) THEN "ahead" ELSE @]

LEMMA WritingOne ==
  ASSUME BaseInv, NEW f \in Flushers, FlushWrite(f)
  PROVE  LET i == fsent[f].id
             d == rows[i].dest
         IN  /\ i \in Live /\ d \in Dests
             /\ \/ Untouched(f) /\ d \in gone /\ WritesDest(Outcome(fsent[f]), fseen[f])
                \/ Writing(f, i, d) /\ Health(f, d)
<1>1. fsent[f].id \in Live
  BY DEF BaseInv, HeldLive, InHand, FlushWrite
<1>2. rows[fsent[f].id].dest \in Dests
  BY <1>1, TypesUnfold
<1>3. \/ Untouched(f) /\ rows[fsent[f].id].dest \in gone /\ WritesDest(Outcome(fsent[f]), fseen[f])
      \/ Writing(f, fsent[f].id, rows[fsent[f].id].dest) /\ Health(f, rows[fsent[f].id].dest)
  BY DEF FlushWrite, Untouched, Writing, Health
<1> QED
  BY <1>1, <1>2, <1>3

LEMMA HealthTyped ==
  ASSUME BaseInv, NEW f \in Flushers, NEW d \in Dests, Health(f, d)
  PROVE  failures' \in [Dests -> Nat] /\ cooldown' \in [Dests -> Cooldowns]
<1>1. /\ failures \in [Dests -> Nat] /\ cooldown \in [Dests -> Cooldowns]
      /\ fseen[f].failures \in Nat /\ fseen[f].cooldown \in Cooldowns
  BY TypesUnfold DEF BaseInv, WorkTypeOK, DeliveryTypeOK, Seens
<1> DEFINE won == Written(0, fseen[f].failures, failures[d])
           unset == Written("unset", fseen[f].cooldown, cooldown[d])
           ahead == IF Cools(Outcome(fsent[f]), fseen[f]) THEN "ahead" ELSE cooldown[d]
<1>2. won \in Nat /\ unset \in Cooldowns /\ ahead \in Cooldowns
  BY <1>1 DEF Written, Cooldowns
<1>3. \/ UNCHANGED <<failures, cooldown>>
      \/ failures' = [failures EXCEPT ![d] = won] /\ cooldown' = [cooldown EXCEPT ![d] = unset]
      \/ failures' = [failures EXCEPT ![d] = fseen[f].failures + 1] /\ cooldown' = [cooldown EXCEPT ![d] = ahead]
  BY <1>1 DEF Health
<1> HIDE DEF won, unset, ahead
<1> QED
  BY <1>1, <1>2, <1>3

LEMMA WriteBase == ASSUME BaseInv, NEW f \in Flushers, FlushWrite(f) PROVE BaseInv'
<1> DEFINE i == fsent[f].id
           d == rows[i].dest
           outcome == Written(Outcome(fsent[f]), fseen[f].status, status[i])
           tries == Written(fsent[f].tries, fseen[f].attempts, attempts[i])
<1>0. /\ UNCHANGED <<rows, created, recent, gone, disabled, occurrences, router, operator, sweeps, observed>>
      /\ UNCHANGED <<posts, accepted, crashes>>
  BY DEF FlushWrite, counts, history, flushHistory, routeHistory
<1>1. i \in Live /\ i \in Ids /\ d \in Dests
  BY WritingOne, TypesUnfold
<1>2. DOMAIN fbatch[f] \subseteq Live /\ \A k \in DOMAIN fbatch[f] : fbatch[f][k] \in Nat
  BY DEF BaseInv, HeldLive, WorkTypeOK, FlusherTypeOK
<1>3. status \in [Ids -> Statuses] /\ attempts \in [Ids -> Nat]
  BY TypesUnfold DEF BaseInv, WorkTypeOK, DeliveryTypeOK
<1>4. outcome \in Statuses \ {Absent} /\ tries \in Nat
  <2>1. Outcome(fsent[f]) \in Statuses \ {Absent} /\ status[i] \in Statuses \ {Absent}
    BY <1>1, TypesUnfold, OutcomeSettles, StatusesDiffer DEF Statuses
  <2>2. fsent[f].tries \in Nat /\ attempts[i] \in Nat
    BY <1>1, <1>3, TypesUnfold DEF Sents
  <2> QED
    BY <2>1, <2>2 DEF Written
<1>5. CASE Untouched(f)
  <2>1. FlusherTypeOK' /\ HeldLive'
    BY <1>0, <1>5, FlusherMoves, EmptyTyped DEF Untouched
  <2> QED
    BY <1>0, <1>5, <2>1, FlusherFrame, TypesUnfold DEF Untouched, BaseInv, WorkTypeOK, DeliveryTypeOK
<1>6. CASE Writing(f, i, d) /\ Health(f, d)
  <2>1. FlusherTypeOK' /\ HeldLive'
    BY <1>0, <1>2, <1>6, NextItemMoves DEF Writing
  <2>2. failures' \in [Dests -> Nat] /\ cooldown' \in [Dests -> Cooldowns]
    BY <1>1, <1>6, HealthTyped
  <2>3. status' = [status EXCEPT ![i] = outcome] /\ attempts' = [attempts EXCEPT ![i] = tries]
    BY <1>6 DEF Writing
  <2>4. status[i] # Absent
    BY <1>1, TypesUnfold
  <2> HIDE DEF outcome, tries, d
  <2>5. /\ status' \in [Ids -> Statuses] /\ attempts' \in [Ids -> Nat]
        /\ \A k \in Ids : status'[k] = Absent <=> status[k] = Absent
        /\ \A k \in Ids : k # i => attempts'[k] = attempts[k]
    BY <1>1, <1>3, <1>4, <2>3, <2>4
  <2>6. \A k \in Ids : k > created => k # i
    BY <1>1 DEF Live, Ids, BaseInv, WorkTypeOK, DeliveryTypeOK
  <2>7. posts' \in [Ids -> Nat] /\ accepted' \subseteq Ids /\ crashes' \in 0 .. MaxCrashes
    BY <1>0 DEF BaseInv, WorkTypeOK
  <2> QED
    BY <1>0, <2>1, <2>2, <2>5, <2>6, <2>7, FlusherFrame
<1> QED
  BY <1>5, <1>6, WritingOne

-----------------------------------------------------------------------------
(* BaseInv: the routers. *)

Alarms == [severity : Severities, count : Nat, was : Nat]

LEMMA RouterTypes ==
  ASSUME BaseInv, NEW r \in Routers
  PROVE  /\ DOMAIN ralerts[r] \subseteq Signals /\ \A s \in DOMAIN ralerts[r] : ralerts[r][s] \in Alarms
         /\ rdests[r] \subseteq Dests /\ rtodo[r] \subseteq Pairs /\ rnew[r] \in Seq(Requests)
         /\ \A n \in DOMAIN rnew[r] : rnew[r][n] \in Requests /\ rnew[r][n].dest \in Dests
<1>1. /\ DOMAIN ralerts[r] \subseteq Signals /\ \A s \in DOMAIN ralerts[r] : ralerts[r][s] \in Alarms
      /\ rdests[r] \subseteq Dests /\ rtodo[r] \subseteq Pairs /\ rnew[r] \in Seq(Requests)
  BY DEF BaseInv, WorkTypeOK, RouterTypeOK, Alarms
<1>2. \A n \in DOMAIN rnew[r] : rnew[r][n] \in Requests
  BY <1>1
<1>3. \A x \in Requests : x.dest \in Dests
  BY DEF Requests
<1> QED
  BY <1>1, <1>2, <1>3

(* Where a router goes, and that its inserts fit. *)
LEMMA RouterMoves ==
  ASSUME BaseInv, NEW r \in Routers, NEW pc \in {"ready", "decide"}, NEW alerts,
         NEW dests \in SUBSET Dests, NEW todo \in SUBSET Pairs, NEW new \in Seq(Requests),
         RouterAt(r, pc, alerts, dests, todo, new), UNCHANGED operator,
         DOMAIN alerts \subseteq Signals, \A s \in DOMAIN alerts : alerts[s] \in Alarms,
         pc = "decide" => Len(new) + Cardinality(todo) <= Cardinality(Pairs),
         \A p \in todo : p[2] \in DOMAIN alerts,
         \A n \in DOMAIN new : new[n].redrive_of = NoId
  PROVE  RouterTypeOK' /\ RoutersFit'
<1> USE DEF RouterAt, operator
<1>1. \A q \in Routers : /\ rpc'[q] = IF q = r THEN pc ELSE rpc[q]
                         /\ ralerts'[q] = IF q = r THEN alerts ELSE ralerts[q]
                         /\ rtodo'[q] = IF q = r THEN todo ELSE rtodo[q]
                         /\ rnew'[q] = IF q = r THEN new ELSE rnew[q]
  BY DEF BaseInv, WorkTypeOK, RouterTypeOK
<1>2. /\ rpc' \in [Routers -> {"ready", "decide"}] /\ DOMAIN ralerts' = Routers
      /\ rdests' \in [Routers -> SUBSET Dests] /\ rtodo' \in [Routers -> SUBSET Pairs]
      /\ rnew' \in [Routers -> Seq(Requests)]
  BY DEF BaseInv, WorkTypeOK, RouterTypeOK
<1>3. \A q \in Routers : DOMAIN ralerts'[q] \subseteq Signals /\ \A s \in DOMAIN ralerts'[q] : ralerts'[q][s] \in Alarms
  BY <1>1, RouterTypes
<1>4. RouterTypeOK'
  BY <1>2, <1>3 DEF BaseInv, WorkTypeOK, RouterTypeOK, Alarms
<1>5. RoutersFit'
  BY <1>1 DEF BaseInv, RoutersFit
<1> QED
  BY <1>4, <1>5

Routing == {r \in Routers : rpc[r] # "ready"}

LEMMA RoutersCount ==
  IsFiniteSet(Routing) /\ Cardinality(Routing) \in Nat
  /\ IsFiniteSet({o \in Operators : opc[o] # "ready"}) /\ Cardinality({o \in Operators : opc[o] # "ready"}) \in Nat
<1>1. Routing \in SUBSET Routers /\ {o \in Operators : opc[o] # "ready"} \in SUBSET Operators
  BY DEF Routing
<1>2. IsFiniteSet(Routing) /\ IsFiniteSet({o \in Operators : opc[o] # "ready"})
  BY <1>1, FS_Subset, DeliveryAssumption
<1> QED
  BY <1>2, FS_CardinalityType

LEMMA ReservedTyped == Reserved \in Nat
<1>1. \A a, b, c \in Nat : a * b + c \in Nat
  OBVIOUS
<1> QED
  BY <1>1, RoutersCount, PairsFinite DEF Reserved, Routing

LEMMA ReserveMore ==
  ASSUME NEW r \in Routers, rpc[r] = "ready", rpc \in [Routers -> {"ready", "decide"}],
         rpc' = [rpc EXCEPT ![r] = "decide"], opc' = opc
  PROVE  Reserved' = Reserved + Cardinality(Pairs)
<1>1. Routing' = Routing \cup {r} /\ r \notin Routing
  BY DEF Routing
<1>2. Cardinality(Routing') = Cardinality(Routing) + 1
  BY <1>1, OneMore, RoutersCount
<1>3. \A a, b, c \in Nat : (a + 1) * b + c = a * b + c + b
  OBVIOUS
<1> QED
  BY <1>2, <1>3, RoutersCount, PairsFinite DEF Reserved, Routing

LEMMA ReserveLess ==
  ASSUME NEW r \in Routers, rpc[r] # "ready", rpc \in [Routers -> {"ready", "decide"}],
         rpc' = [rpc EXCEPT ![r] = "ready"], opc' = opc
  PROVE  Reserved = Reserved' + Cardinality(Pairs) /\ Reserved' \in Nat
<1>1. Routing' = Routing \ {r} /\ r \in Routing
  BY DEF Routing
<1>2. Cardinality(Routing') = Cardinality(Routing) - 1 /\ IsFiniteSet(Routing')
  BY <1>1, OneLess, RoutersCount
<1>3. Cardinality(Routing') \in Nat
  BY <1>2, FS_CardinalityType
<1>4. \A a, b, c \in Nat : (a + 1) * b + c = a * b + c + b /\ a * b + c \in Nat
  OBVIOUS
<1>5. Cardinality(Routing) = Cardinality(Routing') + 1
  BY <1>2, <1>3, RoutersCount
<1> QED
  BY <1>3, <1>4, <1>5, RoutersCount, PairsFinite DEF Reserved, Routing

(* The first step of a router leaves the tables alone. *)
LEMMA RouterFrame ==
  ASSUME BaseInv, RouterTypeOK', RoutersFit',
         UNCHANGED <<delivery, destination, occurrences, flusher, operator, crashes, posts, accepted>>,
         sweeps' \in 0 .. MaxSweeps, observed' \in [Signals -> Nat], created + Reserved' <= MaxDeliveries
  PROVE  BaseInv'
<1> USE DEF delivery, destination, flusher, operator
<1>1. WorkTypeOK'
  BY DEF BaseInv, WorkTypeOK, DeliveryTypeOK, FlusherTypeOK
<1>2. RowsKept' /\ HeldLive' /\ OperatorsFit' /\ Room'
  BY DEF BaseInv, RowsKept, HeldLive, InHand, OperatorsFit, Room, Live
<1> QED
  BY <1>1, <1>2 DEF BaseInv

(* What a sweep begins with: a count for each of its alerts, the           *)
(* destinations and the decisions to make.                                 *)
Began(r, alerts, dests, todo) ==
    /\ RouterAt(r, "decide", alerts, dests, todo, <<>>)
    /\ DOMAIN alerts \subseteq Signals /\ dests \subseteq Dests /\ todo \subseteq Pairs
    /\ \A s \in DOMAIN alerts : /\ alerts[s] \in Alarms /\ alerts[s].count <= occurrences[s] + 1
                                /\ observed'[s] = observed[s] + 1
    /\ \A p \in todo : p[2] \in DOMAIN alerts /\ p[1] \notin gone

LEMMA RouteBegins ==
  ASSUME BaseInv, NEW r \in Routers, RouteBegin(r)
  PROVE  /\ \E alerts, dests, todo : Began(r, alerts, dests, todo)
         /\ observed' \in [Signals -> Nat] /\ \A s \in Signals : observed'[s] >= observed[s]
<1>1. PICK seen \in SUBSET Signals \ {{}} :
       \E severity \in [seen -> {"warning", "critical"}], stale \in SUBSET seen, silenced \in SUBSET seen :
         /\ \A s \in stale : occurrences[s] > 0
         /\ RouterAt(r, "decide",
                [s \in seen |-> [severity |-> severity[s], count |-> NextCount(s, s \in stale),
                                 was |-> occurrences[s]]],
                {d \in Subscribed("alerts") : cooldown[d] = "ahead" \/ seen # silenced},
                {d \in Subscribed("alerts") : cooldown[d] # "ahead"} \X (seen \ silenced),
                <<>>)
         /\ observed' = [s \in Signals |-> IF s \in seen THEN observed[s] + 1 ELSE observed[s]]
  BY DEF RouteBegin
<1>2. PICK severity \in [seen -> {"warning", "critical"}], stale \in SUBSET seen, silenced \in SUBSET seen :
         /\ RouterAt(r, "decide",
                [s \in seen |-> [severity |-> severity[s], count |-> NextCount(s, s \in stale),
                                 was |-> occurrences[s]]],
                {d \in Subscribed("alerts") : cooldown[d] = "ahead" \/ seen # silenced},
                {d \in Subscribed("alerts") : cooldown[d] # "ahead"} \X (seen \ silenced),
                <<>>)
         /\ observed' = [s \in Signals |-> IF s \in seen THEN observed[s] + 1 ELSE observed[s]]
  BY <1>1
<1> DEFINE alerts == [s \in seen |-> [severity |-> severity[s], count |-> NextCount(s, s \in stale),
                                      was |-> occurrences[s]]]
           dests == {d \in Subscribed("alerts") : cooldown[d] = "ahead" \/ seen # silenced}
           asked == {d \in Subscribed("alerts") : cooldown[d] # "ahead"}
           todo == asked \X (seen \ silenced)
<1>3. /\ occurrences \in [Signals -> Nat] /\ observed \in [Signals -> Nat]
  BY DEF BaseInv, WorkTypeOK, DeliveryTypeOK
<1>4. /\ observed' \in [Signals -> Nat] /\ \A s \in Signals : observed'[s] >= observed[s]
      /\ \A s \in seen : observed'[s] = observed[s] + 1
  BY <1>2, <1>3
<1>5. \A s \in seen : alerts[s] \in Alarms /\ alerts[s].count <= occurrences[s] + 1
  <2> TAKE s \in seen
  <2>1. severity[s] \in Severities
    BY DEF Severities, SeverityRank
  <2>2. s \in Signals /\ occurrences[s] \in Nat
    BY <1>3
  <2>3. NextCount(s, s \in stale) \in Nat /\ NextCount(s, s \in stale) <= occurrences[s] + 1
    BY <2>2 DEF NextCount
  <2> QED
    BY <2>1, <2>2, <2>3 DEF Alarms
<1>6. DOMAIN alerts = seen /\ seen \subseteq Signals
  OBVIOUS
<1>7. dests \subseteq Dests /\ asked \subseteq Dests \ gone
  BY DEF Subscribed
<1>8. todo \subseteq Pairs /\ \A p \in todo : p[2] \in seen /\ p[1] \notin gone
  BY <1>6, <1>7 DEF Pairs
<1>9. RouterAt(r, "decide", alerts, dests, todo, <<>>)
  BY <1>2
<1> HIDE DEF alerts, dests, todo, asked
<1>10. Began(r, alerts, dests, todo)
  BY <1>4, <1>5, <1>6, <1>7, <1>8, <1>9 DEF Began
<1> QED
  BY <1>4, <1>10

LEMMA RouteBeginBase == ASSUME BaseInv, NEW r \in Routers, RouteBegin(r) PROVE BaseInv'
<1>1. PICK alerts, dests, todo : Began(r, alerts, dests, todo)
  BY RouteBegins
<1>2. Cardinality(todo) <= Cardinality(Pairs) /\ Cardinality(todo) \in Nat
  BY <1>1, FS_Subset, FS_CardinalityType, PairsFinite DEF Began
<1>3. /\ <<>> \in Seq(Requests) /\ Len(<<>>) = 0 /\ DOMAIN <<>> = {}
  OBVIOUS
<1>4. UNCHANGED operator /\ created + Reserved + Cardinality(Pairs) <= MaxDeliveries /\ rpc[r] = "ready"
  <2>1. /\ UNCHANGED <<delivery, destination, occurrences, flusher, operator, crashes, flushHistory, met, blind>>
        /\ created + Reserved + Cardinality(Pairs) <= MaxDeliveries /\ rpc[r] = "ready"
    BY Zenon DEF RouteBegin
  <2> QED
    BY <2>1
<1>5. RouterTypeOK' /\ RoutersFit'
  <2> DEFINE none == <<>>
  <2>1. none \in Seq(Requests) /\ Len(none) = 0 /\ DOMAIN none = {}
    BY <1>3
  <2>2. RouterAt(r, "decide", alerts, dests, todo, none)
    BY <1>1 DEF Began
  <2> HIDE DEF none
  <2>3. Len(none) + Cardinality(todo) <= Cardinality(Pairs)
    BY <1>2, <2>1, PairsFinite
  <2> QED
    BY <1>1, <1>4, <2>1, <2>2, <2>3, RouterMoves DEF Began
<1>6. Reserved' = Reserved + Cardinality(Pairs)
  BY <1>1, <1>4, ReserveMore DEF Began, RouterAt, operator, BaseInv, WorkTypeOK, RouterTypeOK
<1>7. sweeps' \in 0 .. MaxSweeps
  BY DEF RouteBegin, BaseInv, WorkTypeOK
<1>8. created + Reserved' <= MaxDeliveries
  BY <1>4, <1>6, ReservedTyped, PairsFinite DEF BaseInv, WorkTypeOK, DeliveryTypeOK
<1>9. UNCHANGED <<delivery, destination, occurrences, flusher, operator, crashes, flushHistory, met, blind>>
  BY Zenon DEF RouteBegin
<1> QED
  BY <1>5, <1>7, <1>8, <1>9, RouteBegins, RouterFrame DEF flushHistory

(* The deliveries of an event: no alerts, nothing to decide.               *)
Announced(r, dests, new) ==
    /\ RouterAt(r, "decide", NoAlerts, dests, {}, new)
    /\ dests \subseteq Dests /\ new \in Seq(Requests) /\ Len(new) <= Cardinality(Pairs)
    /\ \A n \in DOMAIN new : new[n].signal = Event /\ new[n].redrive_of = NoId /\ new[n].dest \notin gone

LEMMA EventBegins ==
  ASSUME NEW r \in Routers, EventBegin(r)
  PROVE  \E dests, new : Announced(r, dests, new)
<1> DEFINE cooling == {d \in Subscribed("events") : cooldown[d] = "ahead"}
           one(d) == [dest |-> d, signal |-> Event, severity |-> "info", redrive_of |-> NoId]
           all(wanted) == {one(d) : d \in wanted \ cooling}
<1>1. PICK wanted \in SUBSET Subscribed("events") :
          RouterAt(r, "decide", NoAlerts, cooling, {}, SetToSeq(all(wanted)))
  BY DEF EventBegin
<1> DEFINE some == wanted \ cooling
           S == all(wanted)
<1>2. some \subseteq Dests \ gone /\ cooling \subseteq Dests
  BY DEF Subscribed
<1>3. \A d \in Dests : /\ one(d) \in Requests /\ one(d).dest = d /\ one(d).signal = Event
                       /\ one(d).redrive_of = NoId
  BY DEF Requests, Severities, SeverityRank, NoId
<1>4. S \subseteq Requests /\ \A x \in S : x.signal = Event /\ x.redrive_of = NoId /\ x.dest \notin gone
  BY <1>2, <1>3
<1>5. IsFiniteSet(some) /\ Cardinality(some) <= Cardinality(Pairs) /\ Cardinality(some) \in Nat
  BY <1>2, PairsFinite, FS_CardinalityType
<1>6. IsFiniteSet(S) /\ Cardinality(S) <= Cardinality(some)
  <2>1. [d \in some |-> one(d)] \in Surjection(some, S)
    BY DEF Surjection
  <2> QED
    BY <1>5, <2>1, FS_Surjection
<1>7. SetToSeq(S) \in Seq(S) /\ Len(SetToSeq(S)) = Cardinality(S) /\ Cardinality(S) \in Nat
  BY <1>6, Ordered, FS_CardinalityType
<1> DEFINE new == SetToSeq(S)
<1>8. RouterAt(r, "decide", NoAlerts, cooling, {}, new)
  BY <1>1
<1> HIDE DEF cooling, S, some
<1>9. new \in Seq(Requests) /\ \A n \in DOMAIN new : new[n] \in S
  BY <1>4, <1>7
<1>10. Len(new) <= Cardinality(Pairs)
  BY <1>5, <1>6, <1>7, PairsFinite
<1> HIDE DEF new
<1> QED
  BY <1>2, <1>4, <1>8, <1>9, <1>10 DEF Announced

LEMMA EventBeginBase == ASSUME BaseInv, NEW r \in Routers, EventBegin(r) PROVE BaseInv'
<1>1. PICK dests, new : Announced(r, dests, new)
  BY EventBegins
<1>2. Cardinality({}) = 0 /\ Len(new) \in Nat
  BY <1>1, FS_EmptySet DEF Announced
<1>4. UNCHANGED operator /\ created + Reserved + Cardinality(Pairs) <= MaxDeliveries /\ rpc[r] = "ready"
  BY DEF EventBegin
<1>5. RouterTypeOK' /\ RoutersFit'
  BY <1>1, <1>2, <1>4, EmptyTyped, RouterMoves DEF Announced
<1>6. Reserved' = Reserved + Cardinality(Pairs)
  BY <1>1, <1>4, ReserveMore DEF Announced, RouterAt, operator, BaseInv, WorkTypeOK, RouterTypeOK
<1>7. sweeps' \in 0 .. MaxSweeps /\ observed' \in [Signals -> Nat]
  BY DEF EventBegin, counts, history, flushHistory, routeHistory, BaseInv, WorkTypeOK
<1>8. created + Reserved' <= MaxDeliveries
  BY <1>4, <1>6, ReservedTyped, PairsFinite DEF BaseInv, WorkTypeOK, DeliveryTypeOK
<1>9. UNCHANGED <<delivery, destination, occurrences, flusher, operator, crashes, history>>
  BY Zenon DEF EventBegin
<1>10. UNCHANGED <<posts, accepted>>
  BY <1>9 DEF counts, history, flushHistory, routeHistory
<1> QED
  BY <1>5, <1>7, <1>8, <1>9, <1>10, RouterFrame

(* One decision: the pair is done, and a delivery may be due. *)
Decides(r, p, new) ==
    LET d == p[1]
        s == p[2]
        request == [dest |-> d, signal |-> s, severity |-> ralerts[r][s].severity, redrive_of |-> NoId]
    IN  /\ p \in rtodo[r] /\ RouterAt(r, "decide", ralerts[r], rdests[r], rtodo[r] \ {p}, new)
        /\ met' = [met EXCEPT ![r] = @ \ {p}]
        /\ \/ new = rnew[r]
           \/ /\ alert_routing_decision(d, s, ralerts[r][s].severity, ralerts[r][s].count)
              /\ new = Append(rnew[r], request)

LEMMA RouteDecides ==
  ASSUME NEW r \in Routers, RouteDecide(r)
  PROVE  \E p, new : Decides(r, p, new)
<1>1. PICK p \in rtodo[r] :
         /\ RouterAt(r, "decide", ralerts[r], rdests[r], rtodo[r] \ {p},
                  IF alert_routing_decision(p[1], p[2], ralerts[r][p[2]].severity, ralerts[r][p[2]].count)
                  THEN Append(rnew[r], [dest |-> p[1], signal |-> p[2],
                                        severity |-> ralerts[r][p[2]].severity, redrive_of |-> NoId])
                  ELSE rnew[r])
         /\ met' = [met EXCEPT ![r] = @ \ {p}]
  BY DEF RouteDecide
<1> DEFINE due == alert_routing_decision(p[1], p[2], ralerts[r][p[2]].severity, ralerts[r][p[2]].count)
           more == Append(rnew[r], [dest |-> p[1], signal |-> p[2],
                                    severity |-> ralerts[r][p[2]].severity, redrive_of |-> NoId])
           new == IF due THEN more ELSE rnew[r]
<1>2. Decides(r, p, new)
  BY <1>1 DEF Decides
<1> QED
  BY <1>2

(* What a decision appends. *)
LEMMA DecidesTyped ==
  ASSUME BaseInv, NEW r \in Routers, NEW p, NEW new, Decides(r, p, new)
  PROVE  /\ p \in rtodo[r] /\ p[1] \in Dests /\ p[2] \in Signals /\ p[2] \in DOMAIN ralerts[r] /\ p = <<p[1], p[2]>>
         /\ new \in Seq(Requests)
         /\ \/ new = rnew[r]
            \/ \E x \in Requests :
                 /\ new = Append(rnew[r], x) /\ x.dest = p[1] /\ x.signal = p[2] /\ x.redrive_of = NoId
                 /\ alert_routing_decision(p[1], p[2], ralerts[r][p[2]].severity, ralerts[r][p[2]].count)
<1>1. /\ p \in Pairs /\ p[2] \in DOMAIN ralerts[r] /\ rnew[r] \in Seq(Requests)
      /\ ralerts[r][p[2]] \in Alarms /\ p \in rtodo[r]
  BY RouterTypes DEF BaseInv, RoutersFit, Decides
<1>2. p[1] \in Dests /\ p[2] \in Signals /\ p = <<p[1], p[2]>>
  BY <1>1 DEF Pairs
<1> DEFINE x == [dest |-> p[1], signal |-> p[2], severity |-> ralerts[r][p[2]].severity, redrive_of |-> NoId]
<1>3. x \in Requests /\ x.dest = p[1] /\ x.signal = p[2] /\ x.redrive_of = NoId
  BY <1>1, <1>2 DEF Requests, Alarms
<1>4. \/ new = rnew[r]
      \/ /\ new = Append(rnew[r], x)
         /\ alert_routing_decision(p[1], p[2], ralerts[r][p[2]].severity, ralerts[r][p[2]].count)
  BY DEF Decides
<1> HIDE DEF x
<1>5. new \in Seq(Requests)
  BY <1>1, <1>3, <1>4, SMTT(30)
<1> QED
  BY <1>1, <1>2, <1>3, <1>4, <1>5

LEMMA RouteDecideBase == ASSUME BaseInv, NEW r \in Routers, RouteDecide(r) PROVE BaseInv'
<1>1. PICK p, new : Decides(r, p, new)
  BY RouteDecides
<1>2. rpc[r] = "decide" /\ UNCHANGED operator
  BY DEF RouteDecide
<1>3. RouterAt(r, "decide", ralerts[r], rdests[r], rtodo[r] \ {p}, new)
  BY <1>1 DEF Decides
<1>4. /\ rtodo[r] \ {p} \in SUBSET Pairs /\ rdests[r] \in SUBSET Dests /\ rnew[r] \in Seq(Requests)
      /\ DOMAIN ralerts[r] \subseteq Signals /\ \A s \in DOMAIN ralerts[r] : ralerts[r][s] \in Alarms
      /\ \A q \in rtodo[r] \ {p} : q[2] \in DOMAIN ralerts[r]
      /\ \A n \in DOMAIN rnew[r] : rnew[r][n].redrive_of = NoId
      /\ Len(rnew[r]) + Cardinality(rtodo[r]) <= Cardinality(Pairs)
  BY <1>2, RouterTypes DEF BaseInv, RoutersFit
<1>5. new \in Seq(Requests) /\ Len(new) <= Len(rnew[r]) + 1
      /\ \A n \in DOMAIN new : new[n].redrive_of = NoId
  <2>1. CASE new = rnew[r]
    BY <1>4, <2>1
  <2>2. ASSUME NEW x \in Requests, new = Append(rnew[r], x), x.redrive_of = NoId
        PROVE  /\ new \in Seq(Requests) /\ Len(new) <= Len(rnew[r]) + 1
               /\ \A n \in DOMAIN new : new[n].redrive_of = NoId
    BY <1>4, <2>2
  <2> QED
    BY <1>1, <2>1, <2>2, DecidesTyped
<1>6. Cardinality(rtodo[r] \ {p}) = Cardinality(rtodo[r]) - 1 /\ Cardinality(rtodo[r]) \in Nat
  <2>1. IsFiniteSet(rtodo[r])
    BY RouterTypes, PairsFinite, FS_Subset
  <2>2. p \in rtodo[r]
    BY <1>1, DecidesTyped
  <2> QED
    BY <2>1, <2>2, OneLess, FS_CardinalityType
<1>7. Len(new) + Cardinality(rtodo[r] \ {p}) <= Cardinality(Pairs)
  BY <1>4, <1>5, <1>6, PairsFinite
<1>8. RouterTypeOK' /\ RoutersFit'
  BY <1>2, <1>3, <1>4, <1>5, <1>7, RouterMoves
<1>9. Reserved' = Reserved
  <2>1. rpc' = rpc /\ opc' = opc
    BY <1>2, <1>3 DEF RouterAt, operator, BaseInv, WorkTypeOK, RouterTypeOK
  <2> QED
    BY <2>1 DEF Reserved
<1> QED
  BY <1>8, <1>9, RouterFrame DEF RouteDecide, counts, history, flushHistory, routeHistory, BaseInv, WorkTypeOK, Room

(* What a commit of a sweep or an event inserts. *)
Fresh(r) == created + 1 .. created + Len(rnew[r])

Committed(r) ==
    /\ created' = created + Len(rnew[r])
    /\ rows' = [i \in Ids |-> IF i \in Fresh(r) THEN rnew[r][i - created] ELSE rows[i]]
    /\ status' = [i \in Ids |-> IF i \in Fresh(r) THEN PENDING ELSE status[i]]
    /\ recent' = recent \cup {i \in Fresh(r) : DestWindow[rnew[r][i - created].dest]}
    /\ occurrences' = [s \in Signals |->
            IF s \in DOMAIN ralerts[r] THEN Written(ralerts[r][s].count, ralerts[r][s].was, occurrences[s])
                                       ELSE occurrences[s]]
    /\ UNCHANGED attempts

LEMMA RouteCommits ==
  ASSUME NEW r \in Routers, RouteCommit(r)
  PROVE  UNCHANGED <<delivery, occurrences>> \/ Committed(r)
BY DEF RouteCommit, Committed, Fresh

(* An insert gives rows above the last to what was absent. *)
Grown ==
    /\ created' \in Nat /\ created' >= created /\ created' <= MaxDeliveries
    /\ \A i \in Ids : i <= created \/ i > created' => rows'[i] = rows[i] /\ status'[i] = status[i]
    /\ \A i \in Ids : i > created /\ i <= created' => rows'[i] \in Requests /\ status'[i] = PENDING
    /\ status' \in [Ids -> Statuses] /\ rows' \in [Ids -> Requests \cup {NoDelivery}]
    /\ recent' \subseteq Ids
    /\ UNCHANGED <<attempts, destination, flusher, sweeps, crashes, counts>>

LEMMA GrownKeeps ==
  ASSUME BaseInv, Grown, occurrences' \in [Signals -> Nat], RouterTypeOK'
  PROVE  WorkTypeOK' /\ RowsKept' /\ HeldLive'
<1> USE DEF Grown, destination, flusher, counts, history, flushHistory, routeHistory
<1>0. created \in Nat
  BY DEF BaseInv, WorkTypeOK, DeliveryTypeOK
<1>1. WorkTypeOK'
  <2>1. DeliveryTypeOK'
    BY DEF BaseInv, WorkTypeOK, DeliveryTypeOK, Statuses
  <2>2. FlusherTypeOK'
    BY DEF BaseInv, WorkTypeOK, FlusherTypeOK
  <2>3. UNCHANGED <<sweeps, crashes, posts, accepted, observed>>
    OBVIOUS
  <2> HIDE DEF Grown
  <2> QED
    BY <2>1, <2>2, <2>3 DEF BaseInv, WorkTypeOK
<1>2. RowsKept'
  <2> USE DEF RowsKept
  <2> TAKE i \in Ids
  <2>1. CASE i <= created
    BY <1>0, <2>1 DEF BaseInv, RowsKept, Ids
  <2>2. CASE i > created'
    BY <1>0, <2>2 DEF BaseInv, RowsKept, Ids
  <2>3. CASE i > created /\ i <= created'
    BY <1>0, <2>3, StatusesDiffer DEF BaseInv, RowsKept, Ids
  <2> QED
    BY <1>0, <2>1, <2>2, <2>3 DEF Ids
<1>3. Live \subseteq Live'
  BY <1>0 DEF Live
<1>4. HeldLive'
  BY <1>3 DEF BaseInv, HeldLive, InHand
<1> QED
  BY <1>1, <1>2, <1>4

LEMMA CommittedGrows ==
  ASSUME BaseInv, NEW r \in Routers, RouteCommit(r), Committed(r)
  PROVE  /\ Grown /\ occurrences' \in [Signals -> Nat] /\ created' = created + Len(rnew[r])
         /\ \A i \in Ids : i > created /\ i <= created' =>
                i - created \in DOMAIN rnew[r] /\ rows'[i] = rnew[r][i - created]
<1>1. /\ created \in Nat /\ rows \in [Ids -> Requests \cup {NoDelivery}] /\ status \in [Ids -> Statuses]
      /\ recent \subseteq Ids /\ occurrences \in [Signals -> Nat]
  BY DEF BaseInv, WorkTypeOK, DeliveryTypeOK, Statuses
<1>2. /\ rnew[r] \in Seq(Requests) /\ Len(rnew[r]) \in Nat
      /\ \A n \in 1 .. Len(rnew[r]) : rnew[r][n] \in Requests
      /\ \A s \in DOMAIN ralerts[r] : ralerts[r][s] \in Alarms
  BY RouterTypes
<1>3. Len(rnew[r]) <= Cardinality(Pairs) /\ rpc[r] = "decide" /\ rtodo[r] = {}
  BY <1>2, FS_EmptySet, PairsFinite DEF RouteCommit, BaseInv, RoutersFit
<1>4. /\ rpc' = [rpc EXCEPT ![r] = "ready"] /\ opc' = opc
      /\ UNCHANGED <<attempts, destination, flusher, sweeps, crashes, counts>>
  BY DEF RouteCommit, RouterDone, RouterAt, operator, Committed, counts, flushHistory
<1>5. Reserved = Reserved' + Cardinality(Pairs) /\ Reserved' \in Nat
  <2>1. rpc[r] # "ready" /\ rpc \in [Routers -> {"ready", "decide"}]
    BY <1>3 DEF BaseInv, WorkTypeOK, RouterTypeOK
  <2>2. rpc' = [rpc EXCEPT ![r] = "ready"] /\ opc' = opc
    BY <1>4
  <2> QED
    BY <2>1, <2>2, ReserveLess
<1>6. created' \in Nat /\ created' >= created /\ created' <= MaxDeliveries
  <2>1. created' = created + Len(rnew[r]) /\ created + Reserved <= MaxDeliveries
    BY DEF Committed, BaseInv, Room
  <2>2. created \in Nat /\ Len(rnew[r]) \in Nat /\ Len(rnew[r]) <= Cardinality(Pairs)
    BY <1>1, <1>2, <1>3
  <2> QED
    BY <2>1, <2>2, <1>5, PairsFinite
<1>7. /\ Fresh(r) = {i \in Ids : i > created /\ i <= created'}
      /\ \A i \in Fresh(r) : i - created \in 1 .. Len(rnew[r])
  BY <1>1, <1>2, <1>6 DEF Fresh, Ids, Committed
<1>8. /\ \A i \in Ids : i \in Fresh(r) => rows'[i] = rnew[r][i - created] /\ status'[i] = PENDING
      /\ \A i \in Ids : i \notin Fresh(r) => rows'[i] = rows[i] /\ status'[i] = status[i]
      /\ \A i \in Fresh(r) : rnew[r][i - created] \in Requests
  BY <1>2, <1>7 DEF Committed
<1>9. status' \in [Ids -> Statuses]
  BY <1>1 DEF Committed, Statuses
<1>10. rows' \in [Ids -> Requests \cup {NoDelivery}]
  BY <1>1, <1>8 DEF Committed
<1>11. recent' \subseteq Ids
  BY <1>1, <1>7 DEF Committed
<1>12. occurrences' \in [Signals -> Nat]
  <2>1. \A s \in DOMAIN ralerts[r] : ralerts[r][s].count \in Nat
    BY <1>2 DEF Alarms
  <2> DEFINE count(s) == IF s \in DOMAIN ralerts[r]
                         THEN Written(ralerts[r][s].count, ralerts[r][s].was, occurrences[s])
                         ELSE occurrences[s]
  <2>2. occurrences' = [s \in Signals |-> count(s)]
    BY DEF Committed
  <2>3. \A s \in Signals : count(s) \in Nat
    BY <1>1, <2>1 DEF Written
  <2> HIDE DEF count
  <2> QED
    BY <2>2, <2>3
<1>13. Grown
  <2>1. \A i \in Ids : i <= created \/ i > created' => i \notin Fresh(r)
    BY <1>1, <1>6, <1>7 DEF Ids
  <2>2. \A i \in Ids : i > created /\ i <= created' => i \in Fresh(r)
    BY <1>7
  <2> QED
    BY <1>4, <1>6, <1>8, <1>9, <1>10, <1>11, <2>1, <2>2 DEF Grown
<1> QED
  BY <1>2, <1>7, <1>8, <1>12, <1>13 DEF Committed

LEMMA RouteCommitBase == ASSUME BaseInv, NEW r \in Routers, RouteCommit(r) PROVE BaseInv'
<1>1. /\ RouterAt(r, "ready", NoAlerts, {}, {}, <<>>) /\ UNCHANGED operator
      /\ rpc[r] = "decide" /\ UNCHANGED <<destination, flusher, sweeps, crashes, counts>>
  BY DEF RouteCommit, RouterDone, counts, flushHistory
<1>2. RouterTypeOK' /\ RoutersFit'
  <2> DEFINE none == <<>>
  <2>1. none \in Seq(Requests) /\ DOMAIN none = {} /\ RouterAt(r, "ready", NoAlerts, {}, {}, none)
    BY <1>1
  <2> HIDE DEF none
  <2> QED
    BY <1>1, <2>1, EmptyTyped, RouterMoves
<1>3. rpc' = [rpc EXCEPT ![r] = "ready"] /\ opc' = opc /\ oroot' = oroot
  BY <1>1 DEF RouterAt, operator
<1>4. Reserved = Reserved' + Cardinality(Pairs) /\ Reserved' \in Nat
  BY <1>1, <1>3, ReserveLess DEF BaseInv, WorkTypeOK, RouterTypeOK
<1>5. created \in Nat /\ MaxDeliveries \in Nat /\ created + Reserved <= MaxDeliveries
  BY DEF BaseInv, WorkTypeOK, DeliveryTypeOK, Room
<1>6. CASE UNCHANGED <<delivery, occurrences>>
  <2>1. created' = created
    <3>1. UNCHANGED delivery
      BY <1>6
    <3> QED
      BY <3>1 DEF delivery
  <2>2. WorkTypeOK' /\ RowsKept' /\ HeldLive'
    <3> USE DEF delivery, destination, flusher, counts, history, flushHistory, routeHistory
    <3>1. DeliveryTypeOK'
      BY <1>1, <1>6 DEF BaseInv, WorkTypeOK, DeliveryTypeOK
    <3>2. FlusherTypeOK'
      BY <1>1, <1>6 DEF BaseInv, WorkTypeOK, FlusherTypeOK
    <3>3. WorkTypeOK'
      BY <1>1, <1>2, <3>1, <3>2 DEF BaseInv, WorkTypeOK
    <3>4. RowsKept' /\ HeldLive'
      BY <1>1, <1>6 DEF BaseInv, RowsKept, HeldLive, InHand, Live
    <3> QED
      BY <3>3, <3>4
  <2>3. OperatorsFit'
    <3>1. Live' = Live
      BY <2>1 DEF Live
    <3>2. OperatorsFit
      BY DEF BaseInv
    <3> QED
      BY <1>3, <3>1, <3>2 DEF OperatorsFit
  <2>4. Room'
    <3>1. Cardinality(Pairs) \in Nat
      BY PairsFinite
    <3>2. \A c, a, b \in Nat : c + (a + b) <= MaxDeliveries => c + a <= MaxDeliveries
      OBVIOUS
    <3>3. created + Reserved' <= MaxDeliveries
      BY <1>4, <1>5, <3>1, <3>2
    <3>4. created' + Reserved' <= MaxDeliveries
      BY <2>1, <3>3
    <3> QED
      BY <3>4 DEF Room
  <2> QED
    BY <1>2, <2>2, <2>3, <2>4 DEF BaseInv
<1>7. CASE Committed(r)
  <2>1. /\ Grown /\ occurrences' \in [Signals -> Nat] /\ created' = created + Len(rnew[r])
    BY <1>7, CommittedGrows
  <2>2. WorkTypeOK' /\ RowsKept' /\ HeldLive'
    BY <1>2, <2>1, GrownKeeps
  <2>3. OperatorsFit'
    BY <1>3, <1>5, <2>1 DEF BaseInv, OperatorsFit, Live, Grown
  <2>4. rtodo[r] = {} /\ Len(rnew[r]) \in Nat
    BY RouterTypes DEF RouteCommit
  <2>5. Len(rnew[r]) <= Cardinality(Pairs)
    BY <1>1, <2>4, FS_EmptySet, PairsFinite DEF BaseInv, RoutersFit
  <2>6. Room'
    BY <1>4, <1>5, <2>1, <2>4, <2>5, PairsFinite, SMTT(30) DEF Room
  <2> QED
    BY <1>2, <2>2, <2>3, <2>6 DEF BaseInv
<1> QED
  BY <1>6, <1>7, RouteCommits

-----------------------------------------------------------------------------
(* BaseInv: operators, destinations and time. *)

RedriveOf(o) == [rows[oroot[o]] EXCEPT !.redrive_of = oroot[o]]

LEMMA RedriveInserts ==
  ASSUME BaseInv, NEW o \in Operators, RedriveInsert(o)
  PROVE  LET i == oroot[o]
             k == created + 1
         IN  /\ Grown /\ i \in Live /\ i \in Ids /\ k \in Ids /\ created' = k
             /\ rows'[k] = RedriveOf(o) /\ RedriveOf(o) \in Requests
             /\ RedriveOf(o).redrive_of = i /\ RedriveOf(o).dest = rows[i].dest
             /\ RedriveOf(o).signal = rows[i].signal /\ i # NoId
             /\ \A j \in Ids : j # k => rows'[j] = rows[j] /\ status'[j] = status[j]
             /\ status'[k] = PENDING
<1>1. /\ created \in Nat /\ rows \in [Ids -> Requests \cup {NoDelivery}] /\ status \in [Ids -> Statuses]
      /\ recent \subseteq Ids
  BY DEF BaseInv, WorkTypeOK, DeliveryTypeOK, Statuses
<1>2. oroot[o] \in Live /\ oroot[o] \in Ids /\ rows[oroot[o]] \in Requests /\ oroot[o] # NoId
  BY TypesUnfold DEF RedriveInsert, BaseInv, OperatorsFit, NoId, Ids
<1>3. created + 1 <= MaxDeliveries
  <2>1. o \in {q \in Operators : opc[q] # "ready"}
    BY DEF RedriveInsert
  <2>2. Cardinality({q \in Operators : opc[q] # "ready"}) >= 1
    BY <2>1, RoutersCount, FS_EmptySet
  <2>3. \A a, b, c \in Nat : c >= 1 => a * b + c >= 1
    OBVIOUS
  <2>4. Reserved >= 1
    BY <2>2, <2>3, RoutersCount, PairsFinite DEF Reserved, Routing
  <2> QED
    BY <1>1, <2>4, ReservedTyped DEF BaseInv, Room
<1>4. created + 1 \in Ids
  BY <1>1, <1>3 DEF Ids
<1>5. /\ RedriveOf(o) \in Requests /\ RedriveOf(o).redrive_of = oroot[o]
      /\ RedriveOf(o).dest = rows[oroot[o]].dest /\ RedriveOf(o).signal = rows[oroot[o]].signal
  BY <1>2 DEF RedriveOf, Requests
<1>6. /\ created' = created + 1 /\ rows' = [rows EXCEPT ![created + 1] = RedriveOf(o)]
      /\ status' = [status EXCEPT ![created + 1] = PENDING]
      /\ UNCHANGED <<attempts, recent, destination, occurrences, flusher, router, sweeps, crashes, counts>>
  BY DEF RedriveInsert, RedriveOf, counts, history, flushHistory, routeHistory
<1>7. /\ \A j \in Ids : j # created + 1 => rows'[j] = rows[j] /\ status'[j] = status[j]
      /\ rows'[created + 1] = RedriveOf(o) /\ status'[created + 1] = PENDING
      /\ rows' \in [Ids -> Requests \cup {NoDelivery}] /\ status' \in [Ids -> Statuses]
  BY <1>1, <1>4, <1>5, <1>6 DEF Statuses
<1>8. Grown
  <2>1. \A i \in Ids : i <= created \/ i > created' => i # created + 1
    BY <1>1, <1>6 DEF Ids
  <2>2. \A i \in Ids : i > created /\ i <= created' => i = created + 1
    BY <1>1, <1>6 DEF Ids
  <2> QED
    BY <1>1, <1>3, <1>5, <1>6, <1>7, <2>1, <2>2 DEF Grown
<1> QED
  BY <1>2, <1>4, <1>5, <1>6, <1>7, <1>8

LEMMA RedriveInsertBase == ASSUME BaseInv, NEW o \in Operators, RedriveInsert(o) PROVE BaseInv'
<1>1. Grown /\ created' = created + 1
  BY RedriveInserts
<1>2. /\ UNCHANGED <<router, occurrences>> /\ opc' = [opc EXCEPT ![o] = "ready"]
      /\ oroot' = [oroot EXCEPT ![o] = NoId] /\ opc[o] = "insert"
  BY DEF RedriveInsert
<1>3. occurrences' \in [Signals -> Nat] /\ created \in Nat
  BY <1>2 DEF BaseInv, WorkTypeOK, DeliveryTypeOK
<1>4. RouterTypeOK' /\ RoutersFit'
  BY <1>2 DEF BaseInv, WorkTypeOK, RouterTypeOK, RoutersFit, router
<1>5. WorkTypeOK' /\ RowsKept' /\ HeldLive'
  BY <1>1, <1>3, <1>4, GrownKeeps
<1>6. OperatorsFit'
  BY <1>1, <1>2, <1>3 DEF BaseInv, WorkTypeOK, RouterTypeOK, OperatorsFit, Live
<1>7. Room'
  <2> DEFINE busy == {q \in Operators : opc[q] # "ready"}
             left == {q \in Operators : opc'[q] # "ready"}
  <2>1. left = busy \ {o} /\ o \in busy
    BY <1>2 DEF BaseInv, WorkTypeOK, RouterTypeOK
  <2>2. Cardinality(left) = Cardinality(busy) - 1 /\ Cardinality(busy) \in Nat /\ Cardinality(left) \in Nat
    <3>1. IsFiniteSet(busy) /\ Cardinality(busy) \in Nat
      BY RoutersCount
    <3> HIDE DEF busy, left
    <3> QED
      BY <2>1, <3>1, OneLess, FS_CardinalityType
  <2> DEFINE product == Cardinality(Routing) * Cardinality(Pairs)
  <2>3. product \in Nat
    <3>1. \A a, b \in Nat : a * b \in Nat
      OBVIOUS
    <3> QED
      BY <3>1, RoutersCount, PairsFinite
  <2>4. Reserved = product + Cardinality(busy)
    BY DEF Reserved, Routing
  <2>5. Reserved' = product + Cardinality(left)
    BY <1>2 DEF Reserved, Routing, router
  <2> HIDE DEF product, busy, left
  <2> QED
    BY <1>1, <1>3, <2>2, <2>3, <2>4, <2>5 DEF BaseInv, Room
<1> QED
  BY <1>4, <1>5, <1>6, <1>7 DEF BaseInv

LEMMA RedriveCheckBase == ASSUME BaseInv, NEW o \in Operators, RedriveCheck(o) PROVE BaseInv'
<1>1. PICK i \in Ids : MayRedrive(i) /\ oroot' = [oroot EXCEPT ![o] = i]
  BY DEF RedriveCheck
<1>2. /\ UNCHANGED <<delivery, destination, occurrences, flusher, router, sweeps, crashes, counts>>
      /\ opc[o] = "ready" /\ opc' = [opc EXCEPT ![o] = "insert"] /\ created + Reserved + 1 <= MaxDeliveries
  BY DEF RedriveCheck, counts, history, flushHistory, routeHistory
<1>3. i \in Live
  BY <1>1, TypesUnfold, StatusesDiffer DEF MayRedrive
<1>4. RouterTypeOK'
  BY <1>1, <1>2 DEF BaseInv, WorkTypeOK, RouterTypeOK, router
<1>5. WorkTypeOK'
  BY <1>2, <1>4 DEF BaseInv, WorkTypeOK, DeliveryTypeOK, FlusherTypeOK, delivery, destination, flusher, counts, history, flushHistory, routeHistory
<1>6. RowsKept' /\ HeldLive' /\ RoutersFit'
  BY <1>2 DEF BaseInv, RowsKept, HeldLive, InHand, RoutersFit, Live, delivery, flusher, router, counts, history, flushHistory, routeHistory
<1>7. OperatorsFit'
  BY <1>1, <1>2, <1>3 DEF BaseInv, WorkTypeOK, RouterTypeOK, OperatorsFit, Live, delivery
<1>8. Room'
  <2> DEFINE busy == {q \in Operators : opc[q] # "ready"}
             more == {q \in Operators : opc'[q] # "ready"}
  <2>1. more = busy \cup {o} /\ o \notin busy
    BY <1>2 DEF BaseInv, WorkTypeOK, RouterTypeOK
  <2>2. Cardinality(more) = Cardinality(busy) + 1 /\ Cardinality(busy) \in Nat
    <3>1. IsFiniteSet(busy) /\ Cardinality(busy) \in Nat
      BY RoutersCount
    <3> HIDE DEF busy, more
    <3> QED
      BY <2>1, <3>1, OneMore
  <2> DEFINE product == Cardinality(Routing) * Cardinality(Pairs)
  <2>3. product \in Nat
    <3>1. \A a, b \in Nat : a * b \in Nat
      OBVIOUS
    <3> QED
      BY <3>1, RoutersCount, PairsFinite
  <2>4. Reserved = product + Cardinality(busy)
    BY DEF Reserved, Routing
  <2>5. Reserved' = product + Cardinality(more)
    BY <1>2 DEF Reserved, Routing, router
  <2>6. created' = created /\ created \in Nat
    BY <1>2 DEF delivery, BaseInv, WorkTypeOK, DeliveryTypeOK
  <2> HIDE DEF product, busy, more
  <2> QED
    BY <1>2, <2>2, <2>3, <2>4, <2>5, <2>6 DEF Room
<1> QED
  BY <1>5, <1>6, <1>7, <1>8 DEF BaseInv

(* Operators that change a destination, and the passing of time, touch     *)
(* only the health of destinations and the windows of rows.                *)
WorldStep ==
    \/ WindowPasses
    \/ \E d \in Dests :
        \/ clear_cooldown(d) \/ CooldownEnds(d)
        \/ create_destination(d) \/ update_destination(d) \/ delete_destination(d)

LEMMA WorldRecords == ASSUME WorldStep PROVE UNCHANGED history
BY DEF WorldStep, WindowPasses, clear_cooldown, CooldownEnds, create_destination, update_destination,
       delete_destination

LEMMA WorldBase ==
  ASSUME BaseInv, WorldStep
  PROVE  /\ BaseInv'
         /\ UNCHANGED <<status, attempts, rows, created, occurrences, flusher, router, operator, counts>>
<1>1. /\ recent \subseteq Ids /\ gone \subseteq Dests /\ disabled \subseteq Dests
      /\ failures \in [Dests -> Nat] /\ cooldown \in [Dests -> Cooldowns]
  BY TypesUnfold DEF BaseInv, WorkTypeOK, DeliveryTypeOK
<1>2. /\ UNCHANGED <<status, attempts, rows, created, occurrences, flusher, router, operator>>
      /\ UNCHANGED <<sweeps, crashes, counts>>
      /\ recent' \subseteq Ids /\ gone' \subseteq Dests /\ disabled' \subseteq Dests
      /\ failures' \in [Dests -> Nat] /\ cooldown' \in [Dests -> Cooldowns]
  <2>1. CASE WindowPasses
    BY <1>1, <2>1 DEF WindowPasses, destination, counts, history, flushHistory, routeHistory
  <2>2. ASSUME NEW d \in Dests, clear_cooldown(d) \/ CooldownEnds(d) PROVE <1>2
    BY <1>1, <2>2 DEF clear_cooldown, CooldownEnds, delivery, Cooldowns, counts, history, flushHistory, routeHistory
  <2>3. ASSUME NEW d \in Dests, create_destination(d) \/ update_destination(d) PROVE <1>2
    BY <1>1, <2>3 DEF create_destination, update_destination, delivery, counts, history, flushHistory, routeHistory
  <2>4. ASSUME NEW d \in Dests, delete_destination(d) PROVE <1>2
    BY <1>1, <2>4 DEF delete_destination, delivery, Cooldowns, counts, history, flushHistory, routeHistory
  <2> QED
    BY <2>1, <2>2, <2>3, <2>4 DEF WorldStep
<1>3. DeliveryTypeOK'
  BY <1>2 DEF BaseInv, WorkTypeOK, DeliveryTypeOK, Cooldowns
<1>4. FlusherTypeOK' /\ RouterTypeOK'
  BY <1>2 DEF BaseInv, WorkTypeOK, FlusherTypeOK, RouterTypeOK, flusher, router, operator
<1>5. WorkTypeOK'
  BY <1>2, <1>3, <1>4 DEF BaseInv, WorkTypeOK, counts, history, flushHistory, routeHistory
<1>6. RowsKept' /\ HeldLive' /\ RoutersFit' /\ OperatorsFit' /\ Live' = Live
  BY <1>2 DEF BaseInv, RowsKept, HeldLive, InHand, RoutersFit, OperatorsFit, Live, flusher, router, operator, counts, history, flushHistory, routeHistory
<1>7. Room'
  BY <1>2 DEF BaseInv, Room, Reserved, router, operator
<1> QED
  BY <1>2, <1>5, <1>6, <1>7 DEF BaseInv

-----------------------------------------------------------------------------

LEMMA BaseInit == Init => BaseInv
<1> SUFFICES ASSUME Init PROVE BaseInv
  OBVIOUS
<1> USE DEF Init
<1>1. DeliveryTypeOK
  BY DEF DeliveryTypeOK
<1>2. FlusherTypeOK
  BY EmptyTyped, StatusesDiffer DEF FlusherTypeOK, Sents, Seens, Statuses, Cooldowns
<1>3. RouterTypeOK
  BY EmptyTyped DEF RouterTypeOK
<1>4. WorkTypeOK
  BY <1>1, <1>2, <1>3 DEF WorkTypeOK
<1>5. RowsKept
  BY DEF RowsKept, Ids
<1>6. HeldLive /\ RoutersFit /\ OperatorsFit
  BY EmptyTyped DEF HeldLive, InHand, RoutersFit, OperatorsFit
<1>7. Reserved = 0
  <2>1. Routing = {} /\ {o \in Operators : opc[o] # "ready"} = {}
    BY DEF Routing
  <2>2. \A b \in Nat : 0 * b + 0 = 0
    OBVIOUS
  <2> QED
    BY <2>1, <2>2, FS_EmptySet, PairsFinite DEF Reserved, Routing
<1>8. Room
  BY <1>7 DEF Room
<1> QED
  BY <1>4, <1>5, <1>6, <1>8 DEF BaseInv

(* The steps, by what they do to the table of deliveries.                  *)
LEMMA Steps ==
  ASSUME Next
  PROVE  \/ \E f \in Flushers : FlushSelect(f) \/ FlushSend(f) \/ FlushRead(f) \/ FlushWrite(f) \/ Crash(f)
         \/ \E r \in Routers : RouteBegin(r) \/ EventBegin(r) \/ RouteDecide(r) \/ RouteCommit(r)
         \/ \E o \in Operators : RedriveCheck(o) \/ RedriveInsert(o)
         \/ WorldStep
BY DEF Next, FlusherStep, WorldStep

LEMMA BaseStep == BaseInv /\ [Next]_vars => BaseInv'
<1>1. ASSUME BaseInv, Next PROVE BaseInv'
  BY <1>1, Steps, SelectBase, SendBase, ReadBase, WriteBase, CrashBase, RouteBeginBase, EventBeginBase,
     RouteDecideBase, RouteCommitBase, RedriveCheckBase, RedriveInsertBase, WorldBase
<1>2. ASSUME BaseInv, UNCHANGED vars PROVE BaseInv'
  <2> USE <1>2 DEF vars, delivery, destination, flusher, router, operator, counts, history, flushHistory, routeHistory
  <2>1. DeliveryTypeOK' /\ FlusherTypeOK' /\ RouterTypeOK'
    BY DEF BaseInv, WorkTypeOK, DeliveryTypeOK, FlusherTypeOK, RouterTypeOK
  <2>2. WorkTypeOK'
    BY <2>1 DEF BaseInv, WorkTypeOK
  <2>3. RowsKept' /\ HeldLive' /\ RoutersFit' /\ OperatorsFit'
    BY DEF BaseInv, RowsKept, HeldLive, InHand, RoutersFit, OperatorsFit, Live
  <2>4. Room'
    BY DEF BaseInv, Room, Reserved
  <2> QED
    BY <2>2, <2>3, <2>4 DEF BaseInv
<1> QED
  BY <1>1, <1>2

(* The invariant of the delivery tables and of everybody who works on them *)
(* (webhooks.py), for any number of flushers, routers and operators.       *)
THEOREM DeliveryInvariant == Spec => []BaseInv
BY BaseInit, BaseStep, PTL DEF Spec

-----------------------------------------------------------------------------
(* What each step of a flusher does to it and to the table, for the        *)
(* invariants that speak of the rows it holds.                             *)
Others(f) ==
    \A g \in Flushers : g # f => /\ fpc'[g] = fpc[g] /\ fbatch'[g] = fbatch[g]
                                 /\ fsent'[g] = fsent[g] /\ fseen'[g] = fseen[g]

TableStays == UNCHANGED <<status, attempts, rows, created>>

LEMMA FlusherGoes ==
  ASSUME BaseInv, NEW f \in Flushers, NEW pc, NEW batch, NEW sent, NEW seen,
         FlusherAt(f, pc, batch, sent, seen)
  PROVE  fpc'[f] = pc /\ fbatch'[f] = batch /\ fsent'[f] = sent /\ fseen'[f] = seen /\ Others(f)
<1>1. DOMAIN fpc = Flushers /\ DOMAIN fbatch = Flushers /\ DOMAIN fsent = Flushers /\ DOMAIN fseen = Flushers
  BY DEF BaseInv, WorkTypeOK, FlusherTypeOK
<1>2. /\ fpc' = [fpc EXCEPT ![f] = pc] /\ fbatch' = [fbatch EXCEPT ![f] = batch]
      /\ fsent' = [fsent EXCEPT ![f] = sent] /\ fseen' = [fseen EXCEPT ![f] = seen]
  BY DEF FlusherAt
<1> QED
  BY <1>1, <1>2 DEF Others

(* A flusher that has nothing in hand. *)
LEMMA NextItemGoes ==
  ASSUME BaseInv, NEW f \in Flushers, NEW batch, NextItem(f, batch)
  PROVE  /\ fpc'[f] \in {"ready", "batch"} /\ fsent'[f].id = NoId /\ Others(f)
         /\ DOMAIN fbatch'[f] = DOMAIN batch /\ \A i \in DOMAIN batch : fbatch'[f][i] = batch[i]
         /\ fpc'[f] = "ready" => DOMAIN batch = {}
<1>0. NotSent.id = NoId
  BY DEF NotSent
<1>1. CASE DOMAIN batch = {}
  <2>1. FlusherAt(f, "ready", EmptyBatch, NotSent, NotSeen)
    BY <1>1 DEF NextItem
  <2> QED
    BY <1>0, <1>1, <2>1, FlusherGoes, EmptyTyped
<1>2. CASE DOMAIN batch # {}
  <2>1. FlusherAt(f, "batch", batch, NotSent, NotSeen)
    BY <1>2 DEF NextItem
  <2> QED
    BY <1>0, <2>1, FlusherGoes
<1> QED
  BY <1>1, <1>2

LEMMA SelectDoes ==
  ASSUME BaseInv, NEW f \in Flushers, FlushSelect(f)
  PROVE  /\ fpc[f] = "ready" /\ fpc'[f] \in {"ready", "batch"} /\ fsent'[f].id = NoId
         /\ fpc'[f] = "ready" => DOMAIN fbatch'[f] = {}
         /\ Others(f) /\ TableStays
         /\ \A i \in DOMAIN fbatch'[f] : i \in Live /\ status[i] = PENDING /\ fbatch'[f][i] = attempts[i]
         /\ \A i \in Ids :
                again'[i] = IF i \in DOMAIN fbatch'[f] /\ Holders(i) # {} THEN again[i] + 1 ELSE again[i]
         /\ UNCHANGED <<destination, occurrences, router, operator, counts, losses, crossed, met, blind>>
<1>1. /\ fpc[f] = "ready" /\ NextItem(f, PendingBatch)
      /\ UNCHANGED <<delivery, destination, occurrences, router, operator, counts, losses, crossed, met, blind>>
      /\ again' = [i \in Ids |-> IF i \in DOMAIN PendingBatch /\ Holders(i) # {} THEN again[i] + 1 ELSE again[i]]
  BY DEF FlushSelect, counts, routeHistory
<1>2. \A i \in DOMAIN PendingBatch : i \in Live /\ status[i] = PENDING /\ PendingBatch[i] = attempts[i]
  BY BatchIsPending, TypesUnfold, StatusesDiffer
<1>3. /\ fpc'[f] \in {"ready", "batch"} /\ fsent'[f].id = NoId /\ Others(f)
      /\ DOMAIN fbatch'[f] = DOMAIN PendingBatch
      /\ \A i \in DOMAIN PendingBatch : fbatch'[f][i] = PendingBatch[i]
      /\ fpc'[f] = "ready" => DOMAIN PendingBatch = {}
  BY <1>1, NextItemGoes
<1> QED
  BY <1>1, <1>2, <1>3 DEF TableStays, delivery

LEMMA SendDoes ==
  ASSUME BaseInv, NEW f \in Flushers, FlushSend(f)
  PROVE  \E i \in Live, ok \in BOOLEAN :
           /\ i \in DOMAIN fbatch[f] /\ fpc[f] = "batch" /\ fpc'[f] = "sent" /\ Others(f) /\ TableStays
           /\ DOMAIN fbatch'[f] = DOMAIN fbatch[f] \ {i}
           /\ \A k \in DOMAIN fbatch'[f] : fbatch'[f][k] = fbatch[f][k]
           /\ fsent'[f] \in Sents /\ fsent'[f].id = i /\ fsent'[f].tries = fbatch[f][i] + 1
           /\ fsent'[f].ok = ok /\ fsent'[f].budget = Budget(rows[i].dest)
           /\ accepted' = IF ok THEN accepted \cup {i} ELSE accepted
           /\ rows[i].dest \in gone => ~ok
           /\ posts' = IF rows[i].dest \in gone THEN posts ELSE [posts EXCEPT ![i] = @ + 1]
           /\ UNCHANGED <<destination, occurrences, router, operator, losses, again, crossed, routeHistory>>
<1>1. PICK i \in DOMAIN fbatch[f], ok \in BOOLEAN : Sends(f, i, ok)
  BY SendingOne
<1> DEFINE sent == Sending(f, i, ok)
<1>2. /\ i \in Live /\ sent \in Sents /\ sent.id = i /\ sent.tries = fbatch[f][i] + 1
      /\ sent.ok = ok /\ sent.budget = Budget(rows[i].dest)
  BY SendingTyped
<1>3. FlusherAt(f, "sent", Without(fbatch[f], i), sent, NotSeen)
  BY <1>1 DEF Sends
<1> HIDE DEF sent
<1>4. fpc'[f] = "sent" /\ fbatch'[f] = Without(fbatch[f], i) /\ fsent'[f] = sent /\ Others(f)
  BY <1>3, FlusherGoes
<1>5. /\ fpc[f] = "batch" /\ TableStays
      /\ UNCHANGED <<destination, occurrences, router, operator, losses, again, crossed, routeHistory>>
  BY DEF FlushSend, TableStays, delivery
<1>6. /\ DOMAIN fbatch'[f] = DOMAIN fbatch[f] \ {i}
      /\ \A k \in DOMAIN fbatch'[f] : fbatch'[f][k] = fbatch[f][k]
  <2> DEFINE rest == Without(fbatch[f], i)
  <2>1. DOMAIN rest = DOMAIN fbatch[f] \ {i} /\ \A k \in DOMAIN fbatch[f] \ {i} : rest[k] = fbatch[f][k]
    BY WithoutLess
  <2>2. fbatch'[f] = rest
    BY <1>4
  <2> HIDE DEF rest
  <2> QED
    BY <2>1, <2>2
<1>7. /\ accepted' = IF ok THEN accepted \cup {i} ELSE accepted
      /\ rows[i].dest \in gone => ~ok
      /\ posts' = IF rows[i].dest \in gone THEN posts ELSE [posts EXCEPT ![i] = @ + 1]
  BY <1>1 DEF Sends
<1> QED
  BY <1>2, <1>4, <1>5, <1>6, <1>7

LEMMA ReadDoes ==
  ASSUME BaseInv, NEW f \in Flushers, FlushRead(f)
  PROVE  LET i == fsent[f].id
             d == rows[i].dest
         IN  /\ fpc[f] = "sent" /\ fpc'[f] = "seen" /\ i \in Live /\ Others(f) /\ TableStays
             /\ fbatch'[f] = fbatch[f] /\ fsent'[f] = fsent[f]
             /\ fseen'[f].status = status[i] /\ fseen'[f].attempts = attempts[i]
             /\ fseen'[f].dest = (d \notin gone)
             /\ fseen'[f].failures = failures[d] /\ fseen'[f].cooldown = cooldown[d]
             /\ UNCHANGED <<destination, occurrences, router, operator, history>>
<1> DEFINE i == fsent[f].id
           d == rows[i].dest
           seen == [status |-> status[i], attempts |-> attempts[i], dest |-> d \notin gone,
                    failures |-> failures[d], cooldown |-> cooldown[d]]
<1>1. /\ FlusherAt(f, "seen", fbatch[f], fsent[f], seen) /\ fpc[f] = "sent" /\ TableStays
      /\ UNCHANGED <<destination, occurrences, router, operator, history>>
  BY DEF FlushRead, TableStays, delivery
<1>2. i \in Live
  BY <1>1 DEF BaseInv, HeldLive, InHand
<1>3. /\ seen.status = status[i] /\ seen.attempts = attempts[i] /\ seen.dest = (d \notin gone)
      /\ seen.failures = failures[d] /\ seen.cooldown = cooldown[d]
  OBVIOUS
<1> HIDE DEF seen
<1>4. fpc'[f] = "seen" /\ fbatch'[f] = fbatch[f] /\ fsent'[f] = fsent[f] /\ fseen'[f] = seen /\ Others(f)
  BY <1>1, FlusherGoes
<1> QED
  BY <1>1, <1>2, <1>3, <1>4

(* A flusher that gives its batch up, killed or by a failing commit. *)
LEMMA StopDoes ==
  ASSUME BaseInv, NEW f \in Flushers, FlusherAt(f, "ready", EmptyBatch, NotSent, NotSeen)
  PROVE  fpc'[f] = "ready" /\ fsent'[f].id = NoId /\ Others(f) /\ DOMAIN fbatch'[f] = {}
BY FlusherGoes, EmptyTyped DEF NotSent

LEMMA CrashDoes ==
  ASSUME BaseInv, NEW f \in Flushers, Crash(f)
  PROVE  /\ fpc'[f] = "ready" /\ fsent'[f].id = NoId /\ Others(f) /\ DOMAIN fbatch'[f] = {} /\ TableStays
         /\ UNCHANGED <<destination, occurrences, router, operator, posts, accepted, again, crossed, routeHistory>>
         /\ fpc[f] \in {"batch", "sent", "seen"}
         /\ IF fpc[f] = "batch" THEN UNCHANGED losses ELSE LoseAnswer(fsent[f].id)
<1>1. /\ FlusherAt(f, "ready", EmptyBatch, NotSent, NotSeen) /\ TableStays
      /\ UNCHANGED <<destination, occurrences, router, operator, posts, accepted, again, crossed, routeHistory>>
      /\ fpc[f] # "ready" /\ IF fpc[f] = "batch" THEN UNCHANGED losses ELSE LoseAnswer(fsent[f].id)
  BY DEF Crash, TableStays, delivery
<1>2. fpc[f] \in {"batch", "sent", "seen"}
  BY <1>1 DEF BaseInv, WorkTypeOK, FlusherTypeOK
<1> QED
  BY <1>1, <1>2, StopDoes

LEMMA WriteDoes ==
  ASSUME BaseInv, NEW f \in Flushers, FlushWrite(f)
  PROVE  LET i == fsent[f].id
         IN  /\ fpc[f] = "seen" /\ i \in Live /\ Others(f)
             /\ fpc'[f] \in {"ready", "batch"} /\ fsent'[f].id = NoId
             /\ fpc'[f] = "ready" => DOMAIN fbatch'[f] = {}
             /\ UNCHANGED <<rows, created, gone, disabled, occurrences, router, operator, counts>>
             /\ UNCHANGED <<again, met, blind>>
             /\ \/ TableStays /\ DOMAIN fbatch'[f] = {} /\ LoseAnswer(i)
                \/ /\ DOMAIN fbatch'[f] = DOMAIN fbatch[f] /\ UNCHANGED losses
                   /\ \A k \in DOMAIN fbatch[f] : fbatch'[f][k] = fbatch[f][k]
                   /\ status'[i] = Written(Outcome(fsent[f]), fseen[f].status, status[i])
                   /\ attempts'[i] = Written(fsent[f].tries, fseen[f].attempts, attempts[i])
                   /\ \A k \in Ids : k # i => status'[k] = status[k] /\ attempts'[k] = attempts[k]
<1>1. /\ fpc[f] = "seen" /\ UNCHANGED <<rows, created, gone, disabled, occurrences, router, operator, counts>>
      /\ UNCHANGED <<again, met, blind>>
  BY DEF FlushWrite, counts, routeHistory
<1>2. fsent[f].id \in Live /\ fsent[f].id \in Ids
  BY WritingOne, TypesUnfold
<1>3. CASE Untouched(f) /\ LoseAnswer(fsent[f].id)
  <2>1. fpc'[f] = "ready" /\ fsent'[f].id = NoId /\ Others(f) /\ DOMAIN fbatch'[f] = {}
    BY <1>3, StopDoes DEF Untouched
  <2>2. TableStays
    BY <1>1, <1>3 DEF Untouched, TableStays
  <2> QED
    BY <1>1, <1>2, <1>3, <2>1, <2>2
<1>4. CASE Writing(f, fsent[f].id, rows[fsent[f].id].dest) /\ UNCHANGED losses
  <2>1. /\ fpc'[f] \in {"ready", "batch"} /\ fsent'[f].id = NoId /\ Others(f)
        /\ DOMAIN fbatch'[f] = DOMAIN fbatch[f]
        /\ \A k \in DOMAIN fbatch[f] : fbatch'[f][k] = fbatch[f][k]
        /\ fpc'[f] = "ready" => DOMAIN fbatch[f] = {}
    BY <1>4, NextItemGoes DEF Writing
  <2>2. DOMAIN status = Ids /\ DOMAIN attempts = Ids
    BY DEF BaseInv, WorkTypeOK, DeliveryTypeOK
  <2>3. /\ status'[fsent[f].id] = Written(Outcome(fsent[f]), fseen[f].status, status[fsent[f].id])
        /\ attempts'[fsent[f].id] = Written(fsent[f].tries, fseen[f].attempts, attempts[fsent[f].id])
        /\ \A k \in Ids : k # fsent[f].id => status'[k] = status[k] /\ attempts'[k] = attempts[k]
    BY <1>2, <1>4, <2>2 DEF Writing
  <2> QED
    BY <1>1, <1>2, <1>4, <2>1, <2>3
<1>5. \/ Untouched(f) /\ LoseAnswer(fsent[f].id)
      \/ Writing(f, fsent[f].id, rows[fsent[f].id].dest) /\ UNCHANGED losses
  BY DEF FlushWrite, Untouched, Writing
<1> QED
  BY <1>3, <1>4, <1>5

(* The destination is written only by a commit that succeeds, and then     *)
(* those who have read it and are yet to write it are on record.           *)
LEMMA WriteCrosses ==
  ASSUME BaseInv, NEW f \in Flushers, FlushWrite(f)
  PROVE  LET d == rows[fsent[f].id].dest
         IN  /\ d \in Dests /\ crossed \subseteq crossed'
             /\ \/ UNCHANGED <<failures, cooldown>>
                \/ /\ Writing(f, fsent[f].id, d) /\ Health(f, d)
                   /\ ReadByOther(f, d) => d \in crossed'
<1>1. rows[fsent[f].id].dest \in Dests
  BY WritingOne
<1> QED
  BY <1>1 DEF FlushWrite, Writing, Health

(* The other steps leave the flushers and what they hold alone; a sweep    *)
(* and a redrive add rows.                                                 *)
LEMMA OtherSteps ==
  ASSUME BaseInv, Next
  PROVE  \/ \E f \in Flushers : FlushSelect(f) \/ FlushSend(f) \/ FlushRead(f) \/ FlushWrite(f) \/ Crash(f)
         \/ TableStays /\ UNCHANGED <<flusher, flushHistory>>
         \/ Grown /\ UNCHANGED flushHistory
<1>1. ASSUME NEW r \in Routers, RouteBegin(r) \/ EventBegin(r)
      PROVE  TableStays /\ UNCHANGED <<flusher, flushHistory>>
  <2>1. CASE RouteBegin(r)
    <3>1. UNCHANGED <<delivery, destination, occurrences, flusher, operator, crashes, flushHistory, met, blind>>
      BY <2>1, Zenon DEF RouteBegin
    <3> QED
      BY <3>1 DEF TableStays, delivery, flushHistory
  <2>2. CASE EventBegin(r)
    <3>1. UNCHANGED <<delivery, destination, occurrences, flusher, operator, crashes, history>>
      BY <2>2, Zenon DEF EventBegin
    <3> QED
      BY <3>1 DEF TableStays, delivery, history
  <2> QED
    BY <1>1, <2>1, <2>2
<1>2. ASSUME NEW r \in Routers, RouteDecide(r) PROVE TableStays /\ UNCHANGED <<flusher, flushHistory>>
  BY <1>2 DEF RouteDecide, TableStays, delivery, history
<1>3. ASSUME NEW r \in Routers, RouteCommit(r)
      PROVE  (Grown /\ UNCHANGED flushHistory) \/ (TableStays /\ UNCHANGED <<flusher, flushHistory>>)
  <2>1. UNCHANGED <<flusher, flushHistory>>
    BY <1>3 DEF RouteCommit
  <2> QED
    BY <1>3, <2>1, RouteCommits, CommittedGrows DEF TableStays, delivery, history
<1>4. ASSUME NEW o \in Operators, RedriveCheck(o) PROVE TableStays /\ UNCHANGED <<flusher, flushHistory>>
  BY <1>4 DEF RedriveCheck, TableStays, delivery, history
<1>5. ASSUME NEW o \in Operators, RedriveInsert(o) PROVE Grown /\ UNCHANGED flushHistory
  BY <1>5, RedriveInserts DEF RedriveInsert, history
<1>6. ASSUME WorldStep PROVE TableStays /\ UNCHANGED <<flusher, flushHistory>>
  BY <1>6, WorldBase, WorldRecords DEF TableStays, history
<1> QED
  BY <1>1, <1>2, <1>3, <1>4, <1>5, <1>6, Steps

LEMMA GrownTable ==
  ASSUME BaseInv, Grown
  PROVE  /\ Live \subseteq Live' /\ UNCHANGED <<attempts, flusher, posts, accepted>>
         /\ \A i \in Live : rows'[i] = rows[i] /\ status'[i] = status[i]
         /\ \A i \in Live' \ Live : /\ i \in Ids /\ rows'[i] \in Requests /\ status'[i] = PENDING
                                    /\ attempts[i] = 0 /\ posts[i] = 0 /\ i \notin accepted
<1>1. created \in Nat /\ created <= MaxDeliveries /\ created' \in Nat /\ created' >= created
      /\ created' <= MaxDeliveries
  BY DEF Grown, BaseInv, WorkTypeOK, DeliveryTypeOK
<1>2. Live \subseteq Live' /\ Live' \subseteq Ids /\ \A i \in Live' \ Live : i > created /\ i <= created'
  BY <1>1 DEF Live, Ids
<1>3. \A i \in Live : i <= created /\ i \in Ids
  BY <1>1, <1>2 DEF Live
<1> QED
  BY <1>2, <1>3 DEF Grown, counts, history, flushHistory, routeHistory, BaseInv, RowsKept

LEMMA VarsStay ==
  ASSUME UNCHANGED vars
  PROVE  TableStays /\ UNCHANGED <<destination, occurrences, flusher, router, operator, counts, history>>
BY DEF vars, delivery, TableStays, counts, history, flushHistory, routeHistory

-----------------------------------------------------------------------------
(* HonestInv *)

LEMMA HonestStep == ASSUME BaseInv, HonestInv, [Next]_vars PROVE HonestInv'
<1>0. \A i \in Ids : status[i] = DELIVERED => i \in accepted
  BY DEF HonestInv, HonestDelivered
<1>1. \A f \in Flushers : InHand(f) /\ fsent[f].ok => fsent[f].id \in accepted
  BY DEF HonestInv
<1> USE DEF HonestInv, HonestDelivered
<1>2. ASSUME TableStays, UNCHANGED <<flusher, accepted>> PROVE HonestInv'
  BY <1>2 DEF TableStays, flusher, InHand
<1>3. ASSUME Grown PROVE HonestInv'
  <2>1. status' \in [Ids -> Statuses] /\ UNCHANGED <<flusher, accepted>>
    BY <1>3 DEF Grown, counts, history, flushHistory, routeHistory
  <2>2. \A i \in Ids : status'[i] = DELIVERED => status[i] = DELIVERED
    BY <1>3, StatusesDiffer DEF Grown, BaseInv, WorkTypeOK, DeliveryTypeOK, Ids
  <2> QED
    BY <2>1, <2>2 DEF flusher, InHand
<1>4. ASSUME NEW f \in Flushers, TableStays, accepted' = accepted, ~InHand(f)', Others(f) PROVE HonestInv'
  BY <1>4 DEF TableStays, Others, InHand
<1>5. ASSUME NEW f \in Flushers, FlushSelect(f) PROVE HonestInv'
  BY <1>4, <1>5, SelectDoes DEF InHand, counts
<1>6. ASSUME NEW f \in Flushers, Crash(f) PROVE HonestInv'
  BY <1>4, <1>6, CrashDoes DEF InHand
<1>7. ASSUME NEW f \in Flushers, FlushSend(f) PROVE HonestInv'
  <2>1. PICK i \in Live, ok \in BOOLEAN :
           /\ Others(f) /\ TableStays /\ fsent'[f].id = i /\ fsent'[f].ok = ok
           /\ accepted' = IF ok THEN accepted \cup {i} ELSE accepted
    BY <1>7, SendDoes
  <2>2. \A g \in Flushers : InHand(g)' /\ fsent'[g].ok => fsent'[g].id \in accepted'
    BY <2>1 DEF Others, InHand
  <2> QED
    BY <2>1, <2>2 DEF TableStays
<1>8. ASSUME NEW f \in Flushers, FlushRead(f) PROVE HonestInv'
  BY <1>8, ReadDoes DEF TableStays, Others, InHand, counts, history, flushHistory, routeHistory
<1>9. ASSUME NEW f \in Flushers, FlushWrite(f) PROVE HonestInv'
  <2>1. Others(f) /\ ~InHand(f)' /\ accepted' = accepted /\ fpc[f] = "seen" /\ fsent[f].id \in Live
    BY <1>9, WriteDoes DEF InHand, counts
  <2>2. CASE TableStays
    BY <1>4, <2>1, <2>2
  <2>3. ASSUME status'[fsent[f].id] = Written(Outcome(fsent[f]), fseen[f].status, status[fsent[f].id]),
               \A k \in Ids : k # fsent[f].id => status'[k] = status[k]
        PROVE  HonestInv'
    <3>1. Outcome(fsent[f]) = DELIVERED => fsent[f].ok
      BY StatusesDiffer DEF Outcome
    <3>2. Outcome(fsent[f]) = DELIVERED => fsent[f].id \in accepted
      BY <1>1, <2>1, <3>1 DEF InHand
    <3>3. \A k \in Ids : status'[k] = DELIVERED => k \in accepted
      BY <1>0, <2>3, <3>2 DEF Written
    <3>4. \A g \in Flushers : InHand(g)' /\ fsent'[g].ok => fsent'[g].id \in accepted
      BY <1>1, <2>1 DEF Others, InHand
    <3> QED
      BY <2>1, <3>3, <3>4
  <2> QED
    BY <1>9, <2>2, <2>3, WriteDoes
<1>10. CASE UNCHANGED vars
  BY <1>2, <1>10, VarsStay DEF counts, history, flushHistory, routeHistory
<1> QED
  BY <1>2, <1>3, <1>5, <1>6, <1>7, <1>8, <1>9, <1>10, OtherSteps DEF flushHistory

LEMMA HonestStart == ASSUME Init PROVE HonestInv
BY StatusesDiffer DEF Init, HonestInv, HonestDelivered, InHand

-----------------------------------------------------------------------------
(* EscalationInv *)

LEMMA EscalationStep == ASSUME BaseInv, EscalationInv, [Next]_vars PROVE EscalationInv'
<1>0. /\ observed \in [Signals -> Nat] /\ occurrences \in [Signals -> Nat]
      /\ DestEscalateAfter \in [Dests -> Nat]
  BY DeliveryAssumption DEF BaseInv, WorkTypeOK, DeliveryTypeOK
<1>1. ASSUME UNCHANGED <<status, rows, occurrences, router, observed>> PROVE EscalationInv'
  BY <1>1 DEF EscalationInv, NoEarlyEscalation, router
(* More sweeps never hurt. *)
<1>2. ASSUME NEW r \in Routers, NEW alerts, NEW new,
             observed' \in [Signals -> Nat], \A s \in Signals : observed'[s] >= observed[s],
             UNCHANGED <<status, rows, occurrences>>,
             \A q \in Routers \ {r} : ralerts'[q] = ralerts[q] /\ rnew'[q] = rnew[q],
             ralerts'[r] = alerts, rnew'[r] = new, DOMAIN alerts \subseteq Signals,
             \A s \in DOMAIN alerts : alerts[s].count \in Nat /\ alerts[s].count <= observed'[s],
             \A n \in DOMAIN new : /\ new[n] \in Requests
                                   /\ new[n].signal # Event => observed'[new[n].signal] >= DestEscalateAfter[new[n].dest]
      PROVE  EscalationInv'
  <2>1. NoEarlyEscalation'
    <3>1. \A i \in Ids : status[i] # Absent /\ rows[i].signal # Event =>
             rows[i].dest \in Dests /\ rows[i].signal \in Signals
      BY TypesUnfold DEF Requests
    <3>2. \A i \in Ids : status[i] # Absent /\ rows[i].signal # Event =>
             observed[rows[i].signal] >= DestEscalateAfter[rows[i].dest]
      BY DEF EscalationInv, NoEarlyEscalation
    <3> QED
      BY <1>0, <1>2, <3>1, <3>2 DEF NoEarlyEscalation
  <2>2. \A s \in Signals : occurrences'[s] <= observed'[s]
    BY <1>0, <1>2 DEF EscalationInv
  <2>3. ASSUME NEW q \in Routers
        PROVE  /\ \A s \in DOMAIN ralerts'[q] : ralerts'[q][s].count <= observed'[s]
               /\ \A n \in DOMAIN rnew'[q] : rnew'[q][n].signal # Event =>
                     observed'[rnew'[q][n].signal] >= DestEscalateAfter[rnew'[q][n].dest]
    <3>1. CASE q = r
      BY <1>2, <3>1
    <3>2. CASE q # r
      <4>1. /\ \A s \in DOMAIN ralerts[q] : /\ ralerts[q][s].count \in Nat /\ s \in Signals
                                            /\ ralerts[q][s].count <= observed[s]
            /\ \A n \in DOMAIN rnew[q] :
                  /\ rnew[q][n].dest \in Dests
                  /\ rnew[q][n].signal # Event =>
                       /\ rnew[q][n].signal \in Signals
                       /\ observed[rnew[q][n].signal] >= DestEscalateAfter[rnew[q][n].dest]
        BY RouterTypes DEF EscalationInv, Requests, Alarms
      <4>2. ralerts'[q] = ralerts[q] /\ rnew'[q] = rnew[q]
        BY <1>2, <3>2
      <4> QED
        BY <1>0, <1>2, <4>1, <4>2
    <3> QED
      BY <3>1, <3>2
  <2> QED
    BY <2>1, <2>2, <2>3 DEF EscalationInv
<1>3. ASSUME NEW r \in Routers, NEW pc, NEW alerts, NEW dests, NEW todo, NEW new,
             RouterAt(r, pc, alerts, dests, todo, new)
      PROVE  /\ \A q \in Routers \ {r} : ralerts'[q] = ralerts[q] /\ rnew'[q] = rnew[q]
             /\ ralerts'[r] = alerts /\ rnew'[r] = new
  BY <1>3 DEF RouterAt, BaseInv, WorkTypeOK, RouterTypeOK
<1>4. ASSUME NEW r \in Routers, RouteBegin(r) PROVE EscalationInv'
  <2>1. PICK alerts, dests, todo : Began(r, alerts, dests, todo)
    BY <1>4, RouteBegins
  <2>2. UNCHANGED <<status, rows, occurrences>>
    <3>1. UNCHANGED <<delivery, destination, occurrences, flusher, operator, crashes, flushHistory, met, blind>>
      BY <1>4, Zenon DEF RouteBegin
    <3> QED
      BY <3>1 DEF delivery
  <2>3. \A s \in DOMAIN alerts : alerts[s].count \in Nat /\ alerts[s].count <= observed'[s]
    BY <1>0, <2>1 DEF Began, Alarms, EscalationInv
  <2> DEFINE none == <<>>
  <2>4. DOMAIN none = {} /\ RouterAt(r, "decide", alerts, dests, todo, none)
    BY <2>1 DEF Began
  <2> HIDE DEF none
  <2>5. observed' \in [Signals -> Nat] /\ \A s \in Signals : observed'[s] >= observed[s]
    BY <1>4, RouteBegins
  <2>6. DOMAIN alerts \subseteq Signals
    BY <2>1 DEF Began
  <2>7. \A q \in Routers \ {r} : ralerts'[q] = ralerts[q] /\ rnew'[q] = rnew[q]
    BY <1>3, <2>4
  <2>8. ralerts'[r] = alerts /\ rnew'[r] = none
    BY <1>3, <2>4
  <2> QED
    BY <1>2, <2>2, <2>3, <2>4, <2>5, <2>6, <2>7, <2>8
<1>5. ASSUME NEW r \in Routers, EventBegin(r) PROVE EscalationInv'
  <2>1. PICK dests, new : Announced(r, dests, new)
    BY <1>5, EventBegins
  <2>2. UNCHANGED <<status, rows, occurrences, observed>>
    <3>1. UNCHANGED <<delivery, destination, occurrences, flusher, operator, crashes, history>>
      BY <1>5, Zenon DEF EventBegin
    <3> QED
      BY <3>1 DEF delivery, counts, history, flushHistory, routeHistory
  <2>3. RouterAt(r, "decide", NoAlerts, dests, {}, new) /\ \A n \in DOMAIN new : new[n] \in Requests /\ new[n].signal = Event
    BY <2>1 DEF Announced
  <2>4. \A q \in Routers \ {r} : ralerts'[q] = ralerts[q] /\ rnew'[q] = rnew[q]
    BY <1>3, <2>3
  <2>5. ralerts'[r] = NoAlerts /\ rnew'[r] = new
    BY <1>3, <2>3
  <2> QED
    BY <1>0, <1>2, <2>2, <2>3, <2>4, <2>5, EmptyTyped
<1>6. ASSUME NEW r \in Routers, RouteDecide(r) PROVE EscalationInv'
  <2>1. PICK p, new : Decides(r, p, new)
    BY <1>6, RouteDecides
  <2>2. UNCHANGED <<status, rows, occurrences, observed>>
    BY <1>6 DEF RouteDecide, delivery, counts, history, flushHistory, routeHistory
  <2>3. RouterAt(r, "decide", ralerts[r], rdests[r], rtodo[r] \ {p}, new)
    BY <2>1 DEF Decides
  <2>4. \A q \in Routers \ {r} : ralerts'[q] = ralerts[q] /\ rnew'[q] = rnew[q]
    BY <1>3, <2>3
  <2>5. ralerts'[r] = ralerts[r] /\ rnew'[r] = new
    BY <1>3, <2>3
  <2>6. /\ DOMAIN ralerts[r] \subseteq Signals
        /\ \A s \in DOMAIN ralerts[r] : ralerts[r][s].count \in Nat /\ ralerts[r][s].count <= observed[s]
    BY RouterTypes DEF Alarms, EscalationInv
  <2>7. \A n \in DOMAIN rnew[r] :
           /\ rnew[r][n] \in Requests
           /\ rnew[r][n].signal # Event => observed[rnew[r][n].signal] >= DestEscalateAfter[rnew[r][n].dest]
    BY RouterTypes DEF EscalationInv
  <2>8. \A n \in DOMAIN new :
           /\ new[n] \in Requests
           /\ new[n].signal # Event => observed[new[n].signal] >= DestEscalateAfter[new[n].dest]
    <3>1. CASE new = rnew[r]
      BY <2>7, <3>1
    <3>2. ASSUME NEW x \in Requests, new = Append(rnew[r], x), x.dest = p[1], x.signal = p[2],
                 alert_routing_decision(p[1], p[2], ralerts[r][p[2]].severity, ralerts[r][p[2]].count)
          PROVE  <2>8
      <4>1. ralerts[r][p[2]].count >= DestEscalateAfter[p[1]] /\ p[1] \in Dests /\ p[2] \in DOMAIN ralerts[r]
        BY <2>1, <3>2, DecidesTyped DEF alert_routing_decision
      <4>2. observed[x.signal] >= DestEscalateAfter[x.dest]
        BY <1>0, <2>6, <3>2, <4>1
      <4>3. rnew[r] \in Seq(Requests)
        BY RouterTypes
      <4>4. \A n \in DOMAIN new : new[n] = x \/ (n \in DOMAIN rnew[r] /\ new[n] = rnew[r][n])
        BY <3>2, <4>3
      <4> QED
        BY <2>7, <4>2, <4>4
    <3> QED
      BY <2>1, <3>1, <3>2, DecidesTyped
  <2> QED
    BY <1>0, <1>2, <2>2, <2>4, <2>5, <2>6, <2>8
<1>7. ASSUME NEW r \in Routers, RouteCommit(r) PROVE EscalationInv'
  <2>1. RouterAt(r, "ready", NoAlerts, {}, {}, <<>>) /\ observed' = observed
    BY <1>7 DEF RouteCommit, RouterDone, counts, history, flushHistory, routeHistory
  <2> DEFINE none == <<>>
  <2>2. DOMAIN none = {} /\ RouterAt(r, "ready", NoAlerts, {}, {}, none)
    BY <2>1
  <2> HIDE DEF none
  <2>3. \A q \in Routers \ {r} : ralerts'[q] = ralerts[q] /\ rnew'[q] = rnew[q]
    BY <1>3, <2>2
  <2>4. ralerts'[r] = NoAlerts /\ rnew'[r] = none
    BY <1>3, <2>2
  <2>5. CASE UNCHANGED <<delivery, occurrences>>
    <3>1. UNCHANGED <<status, rows, occurrences>>
      BY <2>5 DEF delivery
    <3> QED
      BY <1>0, <1>2, <2>1, <2>2, <2>3, <2>4, <3>1, EmptyTyped
  <2>6. CASE Committed(r)
    <3>1. /\ Grown
          /\ \A i \in Ids : i > created /\ i <= created' =>
                 i - created \in DOMAIN rnew[r] /\ rows'[i] = rnew[r][i - created]
      BY <1>7, <2>6, CommittedGrows
    <3>2. NoEarlyEscalation'
      <4>1. ASSUME NEW i \in Ids, status'[i] # Absent, rows'[i].signal # Event
            PROVE  observed'[rows'[i].signal] >= DestEscalateAfter[rows'[i].dest]
        <5>1. CASE i > created /\ i <= created'
          BY <2>1, <3>1, <4>1, <5>1 DEF EscalationInv
        <5>2. CASE i <= created \/ i > created'
          BY <2>1, <3>1, <4>1, <5>2 DEF EscalationInv, NoEarlyEscalation, Grown
        <5> QED
          BY <3>1, <5>1, <5>2 DEF Grown, BaseInv, WorkTypeOK, DeliveryTypeOK, Ids
      <4> QED
        BY <4>1 DEF NoEarlyEscalation
    <3>3. \A s \in Signals : occurrences'[s] <= observed'[s]
      <4>1. \A s \in DOMAIN ralerts[r] : ralerts[r][s].count <= observed[s]
        BY DEF EscalationInv
      <4>2. ASSUME NEW s \in Signals
            PROVE  occurrences'[s] = occurrences[s] \/ (s \in DOMAIN ralerts[r] /\ occurrences'[s] = ralerts[r][s].count)
        BY <2>6 DEF Committed, Written
      <4> QED
        BY <2>1, <4>1, <4>2 DEF EscalationInv
    <3>4. \A q \in Routers :
             /\ \A s \in DOMAIN ralerts'[q] : ralerts'[q][s].count <= observed'[s]
             /\ \A n \in DOMAIN rnew'[q] : rnew'[q][n].signal # Event =>
                   observed'[rnew'[q][n].signal] >= DestEscalateAfter[rnew'[q][n].dest]
      BY <2>1, <2>2, <2>3, <2>4, EmptyTyped DEF EscalationInv
    <3> QED
      BY <3>2, <3>3, <3>4 DEF EscalationInv
  <2> QED
    BY <1>7, <2>5, <2>6, RouteCommits
<1>8. ASSUME NEW o \in Operators, RedriveInsert(o) PROVE EscalationInv'
  <2> DEFINE i == oroot[o]
             k == created + 1
  <2>1. /\ i \in Live /\ i \in Ids /\ rows'[k].dest = rows[i].dest /\ rows'[k].signal = rows[i].signal
        /\ \A j \in Ids : j # k => rows'[j] = rows[j] /\ status'[j] = status[j]
    BY <1>8, RedriveInserts
  <2>2. UNCHANGED <<occurrences, router, observed>>
    BY <1>8 DEF RedriveInsert, counts, history, flushHistory, routeHistory
  <2>3. status[i] # Absent
    BY <2>1, TypesUnfold
  <2> HIDE DEF k
  <2>4. NoEarlyEscalation'
    BY <2>1, <2>2, <2>3 DEF EscalationInv, NoEarlyEscalation
  <2> QED
    BY <2>2, <2>4 DEF EscalationInv, router
<1>9. ASSUME NEW o \in Operators, RedriveCheck(o) PROVE EscalationInv'
  BY <1>1, <1>9 DEF RedriveCheck, delivery, counts, history, flushHistory, routeHistory
<1>10. ASSUME WorldStep PROVE EscalationInv'
  BY <1>1, <1>10, WorldBase DEF counts, history, flushHistory, routeHistory
<1>11. ASSUME NEW f \in Flushers, FlushSelect(f) \/ FlushRead(f) \/ Crash(f) PROVE EscalationInv'
  BY <1>1, <1>11, SelectDoes, ReadDoes, CrashDoes DEF TableStays, counts, history, flushHistory, routeHistory
<1>12. ASSUME NEW f \in Flushers, FlushSend(f) PROVE EscalationInv'
  BY <1>1, <1>12, SendDoes DEF TableStays, routeHistory
<1>13. ASSUME NEW f \in Flushers, FlushWrite(f) PROVE EscalationInv'
  <2>1. BaseInv' /\ UNCHANGED <<rows, created, occurrences, router, observed>>
    BY <1>13, WriteBase, WriteDoes DEF counts, history, flushHistory, routeHistory
  <2>2. \A i \in Ids : status'[i] # Absent => status[i] # Absent
    BY <2>1 DEF BaseInv, RowsKept
  <2> QED
    BY <2>1, <2>2 DEF EscalationInv, NoEarlyEscalation, router
<1>14. CASE UNCHANGED vars
  BY <1>1, <1>14, VarsStay DEF TableStays, counts, history, flushHistory, routeHistory
<1> QED
  BY <1>4, <1>5, <1>6, <1>7, <1>8, <1>9, <1>10, <1>11, <1>12, <1>13, <1>14, Steps

LEMMA EscalationStart == ASSUME Init PROVE EscalationInv
<1> USE DEF Init
<1>1. NoEarlyEscalation /\ \A s \in Signals : occurrences[s] <= observed[s]
  BY DEF NoEarlyEscalation
<1>2. \A r \in Routers : DOMAIN ralerts[r] = {} /\ rnew[r] = <<>>
  BY EmptyTyped
<1> QED
  BY <1>1, <1>2 DEF EscalationInv

-----------------------------------------------------------------------------
(* What the races leave on record, and what a flusher has in hand.         *)

LEMMA CommitRecords ==
  ASSUME NEW r \in Routers, RouteCommit(r)
  PROVE  \/ UNCHANGED <<delivery, occurrences, blind>> /\ met' = [met EXCEPT ![r] = {}]
         \/ /\ Committed(r)
            /\ met' = [q \in Routers |-> IF q = r \/ rpc[q] = "ready" THEN {} ELSE met[q] \cup Opening(r)]
            /\ blind' = blind \cup
                   {i \in Fresh(r) : <<rnew[r][i - created].dest, rnew[r][i - created].signal>> \in met[r]}
BY DEF RouteCommit, Committed, Fresh

LEMMA CountedOnce ==
  ASSUME NEW i, losses \in [Ids -> Nat], LoseAnswer(i) \/ UNCHANGED losses
  PROVE  losses' \in [Ids -> Nat]
BY DEF LoseAnswer

LEMMA RaceTypesRoute ==
  ASSUME BaseInv, BaseInv', RaceTypeOK, NEW r \in Routers,
         RouteBegin(r) \/ EventBegin(r) \/ RouteDecide(r) \/ RouteCommit(r)
  PROVE  RaceTypeOK'
<1> USE DEF RaceTypeOK
<1>1. CASE RouteBegin(r)
  <2>1. UNCHANGED <<delivery, destination, occurrences, flusher, operator, crashes, flushHistory, met, blind>>
    BY <1>1, Zenon DEF RouteBegin
  <2> QED
    BY <2>1 DEF flushHistory
<1>2. CASE EventBegin(r)
  <2>1. UNCHANGED <<delivery, destination, occurrences, flusher, operator, crashes, history>>
    BY <1>2, Zenon DEF EventBegin
  <2> QED
    BY <2>1 DEF history, flushHistory, routeHistory
<1>3. CASE RouteDecide(r)
  <2>1. PICK p \in rtodo[r] : met' = [met EXCEPT ![r] = @ \ {p}]
    BY <1>3 DEF RouteDecide
  <2>2. UNCHANGED <<flushHistory, blind>>
    BY <1>3 DEF RouteDecide
  <2> QED
    BY <2>1, <2>2 DEF flushHistory
<1>4. CASE RouteCommit(r)
  <2>1. UNCHANGED flushHistory
    BY <1>4 DEF RouteCommit
  <2>2. met' \in [Routers -> SUBSET Pairs]
    <3>1. Opening(r) \subseteq Pairs
      BY DEF Opening
    <3> QED
      BY <1>4, <3>1, CommitRecords
  <2>3. blind' \subseteq Ids
    <3>1. CASE Committed(r)
      <4>1. Fresh(r) \subseteq Ids
        <5>1. created \in Nat /\ created' \in 0 .. MaxDeliveries
          BY DEF BaseInv, WorkTypeOK, DeliveryTypeOK
        <5>2. rnew[r] \in Seq(Requests) /\ created' = created + Len(rnew[r])
          BY <3>1, RouterTypes DEF Committed
        <5>3. created + Len(rnew[r]) <= MaxDeliveries
          BY <5>1, <5>2
        <5> QED
          BY <5>1, <5>3 DEF Fresh, Ids
      <4> QED
        BY <1>4, <4>1, CommitRecords
    <3> QED
      BY <1>4, <3>1, CommitRecords
  <2> QED
    BY <2>1, <2>2, <2>3 DEF flushHistory
<1> QED
  BY <1>1, <1>2, <1>3, <1>4

LEMMA RaceTypesStep == ASSUME BaseInv, RaceTypeOK, [Next]_vars PROVE RaceTypeOK'
<1>0. BaseInv'
  BY BaseStep
<1>1. ASSUME NEW f \in Flushers, FlushSelect(f) PROVE RaceTypeOK'
  BY <1>1 DEF FlushSelect, RaceTypeOK, routeHistory
<1>2. ASSUME NEW f \in Flushers, FlushSend(f) \/ FlushRead(f) PROVE RaceTypeOK'
  BY <1>2, SendDoes, ReadDoes DEF RaceTypeOK, history, flushHistory, routeHistory
<1>3. ASSUME NEW f \in Flushers, FlushWrite(f) PROVE RaceTypeOK'
  <2>1. UNCHANGED <<again, met, blind>> /\ rows[fsent[f].id].dest \in Dests
    BY <1>3, WriteDoes, WritingOne
  <2>2. losses' \in [Ids -> Nat]
    BY <1>3, WriteDoes, CountedOnce DEF RaceTypeOK
  <2>3. crossed' = crossed \/ crossed' = crossed \cup {rows[fsent[f].id].dest}
    BY <1>3 DEF FlushWrite
  <2> QED
    BY <2>1, <2>2, <2>3 DEF RaceTypeOK
<1>4. ASSUME NEW f \in Flushers, Crash(f) PROVE RaceTypeOK'
  <2>1. UNCHANGED <<again, crossed, met, blind>>
    BY <1>4, CrashDoes DEF routeHistory
  <2>2. losses' \in [Ids -> Nat]
    BY <1>4, CrashDoes, CountedOnce DEF RaceTypeOK
  <2> QED
    BY <2>1, <2>2 DEF RaceTypeOK
<1>5. ASSUME NEW o \in Operators, RedriveCheck(o) \/ RedriveInsert(o) PROVE RaceTypeOK'
  BY <1>5 DEF RedriveCheck, RedriveInsert, RaceTypeOK, history, flushHistory, routeHistory
<1>6. ASSUME WorldStep PROVE RaceTypeOK'
  BY <1>6, WorldRecords DEF RaceTypeOK, history, flushHistory, routeHistory
<1>7. CASE UNCHANGED vars
  BY <1>7, VarsStay DEF RaceTypeOK, history, flushHistory, routeHistory
<1> QED
  BY <1>0, <1>1, <1>2, <1>3, <1>4, <1>5, <1>6, <1>7, RaceTypesRoute, Steps

LEMMA RaceTypesStart == ASSUME Init PROVE RaceTypeOK
BY DEF Init, RaceTypeOK

-----------------------------------------------------------------------------
(* What holds for any number of flushers. *)

LEMMA RedrivesFinite ==
  ASSUME NEW i
  PROVE  IsFiniteSet(redrives(i)) /\ Cardinality(redrives(i)) \in Nat
<1>1. IsFiniteSet(Ids)
  BY FS_Interval DEF Ids
<1>2. redrives(i) \subseteq Ids
  BY DEF redrives
<1> QED
  BY <1>1, <1>2, FS_Subset, FS_CardinalityType

LEMMA ShownIsTrue == ASSUME HonestDelivered PROVE DeadLettersTrue
<1> SUFFICES ASSUME NEW i \in dead_letters
             PROVE  /\ _dead_letter_state(i) = "redrive_candidate" => MayRedrive(i)
                    /\ _dead_letter_state(i) \in {"redriven", "exhausted"} => ~MayRedrive(i)
                    /\ _dead_letter_state(i) = "resolved" => redrives(i) \cap accepted # {}
  BY DEF DeadLettersTrue
<1> DEFINE among(verdict) == \E k \in redrives(i) : status[k] = verdict
           spent == Cardinality(redrives(i)) >= AtLeast1(RedriveLimit)
<1>1. /\ among(DELIVERED) => _dead_letter_state(i) = "resolved"
      /\ ~among(DELIVERED) /\ among(PENDING) => _dead_letter_state(i) = "redriven"
      /\ ~among(DELIVERED) /\ ~among(PENDING) =>
            _dead_letter_state(i) = IF spent THEN "exhausted" ELSE "redrive_candidate"
  BY DEF _dead_letter_state
<1>2. spent <=> ~(Cardinality(redrives(i)) < AtLeast1(RedriveLimit))
  BY RedrivesFinite, SomeBudget, DeliveryAssumption
<1>3. MayRedrive(i) <=> ~among(PENDING) /\ ~spent
  BY <1>2 DEF MayRedrive, dead_letters
<1>4. among(DELIVERED) => redrives(i) \cap accepted # {}
  BY DEF HonestDelivered, redrives
<1> HIDE DEF among, spent
<1> QED
  BY <1>1, <1>3, <1>4

(* However many workers and operator sweeps flush at once, whoever is      *)
(* killed and whatever operators delete: a delivery is called delivered    *)
(* only if a receiver accepted a POST of it, no escalation target hears of *)
(* a signal too early, and the dead-letter view agrees with the redrive.   *)
THEOREM RowsStayTrue == Spec => [](WorkTypeOK /\ HonestDelivered /\ NoEarlyEscalation /\ DeadLettersTrue)
<1>1. Init => BaseInv /\ HonestInv /\ EscalationInv
  BY BaseInit, HonestStart, EscalationStart
<1>2. BaseInv /\ HonestInv /\ EscalationInv /\ [Next]_vars => (BaseInv /\ HonestInv /\ EscalationInv)'
  BY BaseStep, HonestStep, EscalationStep
<1>3. BaseInv /\ HonestInv /\ EscalationInv => WorkTypeOK /\ HonestDelivered /\ NoEarlyEscalation /\ DeadLettersTrue
  BY ShownIsTrue DEF BaseInv, HonestInv, EscalationInv
<1> QED
  BY <1>1, <1>2, <1>3, PTL DEF Spec

-----------------------------------------------------------------------------
(* RaceInv: at most two flushers. *)

LEMMA BoundOfRow ==
  ASSUME NEW i, rows'[i] = rows[i]
  PROVE  BudgetBound(i)' = BudgetBound(i)
BY DEF BudgetBound

LEMMA BoundOfNew ==
  ASSUME NEW i, rows'[i] \in Requests
  PROVE  BudgetBound(i)' \in Nat /\ BudgetBound(i)' >= 1
<1>1. rows'[i].dest \in Dests
  BY DEF Requests
<1> QED
  BY <1>1, EffectiveBudget, SomeBudget, DeliveryAssumption DEF BudgetBound

(* Steps that leave the table alone and give no flusher anything new. *)
LEMMA RaceStays ==
  ASSUME BaseInv, RaceInv, TableStays, UNCHANGED flusher
  PROVE  RaceInv'
<1>1. Live' = Live /\ \A i \in Live : BudgetBound(i)' = BudgetBound(i)
  BY DEF TableStays, Live, BudgetBound
<1>2. OneHolder'
  BY <1>1 DEF RaceInv, OneHolder, Settled, Holds, InHand, TableStays, flusher
<1>3. SeenStands'
  BY <1>1 DEF RaceInv, SeenStands, Settled, TableStays, flusher
<1>4. BudgetLeft'
  BY <1>1 DEF RaceInv, BudgetLeft, InHand, TableStays, flusher, BaseInv, HeldLive
<1> QED
  BY <1>2, <1>3, <1>4 DEF RaceInv

LEMMA RaceGrown == ASSUME BaseInv, RaceInv, Grown PROVE RaceInv'
<1>0. /\ Live \subseteq Live' /\ UNCHANGED <<attempts, flusher, posts, accepted>>
      /\ \A i \in Live : rows'[i] = rows[i] /\ status'[i] = status[i]
      /\ \A i \in Live' \ Live : rows'[i] \in Requests /\ status'[i] = PENDING /\ attempts[i] = 0
  BY GrownTable
<1>1. \A i \in Live : BudgetBound(i)' = BudgetBound(i)
  BY <1>0, BoundOfRow
<1>2. \A i \in Live' \ Live : ~Settled(i)'
  BY <1>0, StatusesDiffer DEF Settled
<1>3. \A i \in Live : Settled(i)' <=> Settled(i)
  BY <1>0 DEF Settled
<1>4. OneHolder'
  <2>1. \A f \in Flushers, i \in Live : Holds(f, i)' <=> Holds(f, i)
    BY <1>0 DEF Holds, InHand, flusher
  <2> QED
    BY <1>2, <1>3, <2>1 DEF RaceInv, OneHolder
<1>5. SeenStands'
  BY <1>0, <1>3 DEF RaceInv, SeenStands, flusher, BaseInv, HeldLive, InHand
<1>6. BudgetLeft'
  <2>1. ASSUME NEW i \in Live'
        PROVE  attempts'[i] <= BudgetBound(i)' /\ (status'[i] = PENDING => attempts'[i] < BudgetBound(i)')
    <3>1. CASE i \in Live
      BY <1>0, <1>1, <3>1 DEF RaceInv, BudgetLeft
    <3>2. CASE i \notin Live
      BY <1>0, <3>2, BoundOfNew
    <3> QED
      BY <3>1, <3>2
  <2>2. \A f \in Flushers :
         /\ \A i \in DOMAIN fbatch'[f] : fbatch'[f][i] < BudgetBound(i)'
         /\ InHand(f)' => /\ fsent'[f].tries <= BudgetBound(fsent[f].id)'
                          /\ fsent'[f].budget <= BudgetBound(fsent[f].id)'
                          /\ fsent'[f].id \notin DOMAIN fbatch'[f]
    BY <1>0, <1>1 DEF RaceInv, BudgetLeft, BaseInv, HeldLive, InHand, flusher
  <2> QED
    BY <1>0, <2>1, <2>2 DEF BudgetLeft, flusher
<1> QED
  BY <1>4, <1>5, <1>6 DEF RaceInv

(* A flusher that ends up with nothing in hand and, in its batch, pending  *)
(* rows as they are or rows it had.                                        *)
LEMMA RaceLetsGo ==
  ASSUME BaseInv, RaceInv, NEW f \in Flushers, TableStays, Others(f), ~InHand(f)', fpc'[f] # "seen",
         \A i \in DOMAIN fbatch'[f] : i \in Live /\ status[i] = PENDING /\ fbatch'[f][i] = attempts[i]
  PROVE  RaceInv'
<1>1. Live' = Live /\ \A i \in Live : BudgetBound(i)' = BudgetBound(i)
  BY DEF TableStays, Live, BudgetBound
<1>2. \A i \in Live : Settled(i)' <=> Settled(i)
  BY DEF TableStays, Settled
<1>3. \A g \in Flushers, i \in Live : Settled(i) /\ Holds(g, i)' => Holds(g, i)
  BY StatusesDiffer DEF Settled, Holds, InHand, Others
<1>4. OneHolder'
  BY <1>1, <1>2, <1>3 DEF RaceInv, OneHolder
<1>5. SeenStands'
  BY <1>2 DEF RaceInv, SeenStands, Others, TableStays, BaseInv, HeldLive, InHand
<1>6. BudgetLeft'
  BY <1>1 DEF RaceInv, BudgetLeft, Others, TableStays, BaseInv, HeldLive, InHand
<1> QED
  BY <1>4, <1>5, <1>6 DEF RaceInv

LEMMA RaceSend == ASSUME BaseInv, RaceInv, NEW f \in Flushers, FlushSend(f) PROVE RaceInv'
<1>1. PICK i \in Live :
           /\ i \in DOMAIN fbatch[f] /\ fpc[f] = "batch" /\ fpc'[f] = "sent" /\ Others(f) /\ TableStays
           /\ DOMAIN fbatch'[f] = DOMAIN fbatch[f] \ {i}
           /\ \A k \in DOMAIN fbatch'[f] : fbatch'[f][k] = fbatch[f][k]
           /\ fsent'[f].id = i /\ fsent'[f].tries = fbatch[f][i] + 1
           /\ fsent'[f].budget = Budget(rows[i].dest)
  BY SendDoes
<1>2. Live' = Live /\ \A k \in Live : BudgetBound(k)' = BudgetBound(k)
  BY <1>1 DEF TableStays, Live, BudgetBound
<1>3. \A k \in Live : Settled(k)' <=> Settled(k)
  BY <1>1 DEF TableStays, Settled
<1>4. \A g \in Flushers, k \in Live : Holds(g, k)' => Holds(g, k)
  BY <1>1 DEF Holds, InHand, Others
<1>5. OneHolder'
  BY <1>2, <1>3, <1>4 DEF RaceInv, OneHolder
<1>6. SeenStands'
  BY <1>1, <1>3 DEF RaceInv, SeenStands, Others, TableStays, BaseInv, HeldLive, InHand
<1>7. BudgetLeft'
  <2>1. /\ fbatch[f][i] \in Nat /\ fbatch[f][i] < BudgetBound(i)
        /\ BudgetBound(i) \in Nat /\ Budget(rows[i].dest) <= BudgetBound(i)
    BY <1>1, BudgetsOrdered, TypesUnfold DEF RaceInv, BudgetLeft, BaseInv, WorkTypeOK, FlusherTypeOK
  <2>2. fsent'[f].tries <= BudgetBound(i) /\ fsent'[f].budget <= BudgetBound(i)
    BY <1>1, <2>1
  <2> QED
    BY <1>1, <1>2, <2>2 DEF RaceInv, BudgetLeft, Others, TableStays, BaseInv, HeldLive, InHand
<1> QED
  BY <1>5, <1>6, <1>7 DEF RaceInv

LEMMA RaceRead == ASSUME BaseInv, RaceInv, NEW f \in Flushers, FlushRead(f) PROVE RaceInv'
<1> DEFINE i == fsent[f].id
<1>1. /\ fpc[f] = "sent" /\ fpc'[f] = "seen" /\ i \in Live /\ Others(f) /\ TableStays
      /\ fbatch'[f] = fbatch[f] /\ fsent'[f] = fsent[f]
      /\ fseen'[f].status = status[i] /\ fseen'[f].attempts = attempts[i]
  BY ReadDoes
<1>2. Live' = Live /\ \A k \in Live : BudgetBound(k)' = BudgetBound(k)
  BY <1>1 DEF TableStays, Live, BudgetBound
<1>3. \A k \in Live : Settled(k)' <=> Settled(k)
  BY <1>1 DEF TableStays, Settled
<1>4. \A g \in Flushers, k \in Live : Holds(g, k)' => Holds(g, k)
  BY <1>1 DEF Holds, InHand, Others
<1>5. OneHolder'
  BY <1>2, <1>3, <1>4 DEF RaceInv, OneHolder
<1>6. SeenStands'
  <2>1. status[i] # PENDING => Settled(i)
    BY <1>1, TypesUnfold DEF Settled, Statuses
  <2> QED
    BY <1>1, <1>3, <2>1 DEF RaceInv, SeenStands, Others, TableStays, BaseInv, HeldLive, InHand
<1>7. BudgetLeft'
  BY <1>1, <1>2 DEF RaceInv, BudgetLeft, Others, TableStays, BaseInv, HeldLive, InHand
<1> QED
  BY <1>5, <1>6, <1>7 DEF RaceInv

(* A write: the row it settles is then held by the other flusher alone,    *)
(* and that one had not read it settled.                                   *)
LEMMA RaceWrite ==
  ASSUME BaseInv, RaceInv, \A e, g, h \in Flushers : e = g \/ g = h \/ e = h,
         NEW f \in Flushers, FlushWrite(f)
  PROVE  RaceInv'
<1>0. PICK i \in Live : i = fsent[f].id
  BY WriteDoes
<1>1. fpc[f] = "seen" /\ i \in Live /\ i \in Ids /\ ~InHand(f)' /\ fpc'[f] # "seen" /\ Others(f) /\ UNCHANGED <<rows, created>>
  BY <1>0, WriteDoes, TypesUnfold DEF InHand
<1>2. CASE TableStays /\ DOMAIN fbatch'[f] = {}
  BY <1>1, <1>2, RaceLetsGo
<1>3. ASSUME DOMAIN fbatch'[f] = DOMAIN fbatch[f], \A k \in DOMAIN fbatch[f] : fbatch'[f][k] = fbatch[f][k],
             status'[i] = Written(Outcome(fsent[f]), fseen[f].status, status[i]),
             attempts'[i] = Written(fsent[f].tries, fseen[f].attempts, attempts[i]),
             \A k \in Ids : k # i => status'[k] = status[k] /\ attempts'[k] = attempts[k]
      PROVE  RaceInv'
  <2>1. Live' = Live /\ Live \subseteq Ids /\ \A k \in Live : BudgetBound(k)' = BudgetBound(k)
    BY <1>1, TypesUnfold DEF Live, BudgetBound
  <2>2. \A k \in Live : k # i => (Settled(k)' <=> Settled(k))
    BY <1>3, <2>1 DEF Settled
  <2>3. \A g \in Flushers, k \in Live : Holds(g, k)' => Holds(g, k)
    BY <1>1, <1>3 DEF Holds, InHand, Others
  <2>4. ~Holds(f, i)' /\ Holds(f, i)
    BY <1>0, <1>1, <1>3 DEF Holds, InHand, RaceInv, BudgetLeft
  <2>5. OneHolder'
    <3>1. ASSUME NEW k \in Live, Settled(k)', NEW g \in Flushers, NEW h \in Flushers, Holds(g, k)', Holds(h, k)'
          PROVE  g = h
      <4>1. CASE k = i
        BY <2>4, <3>1, <4>1
      <4>2. CASE k # i
        BY <2>2, <2>3, <3>1, <4>2 DEF RaceInv, OneHolder
      <4> QED
        BY <4>1, <4>2
    <3> QED
      BY <2>1, <3>1 DEF OneHolder
  <2>6. SeenStands'
    <3>1. ASSUME NEW g \in Flushers, fpc'[g] = "seen", fseen'[g].status # PENDING
          PROVE  (/\ fseen[g].status = status[fsent[g].id] /\ Settled(fsent[g].id)
                  /\ fseen[g].attempts = attempts[fsent[g].id])'
      <4>1. g # f /\ fpc[g] = "seen" /\ fsent'[g] = fsent[g] /\ fseen'[g] = fseen[g] /\ fsent[g].id \in Live
        BY <1>1, <3>1 DEF Others, BaseInv, HeldLive, InHand
      <4>2. /\ fseen[g].status = status[fsent[g].id] /\ Settled(fsent[g].id)
            /\ fseen[g].attempts = attempts[fsent[g].id]
        BY <3>1, <4>1 DEF RaceInv, SeenStands
      <4>3. fsent[g].id # i
        BY <2>4, <4>1, <4>2 DEF RaceInv, OneHolder, Holds, InHand
      <4> QED
        BY <1>3, <2>1, <4>1, <4>2, <4>3 DEF Settled
    <3> QED
      BY <3>1 DEF SeenStands
  <2>7. BudgetLeft'
    <3> DEFINE sent == fsent[f]
               seen == fseen[f]
    <3>1. /\ sent.tries \in Nat /\ sent.budget \in Nat /\ attempts[i] \in Nat /\ BudgetBound(i) \in Nat
          /\ sent.tries <= BudgetBound(i) /\ sent.budget <= BudgetBound(i)
          /\ attempts[i] <= BudgetBound(i) /\ (status[i] = PENDING => attempts[i] < BudgetBound(i))
      BY <1>0, <1>1, BudgetsOrdered, TypesUnfold
         DEF Sents, RaceInv, BudgetLeft, InHand, BaseInv, WorkTypeOK, DeliveryTypeOK
    <3>2. seen.status # PENDING => seen.status = status[i] /\ seen.attempts = attempts[i]
      BY <1>0, <1>1 DEF RaceInv, SeenStands
    <3>3. Outcome(sent) = PENDING => sent.tries < BudgetBound(i)
      BY <3>1, StatusesDiffer DEF Outcome
    <3> HIDE DEF sent, seen
    <3>4. attempts'[i] <= BudgetBound(i)
      BY <1>3, <3>1 DEF Written, sent, seen
    <3>5. ASSUME status'[i] = PENDING PROVE attempts'[i] < BudgetBound(i)
      <4>1. CASE Outcome(sent) = PENDING
        BY <1>3, <3>1, <3>2, <3>3, <3>5, <4>1 DEF Written, sent, seen
      <4>2. CASE Outcome(sent) # PENDING
        BY <1>3, <3>2, <3>5, <4>2 DEF Written, sent, seen
      <4> QED
        BY <4>1, <4>2
    <3>6. \A k \in Live : /\ attempts'[k] <= BudgetBound(k)
                          /\ status'[k] = PENDING => attempts'[k] < BudgetBound(k)
      BY <1>3, <2>1, <3>4, <3>5 DEF RaceInv, BudgetLeft
    <3>7. ASSUME NEW g \in Flushers
          PROVE  (/\ \A k \in DOMAIN fbatch[g] : fbatch[g][k] < BudgetBound(k)
                  /\ InHand(g) => /\ fsent[g].tries <= BudgetBound(fsent[g].id)
                                  /\ fsent[g].budget <= BudgetBound(fsent[g].id)
                                  /\ fsent[g].id \notin DOMAIN fbatch[g])'
      <4>1. CASE g = f
        BY <1>1, <1>3, <2>1, <4>1 DEF RaceInv, BudgetLeft, BaseInv, HeldLive
      <4>2. CASE g # f
        BY <1>1, <2>1, <4>2 DEF RaceInv, BudgetLeft, Others, BaseInv, HeldLive, InHand
      <4> QED
        BY <4>1, <4>2
    <3> QED
      BY <2>1, <3>6, <3>7 DEF BudgetLeft
  <2> QED
    BY <2>5, <2>6, <2>7 DEF RaceInv
<1> QED
  BY <1>0, <1>2, <1>3, WriteDoes

LEMMA RaceStep ==
  ASSUME BaseInv, RaceInv, [Next]_vars, \A e, g, h \in Flushers : e = g \/ g = h \/ e = h
  PROVE  RaceInv'
<1>1. ASSUME NEW f \in Flushers, FlushSelect(f) PROVE RaceInv'
  BY <1>1, SelectDoes, RaceLetsGo DEF InHand
<1>2. ASSUME NEW f \in Flushers, Crash(f) PROVE RaceInv'
  BY <1>2, CrashDoes, RaceLetsGo DEF InHand
<1>3. CASE UNCHANGED vars
  BY <1>3, VarsStay, RaceStays
<1> QED
  BY <1>1, <1>2, <1>3, RaceSend, RaceRead, RaceWrite, RaceStays, RaceGrown, OtherSteps

LEMMA RaceStart == ASSUME Init PROVE RaceInv
<1>1. Live = {}
  BY DEF Init, Live
<1>2. \A f \in Flushers : fpc[f] = "ready" /\ DOMAIN fbatch[f] = {}
  BY EmptyTyped DEF Init
<1> QED
  BY <1>1, <1>2 DEF RaceInv, OneHolder, SeenStands, BudgetLeft, InHand

-----------------------------------------------------------------------------
(* HandInv *)

(* A flusher that holds nothing but its batch, or nothing. *)
LEMMA HandLetsGo ==
  ASSUME HandInv, NEW f \in Flushers, Others(f), fsent'[f].id = NoId,
         fpc'[f] \in {"ready", "batch"}, fpc'[f] = "ready" => DOMAIN fbatch'[f] = {}
  PROVE  HandInv'
BY DEF HandInv, Others, InHand

LEMMA HandStep == ASSUME BaseInv, HandInv, [Next]_vars PROVE HandInv'
<1>1. ASSUME NEW f \in Flushers, FlushSelect(f) PROVE HandInv'
  BY <1>1, SelectDoes, HandLetsGo
<1>2. ASSUME NEW f \in Flushers, FlushSend(f) PROVE HandInv'
  <2>1. PICK i \in Live : /\ fpc'[f] = "sent" /\ Others(f)
                          /\ DOMAIN fbatch'[f] = DOMAIN fbatch[f] \ {i} /\ fsent'[f].id = i
    BY <1>2, SendDoes
  <2> QED
    BY <2>1 DEF HandInv, Others, InHand
<1>3. ASSUME NEW f \in Flushers, FlushRead(f) PROVE HandInv'
  <2>1. /\ fpc[f] = "sent" /\ fpc'[f] = "seen" /\ Others(f)
        /\ fbatch'[f] = fbatch[f] /\ fsent'[f] = fsent[f]
    BY <1>3, ReadDoes
  <2> QED
    BY <2>1 DEF HandInv, Others, InHand
<1>4. ASSUME NEW f \in Flushers, FlushWrite(f) PROVE HandInv'
  BY <1>4, WriteDoes, HandLetsGo
<1>5. ASSUME NEW f \in Flushers, Crash(f) PROVE HandInv'
  BY <1>5, CrashDoes, HandLetsGo
<1>6. ASSUME UNCHANGED flusher PROVE HandInv'
  BY <1>6 DEF HandInv, InHand, flusher
<1> QED
  BY <1>1, <1>2, <1>3, <1>4, <1>5, <1>6, OtherSteps, VarsStay DEF Grown

LEMMA HandStart == ASSUME Init PROVE HandInv
BY EmptyTyped DEF Init, HandInv, InHand, NotSent

LEMMA HoldersAre ==
  ASSUME BaseInv, HandInv, NEW i \in Ids
  PROVE  Holders(i) = {f \in Flushers : Holds(f, i)}
<1>1. i # NoId
  BY DEF Ids, NoId
<1>2. ASSUME NEW f \in Flushers PROVE fsent[f].id = i <=> InHand(f) /\ fsent[f].id = i
  BY <1>1 DEF HandInv
<1> QED
  BY <1>2 DEF Holders, Holds

-----------------------------------------------------------------------------
(* How a step moves what flushers hold.                                    *)

(* Nobody comes to hold a row but by taking it while it is pending, and    *)
(* whoever takes it from under a holder is on record.                      *)
LEMMA SelectHolds ==
  ASSUME BaseInv, HandInv, NEW f \in Flushers, FlushSelect(f)
  PROVE  /\ again \in [Ids -> Nat] => again' \in [Ids -> Nat] /\ \A i \in Ids : again'[i] >= again[i]
         /\ \A g \in Flushers \ {f}, i \in Live : Holds(g, i)' <=> Holds(g, i)
         /\ \A i \in Live : ~Holds(f, i)
         /\ \A i \in Live : Holds(f, i)' <=> i \in DOMAIN fbatch'[f]
         /\ \A i \in Live : Holds(f, i)' => status[i] = PENDING /\ fbatch'[f][i] = attempts[i]
         /\ \A i \in Live : Holds(f, i)' /\ (\E g \in Flushers : Holds(g, i)) => again'[i] = again[i] + 1
         /\ \A i \in Live : ~(Holds(f, i)' /\ (\E g \in Flushers : Holds(g, i))) => again'[i] = again[i]
<1>1. /\ fpc[f] = "ready" /\ fpc'[f] \in {"ready", "batch"} /\ Others(f)
      /\ \A i \in DOMAIN fbatch'[f] : i \in Live /\ status[i] = PENDING /\ fbatch'[f][i] = attempts[i]
      /\ \A i \in Ids :
             again'[i] = IF i \in DOMAIN fbatch'[f] /\ Holders(i) # {} THEN again[i] + 1 ELSE again[i]
  BY SelectDoes
<1>2. again' = [i \in Ids |-> IF i \in DOMAIN PendingBatch /\ Holders(i) # {} THEN again[i] + 1 ELSE again[i]]
  BY DEF FlushSelect
<1>3. \A i \in Live : i \in Ids /\ (Holders(i) # {} <=> \E g \in Flushers : Holds(g, i))
  BY HoldersAre, TypesUnfold
<1>4. \A g \in Flushers \ {f}, i \in Live : Holds(g, i)' <=> Holds(g, i)
  BY <1>1 DEF Holds, InHand, Others
<1>5. \A i \in Live : ~Holds(f, i)
  BY <1>1 DEF Holds, InHand, HandInv
<1>6. \A i \in Live : Holds(f, i)' <=> i \in DOMAIN fbatch'[f]
  BY <1>1 DEF Holds, InHand
<1> QED
  BY <1>1, <1>2, <1>3, <1>4, <1>5, <1>6

(* The other steps of a flusher: others hold what they held, and it holds  *)
(* no more than it did.                                                    *)
LEMMA FlusherHolds ==
  ASSUME BaseInv, HandInv, NEW f \in Flushers, FlushSend(f) \/ FlushRead(f) \/ FlushWrite(f) \/ Crash(f)
  PROVE  /\ UNCHANGED again
         /\ \A g \in Flushers \ {f}, i \in Live : Holds(g, i)' <=> Holds(g, i)
         /\ \A i \in Live : Holds(f, i)' => Holds(f, i)
<1>1. CASE FlushSend(f)
  <2>1. PICK i \in Live : /\ i \in DOMAIN fbatch[f] /\ fpc'[f] = "sent" /\ Others(f) /\ UNCHANGED again
                          /\ DOMAIN fbatch'[f] = DOMAIN fbatch[f] \ {i} /\ fsent'[f].id = i
    BY <1>1, SendDoes
  <2> QED
    BY <2>1 DEF Holds, InHand, Others
<1>2. CASE FlushRead(f)
  BY <1>2, ReadDoes DEF Holds, InHand, Others, history, flushHistory
<1>3. CASE FlushWrite(f)
  BY <1>3, WriteDoes DEF Holds, InHand, Others
<1>4. CASE Crash(f)
  BY <1>4, CrashDoes DEF Holds, InHand, Others
<1> QED
  BY <1>1, <1>2, <1>3, <1>4

LEMMA WriteHolds ==
  ASSUME BaseInv, HandInv, NEW f \in Flushers, FlushWrite(f)
  PROVE  /\ \A i \in Live : i = fsent[f].id => Holds(f, i) /\ ~Holds(f, i)'
         /\ ~InHand(f)' /\ fsent[f].id \in Live
         /\ \A k \in Live \ {fsent[f].id} : status'[k] = status[k] /\ attempts'[k] = attempts[k]
         /\ \A k \in DOMAIN fbatch'[f] : k \in DOMAIN fbatch[f] /\ fbatch'[f][k] = fbatch[f][k]
<1>1. /\ fpc[f] = "seen" /\ fsent[f].id \in Live /\ fpc'[f] \in {"ready", "batch"}
      /\ \A k \in DOMAIN fbatch'[f] : k \in DOMAIN fbatch[f] /\ fbatch'[f][k] = fbatch[f][k]
  BY WriteDoes
<1>2. \A k \in Live \ {fsent[f].id} : status'[k] = status[k] /\ attempts'[k] = attempts[k]
  BY WriteDoes, TypesUnfold DEF TableStays
<1>3. ~InHand(f)' /\ Holds(f, fsent[f].id) /\ fsent[f].id \notin DOMAIN fbatch[f]
  BY <1>1 DEF InHand, Holds, HandInv
<1>4. \A i \in Live : i = fsent[f].id => ~Holds(f, i)'
  BY <1>1, <1>3 DEF Holds
<1> QED
  BY <1>1, <1>2, <1>3, <1>4

(* A row that is not held by a stranger is not held by a new row's owner.  *)
LEMMA NewNotHeld ==
  ASSUME BaseInv, Grown
  PROVE  /\ UNCHANGED flusher /\ \A f \in Flushers, i \in Live' \ Live : ~Holds(f, i)'
         /\ \A f \in Flushers, i \in Live : Holds(f, i)' <=> Holds(f, i)
         /\ \A i \in Live : i \in Live' /\ i \in Ids
         /\ \A i \in Live' : i \in Ids
<1>1. UNCHANGED flusher
  BY GrownTable
<1>2. \A f \in Flushers, i \in Live' \ Live : ~Holds(f, i)
  BY DEF BaseInv, HeldLive, Holds
<1>3. \A f \in Flushers : \A i : Holds(f, i)' <=> Holds(f, i)
  BY <1>1 DEF Holds, InHand, flusher
<1>4. \A i \in Live' : i \in Ids
  BY DEF Grown, Live, Ids
<1> QED
  BY <1>1, <1>2, <1>3, <1>4, GrownTable

-----------------------------------------------------------------------------
(* LoneInv *)

LEMMA LoneKeeps ==
  ASSUME NEW f \in Flushers, NEW g \in Flushers \ {f}, NEW i, Others(f),
         status'[i] = status[i], attempts'[i] = attempts[i], AsRead(g, i)
  PROVE  AsRead(g, i)'
BY DEF AsRead, InHand, Others

(* What the holder of a row knows of it stays true while it goes on to     *)
(* another row, and a row it has let go of is nobody's.                    *)
LEMMA LoneRest ==
  ASSUME BaseInv, HandInv, LoneInv, NEW f \in Flushers, NEW i \in Live, again[i] = 0,
         FlushSend(f) \/ FlushRead(f) \/ FlushWrite(f) \/ Crash(f), Others(f),
         status'[i] = status[i] /\ attempts'[i] = attempts[i],
         Holds(f, i)' => AsRead(f, i)'
  PROVE  /\ \A g, h \in Flushers : Holds(g, i)' /\ Holds(h, i)' => g = h
         /\ \A g \in Flushers : Holds(g, i)' => AsRead(g, i)'
<1>1. \A g \in Flushers : Holds(g, i)' => Holds(g, i)
  BY FlusherHolds
<1>2. \A g \in Flushers : Holds(g, i) => AsRead(g, i)
  BY DEF LoneInv
<1>3. \A g, h \in Flushers : Holds(g, i) /\ Holds(h, i) => g = h
  BY DEF LoneInv
<1>4. \A g \in Flushers \ {f} : Holds(g, i)' => AsRead(g, i)'
  BY <1>1, <1>2, LoneKeeps
<1> QED
  BY <1>1, <1>3, <1>4

LEMMA LoneSelect == ASSUME BaseInv, RaceTypeOK, HandInv, LoneInv, NEW f \in Flushers, FlushSelect(f) PROVE LoneInv'
<1> SUFFICES ASSUME NEW i \in Live', again'[i] = 0
             PROVE  /\ \A g, h \in Flushers : Holds(g, i)' /\ Holds(h, i)' => g = h
                    /\ \A g \in Flushers : Holds(g, i)' => AsRead(g, i)'
  BY DEF LoneInv
<1>1. TableStays /\ Others(f) /\ fpc'[f] \in {"ready", "batch"} /\ fsent'[f].id = NoId
  BY SelectDoes
<1>2. i \in Live /\ i \in Ids /\ i # NoId
  BY <1>1, TypesUnfold DEF TableStays, Live, Ids, NoId
<1>3. again[i] = 0 /\ again[i] \in Nat
  BY <1>2, SelectHolds DEF RaceTypeOK
<1>4. \A g \in Flushers \ {f} : Holds(g, i)' <=> Holds(g, i)
  BY <1>2, SelectHolds
<1>5. ASSUME Holds(f, i)' PROVE \A g \in Flushers : ~Holds(g, i)
  BY <1>2, <1>3, <1>5, SelectHolds
<1>6. \A g, h \in Flushers : Holds(g, i) /\ Holds(h, i) => g = h
  BY <1>2, <1>3 DEF LoneInv
<1>7. \A g, h \in Flushers : Holds(g, i)' /\ Holds(h, i)' => g = h
  BY <1>4, <1>5, <1>6
<1>8. ASSUME Holds(f, i)' PROVE AsRead(f, i)'
  <2>1. status[i] = PENDING /\ fbatch'[f][i] = attempts[i]
    BY <1>2, <1>8, SelectHolds
  <2> QED
    BY <1>1, <2>1 DEF AsRead, InHand, TableStays
<1>9. ASSUME NEW g \in Flushers \ {f}, Holds(g, i)' PROVE AsRead(g, i)'
  <2>1. AsRead(g, i)
    BY <1>2, <1>3, <1>4, <1>9 DEF LoneInv
  <2> QED
    BY <1>1, <2>1, LoneKeeps DEF TableStays
<1> QED
  BY <1>7, <1>8, <1>9

LEMMA LoneMoves ==
  ASSUME BaseInv, HandInv, LoneInv, NEW f \in Flushers,
         FlushSend(f) \/ FlushRead(f) \/ FlushWrite(f) \/ Crash(f)
  PROVE  LoneInv'
<1> SUFFICES ASSUME NEW i \in Live', again'[i] = 0
             PROVE  /\ \A g, h \in Flushers : Holds(g, i)' /\ Holds(h, i)' => g = h
                    /\ \A g \in Flushers : Holds(g, i)' => AsRead(g, i)'
  BY DEF LoneInv
<1>1. UNCHANGED again /\ Others(f) /\ created' = created
  BY FlusherHolds, SendDoes, ReadDoes, WriteDoes, CrashDoes DEF TableStays
<1>2. i \in Live /\ again[i] = 0
  BY <1>1 DEF Live
<1>3. Holds(f, i)' => Holds(f, i)
  BY <1>2, FlusherHolds
<1>4. Holds(f, i) => AsRead(f, i)
  BY <1>2 DEF LoneInv
<1>5. CASE FlushSend(f)
  <2>1. PICK j \in Live, ok \in BOOLEAN :
           /\ j \in DOMAIN fbatch[f] /\ fpc'[f] = "sent" /\ TableStays
           /\ DOMAIN fbatch'[f] = DOMAIN fbatch[f] \ {j}
           /\ \A k \in DOMAIN fbatch'[f] : fbatch'[f][k] = fbatch[f][k]
           /\ fsent'[f].id = j /\ fsent'[f].tries = fbatch[f][j] + 1
    BY <1>5, SendDoes
  <2>2. Holds(f, i)' => AsRead(f, i)'
    BY <1>3, <1>4, <2>1 DEF AsRead, InHand, TableStays
  <2> QED
    BY <1>1, <1>2, <1>5, <2>1, <2>2, LoneRest DEF TableStays
<1>6. CASE FlushRead(f)
  <2>1. /\ fpc[f] = "sent" /\ fpc'[f] = "seen" /\ TableStays /\ fbatch'[f] = fbatch[f] /\ fsent'[f] = fsent[f]
        /\ fseen'[f].status = status[fsent[f].id] /\ fseen'[f].attempts = attempts[fsent[f].id]
    BY <1>6, ReadDoes
  <2>2. Holds(f, i)' => AsRead(f, i)'
    BY <1>3, <1>4, <2>1 DEF AsRead, InHand, TableStays
  <2> QED
    BY <1>1, <1>2, <1>6, <2>1, <2>2, LoneRest DEF TableStays
<1>7. CASE FlushWrite(f)
  <2>1. /\ i = fsent[f].id => Holds(f, i) /\ ~Holds(f, i)'
        /\ ~InHand(f)'
        /\ i # fsent[f].id => status'[i] = status[i] /\ attempts'[i] = attempts[i]
        /\ \A k \in DOMAIN fbatch'[f] : k \in DOMAIN fbatch[f] /\ fbatch'[f][k] = fbatch[f][k]
    BY <1>2, <1>7, WriteHolds
  <2>2. CASE i = fsent[f].id
    <3>1. \A g \in Flushers : Holds(g, i) => g = f
      BY <1>2, <2>1, <2>2 DEF LoneInv
    <3>2. \A g \in Flushers : ~Holds(g, i)'
      BY <1>2, <1>7, <2>1, <2>2, <3>1, FlusherHolds
    <3> QED
      BY <3>2
  <2>3. CASE i # fsent[f].id
    <3>1. Holds(f, i)' => AsRead(f, i)'
      BY <1>3, <1>4, <2>1, <2>3 DEF AsRead, InHand
    <3> QED
      BY <1>1, <1>2, <1>7, <2>1, <2>3, <3>1, LoneRest
  <2> QED
    BY <2>2, <2>3
<1>8. CASE Crash(f)
  <2>1. TableStays /\ fpc'[f] = "ready" /\ DOMAIN fbatch'[f] = {}
    BY <1>8, CrashDoes
  <2>2. ~Holds(f, i)'
    BY <2>1 DEF Holds, InHand
  <2> QED
    BY <1>1, <1>2, <1>8, <2>1, <2>2, LoneRest DEF TableStays
<1> QED
  BY <1>5, <1>6, <1>7, <1>8

LEMMA LoneStep == ASSUME BaseInv, RaceTypeOK, HandInv, LoneInv, [Next]_vars PROVE LoneInv'
<1>1. ASSUME TableStays, UNCHANGED <<flusher, again>> PROVE LoneInv'
  BY <1>1 DEF TableStays, flusher, LoneInv, AsRead, Holds, InHand, Live
<1>2. ASSUME Grown, UNCHANGED again PROVE LoneInv'
  <2>1. \A i \in Live : status'[i] = status[i] /\ attempts'[i] = attempts[i]
    BY <1>2, GrownTable
  <2>2. \A f \in Flushers, i \in Live : AsRead(f, i) => AsRead(f, i)'
    BY <1>2, <2>1, NewNotHeld DEF AsRead, InHand, flusher
  <2> QED
    BY <1>2, <2>1, <2>2, NewNotHeld DEF LoneInv
<1> QED
  BY <1>1, <1>2, LoneSelect, LoneMoves, OtherSteps, VarsStay DEF history, flushHistory

LEMMA LoneStart == ASSUME Init PROVE LoneInv
BY DEF Init, LoneInv, Live

(* What no step takes back, and whose write changes a status. *)
LEMMA RecordsGrow ==
  ASSUME BaseInv, RaceTypeOK, HandInv, [Next]_vars
  PROVE  \A i \in Ids : again'[i] >= again[i] /\ again[i] \in Nat /\ again'[i] \in Nat
<1>1. \A i \in Ids : again[i] \in Nat
  BY DEF RaceTypeOK
<1>2. CASE UNCHANGED again
  BY <1>1, <1>2
<1>3. ASSUME NEW f \in Flushers, FlushSelect(f) PROVE \A i \in Ids : again'[i] >= again[i] /\ again'[i] \in Nat
  BY <1>1, <1>3, SelectHolds DEF RaceTypeOK
<1> QED
  BY <1>1, <1>2, <1>3, FlusherHolds, OtherSteps, VarsStay DEF history, flushHistory

LEMMA HoldersWrite ==
  ASSUME BaseInv, HandInv, [Next]_vars, NEW i \in Live, status'[i] # status[i]
  PROVE  \E f \in Flushers : Holds(f, i) /\ ~Holds(f, i)' /\ UNCHANGED again
<1>1. \A f \in Flushers : FlushSelect(f) \/ FlushSend(f) \/ FlushRead(f) \/ Crash(f) => TableStays
  BY SelectDoes, SendDoes, ReadDoes, CrashDoes
<1>2. PICK f \in Flushers : FlushWrite(f)
  BY <1>1, OtherSteps, GrownTable, VarsStay DEF TableStays
<1>3. i = fsent[f].id
  BY <1>2, WriteHolds
<1> QED
  BY <1>2, <1>3, WriteHolds, FlusherHolds

LEMMA TableMoves ==
  ASSUME BaseInv, RaceTypeOK, HandInv, LoneInv, [Next]_vars
  PROVE  /\ Live \subseteq Live'
         /\ \A i \in Live : /\ i \in Ids /\ rows'[i] = rows[i] /\ again'[i] >= again[i]
                            /\ again[i] \in Nat /\ again'[i] \in Nat
                            /\ status'[i] = status[i] \/ status[i] = PENDING \/ again[i] > 0
<1>1. Live \subseteq Live' /\ \A i \in Live : i \in Ids /\ rows'[i] = rows[i]
  <2>1. CASE Grown
    BY <2>1, GrownTable, TypesUnfold
  <2>2. CASE UNCHANGED <<rows, created>>
    BY <2>2, TypesUnfold DEF Live
  <2> QED
    BY <2>1, <2>2, OtherSteps, VarsStay, SelectDoes, SendDoes, ReadDoes, WriteDoes, CrashDoes DEF TableStays
<1>2. ASSUME NEW i \in Live, status'[i] # status[i] PROVE status[i] = PENDING \/ again[i] > 0
  <2>1. PICK f \in Flushers : Holds(f, i)
    BY <1>2, HoldersWrite
  <2>2. again[i] \in Nat
    BY <1>1, RecordsGrow
  <2> QED
    BY <2>1, <2>2 DEF LoneInv, AsRead
<1> QED
  BY <1>1, <1>2, RecordsGrow

LEMMA SettledMoves ==
  ASSUME BaseInv, RaceTypeOK, HandInv, HandInv', LoneInv, [Next]_vars,
         NEW i \in Ids, status[i] \in {DELIVERED, FAILED}
  PROVE  /\ Holders(i)' \subseteq Holders(i)
         /\ status'[i] # status[i] => again[i] > 0 /\ Holders(i)' # Holders(i)
<1>1. i \in Live /\ i # NoId
  BY TypesUnfold, StatusesDiffer DEF Ids, NoId
<1>2. Holders(i) = {f \in Flushers : Holds(f, i)}
  BY HoldersAre
<1>3. Holders(i)' = {f \in Flushers : Holds(f, i)'}
  <2>1. ASSUME NEW f \in Flushers PROVE fsent'[f].id = i <=> InHand(f)' /\ fsent'[f].id = i
    BY <1>1 DEF HandInv
  <2> QED
    BY <2>1 DEF Holders, Holds
<1>4. ASSUME NEW g \in Flushers, Holds(g, i)' PROVE Holds(g, i)
  <2>1. CASE UNCHANGED flusher
    BY <1>4, <2>1 DEF Holds, InHand, flusher
  <2>2. ASSUME NEW f \in Flushers, FlushSelect(f) PROVE Holds(g, i)
    BY <1>1, <1>4, <2>2, SelectHolds, StatusesDiffer
  <2>3. ASSUME NEW f \in Flushers, FlushSend(f) \/ FlushRead(f) \/ FlushWrite(f) \/ Crash(f) PROVE Holds(g, i)
    BY <1>1, <1>4, <2>3, FlusherHolds
  <2> QED
    BY <2>1, <2>2, <2>3, OtherSteps, VarsStay DEF Grown
<1>5. status'[i] # status[i] => again[i] > 0
  BY <1>1, TableMoves, StatusesDiffer
<1>6. status'[i] # status[i] => \E f \in Flushers : Holds(f, i) /\ ~Holds(f, i)'
  BY <1>1, HoldersWrite
<1> QED
  BY <1>2, <1>3, <1>4, <1>5, <1>6

(* Of a delivered or failed row nobody takes a new copy, and its verdict   *)
(* is changed only by a flusher that took it while another one held it     *)
(* (or was held by it), which lets go of it.  So it holds for any number   *)
(* of workers and operator sweeps, kills and deletions.                    *)
THEOREM SettledRowsStay == Spec => SettledStaysSettled
<1> DEFINE Inv == BaseInv /\ RaceTypeOK /\ HandInv /\ LoneInv
           Kept == \A i \in Ids : status[i] \in {DELIVERED, FAILED} =>
                     /\ Holders(i)' \subseteq Holders(i)
                     /\ status'[i] # status[i] => again[i] > 0 /\ Holders(i)' # Holders(i)
<1>1. Init => Inv
  BY BaseInit, RaceTypesStart, HandStart, LoneStart
<1>2. Inv /\ [Next]_vars => Inv'
  BY BaseStep, RaceTypesStep, HandStep, LoneStep
<1>3. Inv /\ Inv' /\ [Next]_vars => [Kept]_vars
  BY SettledMoves
<1>4. SettledStaysSettled <=> [][Kept]_vars
  BY PTL DEF SettledStaysSettled
<1> HIDE DEF Inv, Kept
<1> QED
  BY <1>1, <1>2, <1>3, <1>4, PTL DEF Spec

-----------------------------------------------------------------------------
(* OpenInv *)

(* What a table that only grows and settles keeps of the open deliveries.  *)
TableGrows ==
    /\ Live \subseteq Live' /\ blind \subseteq blind'
    /\ \A i \in Live : /\ rows'[i] = rows[i]
                       /\ again[i] > 0 => again'[i] > 0
                       /\ status'[i] = PENDING => status[i] = PENDING \/ again[i] > 0

LEMMA ExcusesStay ==
  ASSUME TableGrows, NEW i \in Live
  PROVE  /\ BlindAfter(i) \subseteq BlindAfter(i)'
         /\ \A d, s : Alerts(i, d, s)' <=> Alerts(i, d, s)
BY DEF TableGrows, BlindAfter, Alerts

LEMMA OrderStays ==
  ASSUME BaseInv, OpenInOrder, TableGrows,
         \A i \in Live' \ Live : rows'[i].redrive_of # NoId
  PROVE  OpenInOrder'
<1> SUFFICES ASSUME NEW i \in Live', NEW k \in Live', status'[i] = PENDING, rows'[i].redrive_of = NoId,
                    rows'[i].signal # Event, Alerts(k, rows[i].dest, rows[i].signal)', i < k
             PROVE  again'[i] > 0 \/ \E n \in BlindAfter(i)' : n <= k
  BY DEF OpenInOrder
<1>1. i \in Live /\ k \in Live
  BY DEF Alerts
<1>2. /\ rows'[i] = rows[i] /\ rows'[k] = rows[k]
      /\ status[i] = PENDING \/ again[i] > 0
      /\ again[i] > 0 => again'[i] > 0
  BY <1>1 DEF TableGrows
<1>3. Alerts(k, rows[i].dest, rows[i].signal)
  BY <1>1, <1>2 DEF Alerts
<1> QED
  BY <1>1, <1>2, <1>3, ExcusesStay DEF OpenInOrder, TableGrows

(* A sweep's own inserts stay due while others insert what it has met.     *)
LEMMA DueStays ==
  ASSUME BaseInv, TableGrows, NEW q \in Routers, NEW n \in DOMAIN rnew[q], NewDue(q, n),
         rnew'[q] = rnew[q], rtodo'[q] = rtodo[q], met[q] \subseteq met'[q],
         \A i \in Live' \ Live : Alerts(i, rnew[q][n].dest, rnew[q][n].signal)' =>
             <<rnew[q][n].dest, rnew[q][n].signal>> \in met'[q]
  PROVE  NewDue(q, n)'
<1> DEFINE d == rnew[q][n].dest
           s == rnew[q][n].signal
<1>1. CASE s = Event
  BY <1>1 DEF NewDue
<1>2. CASE s # Event
  <2>1. /\ <<d, s>> \notin met[q] =>
             \A i \in Live : Alerts(i, d, s) /\ status[i] = PENDING => again[i] > 0 \/ BlindAfter(i) # {}
        /\ <<d, s>> \notin rtodo[q]
        /\ \A m \in DOMAIN rnew[q] : rnew[q][m].dest = d /\ rnew[q][m].signal = s => m = n
    BY <1>2 DEF NewDue
  <2>2. ASSUME <<d, s>> \notin met'[q], NEW i \in Live', Alerts(i, d, s)', status'[i] = PENDING
        PROVE  again'[i] > 0 \/ BlindAfter(i)' # {}
    <3>1. i \in Live /\ Alerts(i, d, s)
      <4>1. i \in Live
        BY <2>2 DEF Alerts
      <4> QED
        BY <2>2, <4>1 DEF Alerts, TableGrows
    <3>2. again[i] > 0 \/ BlindAfter(i) # {}
      BY <2>1, <2>2, <3>1 DEF TableGrows
    <3> QED
      BY <3>1, <3>2, ExcusesStay DEF TableGrows
  <2>3. <<d, s>> \notin met'[q] =>
             \A i \in Live' : (i \in Live' /\ rows'[i].redrive_of = NoId /\ rows'[i].dest = d /\ rows'[i].signal = s)
                                 /\ status'[i] = PENDING => again'[i] > 0 \/ BlindAfter(i)' # {}
    BY <2>2 DEF Alerts
  <2> HIDE DEF d, s
  <2> QED
    BY <2>1, <2>3 DEF NewDue, Alerts, d, s
<1> QED
  BY <1>1, <1>2

(* Steps by which rows only settle and no router moves. *)
LEMMA OpenStays ==
  ASSUME BaseInv, OpenInv, TableGrows, UNCHANGED <<created, router, met>>
  PROVE  OpenInv'
<1>1. Live' = Live
  BY DEF Live
<1>2. OpenInOrder'
  BY <1>1, OrderStays DEF OpenInv
<1>3. ASSUME NEW r \in Routers, NEW n \in DOMAIN rnew[r] PROVE NewDue(r, n)'
  BY <1>1, <1>3, DueStays DEF OpenInv, NewAreDue, router
<1> QED
  BY <1>2, <1>3 DEF OpenInv, NewAreDue, router

(* The pair that is decided on has nothing open, but for the races: what   *)
(* is open is the last of its pair, or has an excused one after it.        *)
LEMMA DecidedIsDue ==
  ASSUME BaseInv, OpenInv, NEW d, NEW s, s # Event, NEW i \in Live, Alerts(i, d, s), status[i] = PENDING,
         Latest(d, s) # NoId => status[Latest(d, s)] # PENDING
  PROVE  again[i] > 0 \/ BlindAfter(i) # {}
<1>1. Live \subseteq Ids /\ \A k \in Live : k \in Int /\ k # NoId
  BY TypesUnfold DEF Live, NoId
<1>2. i \in Keyed(d, s) /\ \A k \in Keyed(d, s) : k \in Live /\ Alerts(k, d, s)
  BY <1>1, TypesUnfold DEF Keyed, Alerts
<1> DEFINE last == CHOOSE l \in Keyed(d, s) : \A k \in Keyed(d, s) : k <= l
<1>3. Latest(d, s) = last
  BY <1>2 DEF Latest
<1>4. CASE \E k \in Keyed(d, s) : i < k
  <2>1. PICK k \in Keyed(d, s) : i < k
    BY <1>4
  <2>2. again[i] > 0 \/ \E n \in BlindAfter(i) : n <= k
    BY <1>2, <2>1 DEF OpenInv, OpenInOrder, Alerts
  <2> QED
    BY <2>2
<1>5. CASE \A k \in Keyed(d, s) : ~(i < k)
  <2>1. \A k \in Keyed(d, s) : k <= i
    BY <1>1, <1>2, <1>5
  <2>2. last \in Keyed(d, s) /\ \A k \in Keyed(d, s) : k <= last
    BY <1>2, <2>1
  <2> HIDE DEF last
  <2>3. last = i
    BY <1>1, <1>2, <2>1, <2>2
  <2> QED
    BY <1>1, <1>3, <2>3
<1> QED
  BY <1>4, <1>5

LEMMA OpenDecides == ASSUME BaseInv, RaceTypeOK, OpenInv, NEW r \in Routers, RouteDecide(r) PROVE OpenInv'
<1>1. PICK p, new : Decides(r, p, new)
  BY RouteDecides
<1>2. TableStays /\ UNCHANGED <<again, blind>>
  BY DEF RouteDecide, TableStays, delivery, flushHistory
<1>3. RouterAt(r, "decide", ralerts[r], rdests[r], rtodo[r] \ {p}, new) /\ met' = [met EXCEPT ![r] = @ \ {p}]
  BY <1>1 DEF Decides
<1>4. /\ rtodo'[r] = rtodo[r] \ {p} /\ rnew'[r] = new /\ rpc'[r] = "decide" /\ met'[r] = met[r] \ {p}
      /\ \A q \in Routers \ {r} : /\ rtodo'[q] = rtodo[q] /\ rnew'[q] = rnew[q] /\ rpc'[q] = rpc[q]
                                  /\ met'[q] = met[q]
  BY <1>3 DEF RouterAt, BaseInv, WorkTypeOK, RouterTypeOK, RaceTypeOK
<1>5. Live' = Live /\ TableGrows
  BY <1>2 DEF TableStays, Live, TableGrows
<1>6. OpenInOrder'
  BY <1>5, OrderStays DEF OpenInv
<1>7. \A q \in Routers \ {r} : \A n \in DOMAIN rnew[q] : NewDue(q, n)'
  BY <1>4, <1>5, DueStays DEF OpenInv, NewAreDue
<1> DEFINE DueIn(seen, seq, todo, n) ==
             seq[n].signal # Event =>
               /\ <<seq[n].dest, seq[n].signal>> \notin seen =>
                    \A i \in Live : Alerts(i, seq[n].dest, seq[n].signal) /\ status[i] = PENDING =>
                        again[i] > 0 \/ BlindAfter(i) # {}
               /\ <<seq[n].dest, seq[n].signal>> \notin todo
               /\ \A m \in DOMAIN seq : seq[m].dest = seq[n].dest /\ seq[m].signal = seq[n].signal => m = n
<1>8. \A n \in DOMAIN rnew[r] : DueIn(met[r], rnew[r], rtodo[r], n)
  BY DEF OpenInv, NewAreDue, NewDue
<1>9. ASSUME NEW n \in DOMAIN rnew[r], rnew[r][n].signal # Event
      PROVE  <<rnew[r][n].dest, rnew[r][n].signal>> # p
  <2>1. p \in rtodo[r]
    BY <1>1, DecidesTyped
  <2>2. DueIn(met[r], rnew[r], rtodo[r], n)
    BY <1>8
  <2> QED
    BY <1>9, <2>1, <2>2
<1>10. \A n \in DOMAIN rnew[r] : DueIn(met[r] \ {p}, rnew[r], rtodo[r] \ {p}, n)
  BY <1>8, <1>9
<1>11. \A n \in DOMAIN new : DueIn(met[r] \ {p}, new, rtodo[r] \ {p}, n)
  <2>1. CASE new = rnew[r]
    BY <1>10, <2>1
  <2>2. ASSUME NEW x \in Requests, new = Append(rnew[r], x), x.dest = p[1], x.signal = p[2],
               alert_routing_decision(p[1], p[2], ralerts[r][p[2]].severity, ralerts[r][p[2]].count)
        PROVE  \A n \in DOMAIN new : DueIn(met[r] \ {p}, new, rtodo[r] \ {p}, n)
    <3>1. /\ p \in rtodo[r] /\ p[1] \in Dests /\ p[2] \in Signals /\ p = <<p[1], p[2]>>
          /\ rnew[r] \in Seq(Requests) /\ p[2] # Event
      BY <1>1, DecidesTyped, RouterTypes, DeliveryAssumption
    <3> DEFINE last == Len(rnew[r]) + 1
    <3>2. /\ DOMAIN new = DOMAIN rnew[r] \cup {last} /\ last \notin DOMAIN rnew[r] /\ new[last] = x
          /\ \A n \in DOMAIN rnew[r] : new[n] = rnew[r][n]
      BY <2>2, <3>1
    <3> HIDE DEF last
    <3>3. ASSUME NEW i \in Live, Alerts(i, p[1], p[2]), status[i] = PENDING
          PROVE  again[i] > 0 \/ BlindAfter(i) # {}
      <4>1. Latest(p[1], p[2]) # NoId => status[Latest(p[1], p[2])] # PENDING
        BY <2>2 DEF alert_routing_decision
      <4> QED
        BY <3>1, <3>3, <4>1, DecidedIsDue
    <3>4. \A n \in DOMAIN rnew[r] : ~(rnew[r][n].dest = x.dest /\ rnew[r][n].signal = x.signal)
      BY <1>9, <2>2, <3>1
    <3>5. DueIn(met[r] \ {p}, new, rtodo[r] \ {p}, last)
      BY <2>2, <3>1, <3>2, <3>3, <3>4
    <3>6. ASSUME NEW n \in DOMAIN rnew[r] PROVE DueIn(met[r] \ {p}, new, rtodo[r] \ {p}, n)
      <4>1. new[n] = rnew[r][n] /\ DueIn(met[r] \ {p}, rnew[r], rtodo[r] \ {p}, n)
        BY <1>10, <3>2
      <4>2. \A m \in DOMAIN new : m \in DOMAIN rnew[r] \/ new[m] = x
        BY <3>2
      <4> QED
        BY <3>2, <3>4, <4>1, <4>2
    <3> QED
      BY <3>2, <3>5, <3>6
  <2>3. new = rnew[r] \/ \E x \in Requests :
            /\ new = Append(rnew[r], x) /\ x.dest = p[1] /\ x.signal = p[2]
            /\ alert_routing_decision(p[1], p[2], ralerts[r][p[2]].severity, ralerts[r][p[2]].count)
    BY <1>1, DecidesTyped
  <2> HIDE DEF DueIn
  <2> QED
    BY <2>1, <2>2, <2>3
<1>12. \A i, d, s : Alerts(i, d, s)' <=> Alerts(i, d, s)
  BY <1>2 DEF TableStays, Live, Alerts
<1>13. \A i \in Live : BlindAfter(i)' = BlindAfter(i)
  BY <1>2, <1>12 DEF BlindAfter, TableStays
<1>14. \A n \in DOMAIN rnew'[r] : DueIn(met'[r], rnew'[r], rtodo'[r], n)
  BY <1>4, <1>11
<1>15. \A n \in DOMAIN rnew'[r] : NewDue(r, n)'
  BY <1>2, <1>5, <1>12, <1>13, <1>14 DEF NewDue, TableStays
<1>16. NewAreDue'
  BY <1>4, <1>7, <1>15 DEF OpenInv, NewAreDue
<1> QED
  BY <1>6, <1>16 DEF OpenInv

(* A sweep's commit opens what it has decided on; what another sweep has   *)
(* opened since is on record, here as blind and there as met.              *)
LEMMA OpenCommits ==
  ASSUME BaseInv, RaceTypeOK, OpenInv, TableGrows, NEW r \in Routers, RouteCommit(r)
  PROVE  OpenInv'
<1>1. RouterAt(r, "ready", NoAlerts, {}, {}, <<>>)
  BY DEF RouteCommit, RouterDone
<1>2. /\ DOMAIN rnew'[r] = {}
      /\ \A q \in Routers \ {r} : rtodo'[q] = rtodo[q] /\ rnew'[q] = rnew[q] /\ rpc'[q] = rpc[q]
  <2> DEFINE none == <<>>
  <2>1. DOMAIN none = {} /\ rnew' = [rnew EXCEPT ![r] = none]
    BY <1>1 DEF RouterAt
  <2> HIDE DEF none
  <2> QED
    BY <1>1, <2>1 DEF RouterAt, BaseInv, WorkTypeOK, RouterTypeOK
<1>3. ASSUME \A q \in Routers \ {r} : \A n \in DOMAIN rnew[q] : NewDue(q, n)'
      PROVE  NewAreDue'
  BY <1>2, <1>3 DEF OpenInv, NewAreDue
<1>4. CASE UNCHANGED <<delivery, occurrences, blind>> /\ met' = [met EXCEPT ![r] = {}]
  <2>1. Live' = Live
    BY <1>4 DEF delivery, Live
  <2>2. OpenInOrder'
    BY <2>1, OrderStays DEF OpenInv
  <2>3. \A q \in Routers \ {r} : met'[q] = met[q]
    BY <1>4 DEF RaceTypeOK
  <2>4. \A q \in Routers \ {r} : \A n \in DOMAIN rnew[q] : NewDue(q, n)'
    BY <1>2, <2>1, <2>3, DueStays DEF OpenInv, NewAreDue
  <2> QED
    BY <1>3, <2>2, <2>4 DEF OpenInv
<1>5. ASSUME Committed(r),
             met' = [q \in Routers |-> IF q = r \/ rpc[q] = "ready" THEN {} ELSE met[q] \cup Opening(r)],
             blind' = blind \cup
                {i \in Fresh(r) : <<rnew[r][i - created].dest, rnew[r][i - created].signal>> \in met[r]}
      PROVE  OpenInv'
  <2>1. /\ Grown /\ created \in Nat /\ created' \in Nat
        /\ \A i \in Ids : i > created /\ i <= created' =>
               i - created \in DOMAIN rnew[r] /\ rows'[i] = rnew[r][i - created]
    BY <1>5, CommittedGrows DEF Grown, BaseInv, WorkTypeOK, DeliveryTypeOK
  <2>2. /\ Live \subseteq Live' /\ \A i \in Live' \ Live : i \in Ids /\ status'[i] = PENDING
        /\ \A i \in Live : rows'[i] = rows[i] /\ i <= created
        /\ \A i \in Live' : i \in Int
        /\ \A i \in Live' \ Live : i > created /\ i <= created'
    BY <2>1, GrownTable DEF Live
  <2>3. \A i \in Live' \ Live : i - created \in DOMAIN rnew[r] /\ rows'[i] = rnew[r][i - created]
    BY <2>1, <2>2
  <2>4. \A i \in Live' \ Live : i \in Fresh(r)
    BY <1>5, <2>1, <2>2 DEF Fresh, Committed
  <2>5. ASSUME NEW q \in Routers \ {r}, NEW n \in DOMAIN rnew[q] PROVE NewDue(q, n)'
    <3>1. rpc[q] # "ready" /\ met'[q] = met[q] \cup Opening(r) /\ NewDue(q, n)
      BY <1>5, <2>5 DEF OpenInv, NewAreDue
    <3>2. ASSUME NEW i \in Live' \ Live, Alerts(i, rnew[q][n].dest, rnew[q][n].signal)',
                 rnew[q][n].signal # Event
          PROVE  <<rnew[q][n].dest, rnew[q][n].signal>> \in met'[q]
      <4>1. rows'[i].dest = rnew[q][n].dest /\ rows'[i].signal = rnew[q][n].signal
        BY <1>2, <3>2 DEF Alerts
      <4>2. rnew[q][n].dest \in Dests /\ rnew[q][n].signal \in Signals \cup {Event}
        BY <2>5, RouterTypes DEF Requests
      <4>3. <<rnew[q][n].dest, rnew[q][n].signal>> \in Opening(r)
        BY <2>3, <3>2, <4>1, <4>2 DEF Opening, Pairs
      <4> QED
        BY <3>1, <4>3
    <3>3. CASE rnew[q][n].signal = Event
      BY <1>2, <3>3 DEF NewDue
    <3>4. CASE rnew[q][n].signal # Event
      BY <1>2, <2>5, <3>1, <3>2, <3>4, DueStays
    <3> QED
      BY <3>3, <3>4
  <2>6. ASSUME NEW i \in Live', NEW k \in Live', status'[i] = PENDING, rows'[i].signal # Event,
               rows'[i].redrive_of = NoId, rows'[k].redrive_of = NoId,
               rows'[k].dest = rows'[i].dest, rows'[k].signal = rows'[i].signal, i < k
        PROVE  again'[i] > 0 \/ \E n \in BlindAfter(i)' : n <= k
    <3>1. CASE i \in Live /\ k \in Live
      <4>1. status[i] = PENDING \/ again[i] > 0
        BY <2>6, <3>1 DEF TableGrows
      <4>2. again[i] > 0 \/ \E n \in BlindAfter(i) : n <= k
        BY <2>2, <2>6, <3>1, <4>1 DEF OpenInv, OpenInOrder, Alerts
      <4> QED
        BY <3>1, <4>2, ExcusesStay DEF TableGrows
    <3>2. CASE i \notin Live /\ k \in Live
      BY <2>1, <2>2, <2>6, <3>2
    <3>3. CASE i \in Live /\ k \notin Live
      <4> DEFINE m == k - created
      <4>1. /\ m \in DOMAIN rnew[r] /\ rows'[k] = rnew[r][m] /\ rnew[r][m].signal # Event
            /\ Alerts(i, rnew[r][m].dest, rnew[r][m].signal)
        BY <2>2, <2>3, <2>6, <3>3 DEF Alerts
      <4>2. status[i] = PENDING \/ again[i] > 0
        BY <2>6, <3>3 DEF TableGrows
      <4>3. CASE <<rnew[r][m].dest, rnew[r][m].signal>> \in met[r]
        <5>1. k \in blind'
          BY <1>5, <2>4, <3>3, <4>3
        <5>2. k \in BlindAfter(i)'
          BY <2>6, <5>1 DEF BlindAfter, Alerts
        <5> QED
          BY <2>2, <5>2
      <4>4. CASE <<rnew[r][m].dest, rnew[r][m].signal>> \notin met[r]
        <5>1. again[i] > 0 \/ BlindAfter(i) # {}
          BY <3>3, <4>1, <4>2, <4>4 DEF OpenInv, NewAreDue, NewDue
        <5>2. \A n \in BlindAfter(i) : n \in Live
          BY DEF BlindAfter, Alerts
        <5>3. \A n \in Live : n <= k
          BY <2>1, <2>2, <3>3
        <5> QED
          BY <3>3, <5>1, <5>2, <5>3, ExcusesStay DEF TableGrows
      <4> QED
        BY <4>3, <4>4
    <3>4. CASE i \notin Live /\ k \notin Live
      <4>1. /\ i - created \in DOMAIN rnew[r] /\ rows'[i] = rnew[r][i - created]
            /\ k - created \in DOMAIN rnew[r] /\ rows'[k] = rnew[r][k - created]
        BY <2>3, <3>4
      <4>2. k - created = i - created
        BY <2>6, <4>1 DEF OpenInv, NewAreDue, NewDue
      <4> QED
        BY <2>1, <2>2, <2>6, <4>2
    <3> QED
      BY <3>1, <3>2, <3>3, <3>4
  <2>7. OpenInOrder'
    BY <2>6 DEF OpenInOrder, Alerts
  <2> QED
    BY <1>3, <2>5, <2>7 DEF OpenInv
<1> QED
  BY <1>4, <1>5, CommitRecords

LEMMA BlindGrows ==
  ASSUME BaseInv, [Next]_vars
  PROVE  /\ blind \subseteq blind'
         /\ \A f \in Flushers : FlushSelect(f) \/ FlushSend(f) \/ FlushRead(f) \/ FlushWrite(f) \/ Crash(f) =>
                UNCHANGED <<met, blind>>
         /\ \A r \in Routers : RouteBegin(r) \/ EventBegin(r) => UNCHANGED <<met, blind>> /\ TableStays
<1>1. ASSUME NEW f \in Flushers, FlushSelect(f) \/ FlushSend(f) \/ FlushRead(f) \/ FlushWrite(f) \/ Crash(f)
      PROVE  UNCHANGED <<met, blind>>
  BY <1>1, SelectDoes, SendDoes, ReadDoes, WriteDoes, CrashDoes DEF history, routeHistory
<1>2. ASSUME NEW r \in Routers, RouteBegin(r) PROVE UNCHANGED <<met, blind>> /\ TableStays
  <2>1. UNCHANGED <<delivery, destination, occurrences, flusher, operator, crashes, flushHistory, met, blind>>
    BY <1>2, Zenon DEF RouteBegin
  <2> QED
    BY <2>1 DEF delivery, TableStays
<1>3. ASSUME NEW r \in Routers, EventBegin(r) PROVE UNCHANGED <<met, blind>> /\ TableStays
  <2>1. UNCHANGED <<delivery, destination, occurrences, flusher, operator, crashes, history>>
    BY <1>3, Zenon DEF EventBegin
  <2> QED
    BY <2>1 DEF delivery, TableStays, history, routeHistory
<1>4. ASSUME NEW r \in Routers, RouteDecide(r) PROVE blind' = blind
  BY <1>4 DEF RouteDecide
<1>5. ASSUME NEW r \in Routers, RouteCommit(r) PROVE blind \subseteq blind'
  BY <1>5, CommitRecords
<1>6. ASSUME NEW o \in Operators, RedriveCheck(o) \/ RedriveInsert(o) PROVE blind' = blind
  BY <1>6 DEF RedriveCheck, RedriveInsert, history, routeHistory
<1>7. ASSUME WorldStep \/ UNCHANGED vars PROVE blind' = blind
  BY <1>7, WorldRecords, VarsStay DEF history, routeHistory
<1> QED
  BY <1>1, <1>2, <1>3, <1>4, <1>5, <1>6, <1>7, Steps

(* A sweep that begins has opened nothing, and what an event opens is no   *)
(* alert.                                                                  *)
LEMMA OpenBegins ==
  ASSUME BaseInv, OpenInv, TableGrows, NEW r \in Routers, RouteBegin(r) \/ EventBegin(r),
         TableStays, UNCHANGED met
  PROVE  OpenInv'
<1>1. \E alerts, dests, todo, new : /\ RouterAt(r, "decide", alerts, dests, todo, new)
                                    /\ \A n \in DOMAIN new : new[n].signal = Event
  <2>1. CASE RouteBegin(r)
    <3>1. PICK alerts, dests, todo : Began(r, alerts, dests, todo)
      BY <2>1, RouteBegins
    <3> DEFINE none == <<>>
    <3>2. DOMAIN none = {} /\ RouterAt(r, "decide", alerts, dests, todo, none)
      BY <3>1 DEF Began
    <3> HIDE DEF none
    <3> QED
      BY <3>2
  <2>2. CASE EventBegin(r)
    BY <2>2, EventBegins DEF Announced
  <2> QED
    BY <2>1, <2>2
<1>2. PICK alerts, dests, todo, new : /\ RouterAt(r, "decide", alerts, dests, todo, new)
                                      /\ \A n \in DOMAIN new : new[n].signal = Event
  BY <1>1
<1>3. /\ rnew'[r] = new /\ rpc'[r] = "decide"
      /\ \A q \in Routers \ {r} : rtodo'[q] = rtodo[q] /\ rnew'[q] = rnew[q] /\ rpc'[q] = rpc[q]
  BY <1>2 DEF RouterAt, BaseInv, WorkTypeOK, RouterTypeOK
<1>4. Live' = Live
  BY DEF TableStays, Live
<1>5. OpenInOrder'
  BY <1>4, OrderStays DEF OpenInv
<1>6. \A q \in Routers \ {r} : \A n \in DOMAIN rnew[q] : NewDue(q, n)'
  BY <1>3, <1>4, DueStays DEF OpenInv, NewAreDue
<1>7. \A n \in DOMAIN rnew'[r] : NewDue(r, n)'
  BY <1>2, <1>3 DEF NewDue
<1>8. NewAreDue'
  BY <1>3, <1>6, <1>7 DEF OpenInv, NewAreDue
<1> QED
  BY <1>5, <1>8 DEF OpenInv

LEMMA OpenReinserts ==
  ASSUME BaseInv, OpenInv, TableGrows, NEW o \in Operators, RedriveInsert(o)
  PROVE  OpenInv'
<1>1. UNCHANGED <<router, met>>
  BY DEF RedriveInsert, history, routeHistory
<1>2. /\ Grown /\ created' = created + 1 /\ oroot[o] # NoId
      /\ rows'[created + 1] = RedriveOf(o) /\ RedriveOf(o).redrive_of = oroot[o]
  BY RedriveInserts
<1>3. created \in Nat
  BY DEF BaseInv, WorkTypeOK, DeliveryTypeOK
<1>4. \A i \in Live' \ Live : rows'[i].redrive_of # NoId
  BY <1>2, <1>3 DEF Live
<1>5. OpenInOrder'
  BY <1>4, OrderStays DEF OpenInv
<1>6. ASSUME NEW q \in Routers, NEW n \in DOMAIN rnew[q] PROVE NewDue(q, n)'
  BY <1>1, <1>4, <1>6, DueStays DEF OpenInv, NewAreDue, router, Alerts
<1> QED
  BY <1>1, <1>5, <1>6 DEF OpenInv, NewAreDue, router

LEMMA OpenStep ==
  ASSUME BaseInv, RaceTypeOK, HandInv, LoneInv, OpenInv, [Next]_vars
  PROVE  OpenInv'
<1>0. TableGrows
  <2>1. /\ Live \subseteq Live'
        /\ \A i \in Live : /\ rows'[i] = rows[i] /\ again'[i] >= again[i] /\ again[i] \in Nat /\ again'[i] \in Nat
                           /\ status'[i] = status[i] \/ status[i] = PENDING \/ again[i] > 0
    BY TableMoves
  <2>2. \A i \in Live : again[i] > 0 => again'[i] > 0
    BY <2>1
  <2> QED
    BY <2>1, <2>2, BlindGrows DEF TableGrows
<1>1. ASSUME UNCHANGED <<created, router, met>> PROVE OpenInv'
  BY <1>0, <1>1, OpenStays
<1>2. ASSUME NEW f \in Flushers,
             FlushSelect(f) \/ FlushSend(f) \/ FlushRead(f) \/ FlushWrite(f) \/ Crash(f)
      PROVE  OpenInv'
  BY <1>1, <1>2, BlindGrows, SelectDoes, SendDoes, ReadDoes, WriteDoes, CrashDoes DEF TableStays
<1>3. ASSUME NEW r \in Routers, RouteBegin(r) \/ EventBegin(r) PROVE OpenInv'
  BY <1>0, <1>3, BlindGrows, OpenBegins
<1>4. ASSUME NEW r \in Routers, RouteDecide(r) PROVE OpenInv'
  BY <1>4, OpenDecides
<1>5. ASSUME NEW r \in Routers, RouteCommit(r) PROVE OpenInv'
  BY <1>0, <1>5, OpenCommits
<1>6. ASSUME NEW o \in Operators, RedriveCheck(o) PROVE OpenInv'
  BY <1>1, <1>6 DEF RedriveCheck, delivery, history, routeHistory
<1>7. ASSUME NEW o \in Operators, RedriveInsert(o) PROVE OpenInv'
  BY <1>0, <1>7, OpenReinserts
<1>8. ASSUME WorldStep PROVE OpenInv'
  BY <1>1, <1>8, WorldBase, WorldRecords DEF history, routeHistory
<1>9. CASE UNCHANGED vars
  BY <1>1, <1>9, VarsStay DEF TableStays, history, routeHistory
<1> QED
  BY <1>2, <1>3, <1>4, <1>5, <1>6, <1>7, <1>8, <1>9, Steps

LEMMA OpenStart == ASSUME Init PROVE OpenInv
<1>1. Live = {}
  BY DEF Init, Live
<1>2. \A r \in Routers : DOMAIN rnew[r] = {}
  BY DEF Init
<1> QED
  BY <1>1, <1>2 DEF OpenInv, OpenInOrder, NewAreDue

LEMMA OpenShown == ASSUME BaseInv, OpenInv PROVE OneOpenPerSignal
<1> SUFFICES ASSUME NEW i \in Ids, NEW k \in Ids, status[i] = PENDING, status[k] # Absent, i < k,
                    rows[i].redrive_of = NoId, rows[k].redrive_of = NoId,
                    rows[i].dest = rows[k].dest, rows[i].signal = rows[k].signal, rows[i].signal # Event
             PROVE  \/ again[i] > 0
                    \/ \E n \in blind \cap Keyed(rows[i].dest, rows[i].signal) : i < n /\ n <= k
  BY DEF OneOpenPerSignal
<1>1. i \in Live /\ k \in Live
  BY TypesUnfold, StatusesDiffer
<1>2. again[i] > 0 \/ \E n \in BlindAfter(i) : n <= k
  BY <1>1 DEF OpenInv, OpenInOrder, Alerts
<1>3. \A n \in BlindAfter(i) : n \in blind /\ n \in Keyed(rows[i].dest, rows[i].signal) /\ i < n
  BY TypesUnfold DEF BlindAfter, Alerts, Keyed
<1> QED
  BY <1>2, <1>3

(* However many sweeps route and however many threads deliver: while a     *)
(* delivery of a signal to a destination is open, no later one of them is  *)
(* opened, but by a sweep that decided before another sweep's commit, or   *)
(* when the open one was settled once and reopened by a second flusher     *)
(* that had taken it too.                                                  *)
THEOREM SignalsOpenInOrder == Spec => []OneOpenPerSignal
<1> DEFINE Inv == BaseInv /\ RaceTypeOK /\ HandInv /\ LoneInv /\ OpenInv
<1>1. Init => Inv
  BY BaseInit, RaceTypesStart, HandStart, LoneStart, OpenStart
<1>2. Inv /\ [Next]_vars => Inv'
  BY BaseStep, RaceTypesStep, HandStep, LoneStep, OpenStep
<1>3. Inv => OneOpenPerSignal
  BY OpenShown
<1> HIDE DEF Inv
<1> QED
  BY <1>1, <1>2, <1>3, PTL DEF Spec

-----------------------------------------------------------------------------
(* RedriveInv *)

LEMMA RedrivesCounted ==
  ASSUME NEW i
  PROVE  /\ IsFiniteSet(redrives(i)) /\ Cardinality(redrives(i)) \in Nat
         /\ IsFiniteSet(OpenRedrives(i)) /\ Cardinality(OpenRedrives(i)) \in Nat
         /\ IsFiniteSet(Inserting(i)) /\ Cardinality(Inserting(i)) \in Nat
         /\ Cardinality(Inserting(i)) <= Cardinality(Operators) /\ Cardinality(Operators) \in Nat
<1>1. OpenRedrives(i) \subseteq redrives(i) /\ Inserting(i) \subseteq Operators /\ IsFiniteSet(Operators)
  BY DeliveryAssumption DEF OpenRedrives, Inserting
<1> QED
  BY <1>1, RedrivesFinite, FS_Subset, FS_CardinalityType

(* A set that shrinks has no more elements. *)
LEMMA NoMore ==
  ASSUME NEW S, IsFiniteSet(S), NEW T \in SUBSET S
  PROVE  Cardinality(T) <= Cardinality(S) /\ Cardinality(S) \in Nat /\ Cardinality(T) \in Nat
BY FS_Subset, FS_CardinalityType

(* What holds of the redrives of any row after a step that inserts none.   *)
LEMMA RedrivesStay ==
  ASSUME BaseInv, BaseInv', TableGrows, NEW i \in Ids,
         \A k \in Live : again[k] \in Nat /\ again'[k] \in Nat,
         \A k \in Live' \ Live : rows'[k].redrive_of # i
  PROVE  redrives(i)' = redrives(i) /\ OpenRedrives(i)' \subseteq OpenRedrives(i)
<1>1. \A k \in Ids : (status[k] # Absent <=> k \in Live) /\ (status'[k] # Absent <=> k \in Live')
  <2>1. /\ created \in Nat /\ created <= MaxDeliveries /\ created' \in Nat /\ created' <= MaxDeliveries
        /\ \A k \in Ids : (status[k] # Absent <=> k <= created) /\ (status'[k] # Absent <=> k <= created')
    BY DEF BaseInv, RowsKept, WorkTypeOK, DeliveryTypeOK
  <2> QED
    BY <2>1 DEF Live, Ids
<1>2. redrives(i)' = redrives(i)
  BY <1>1 DEF redrives, TableGrows
<1>3. ASSUME NEW k \in redrives(i), status'[k] = PENDING, again'[k] = 0
      PROVE  status[k] = PENDING /\ again[k] = 0
  <2>1. k \in Live
    BY <1>1 DEF redrives
  <2>2. again[k] = 0
    BY <1>3, <2>1 DEF TableGrows
  <2> QED
    BY <1>3, <2>1, <2>2 DEF TableGrows
<1> QED
  BY <1>2, <1>3 DEF OpenRedrives

LEMMA RedriveStays ==
  ASSUME BaseInv, BaseInv', RedriveInv, TableGrows, UNCHANGED operator,
         \A k \in Live : again[k] \in Nat /\ again'[k] \in Nat,
         \A k \in Live' \ Live : rows'[k].redrive_of = NoId
  PROVE  RedriveInv'
<1> SUFFICES ASSUME NEW i \in Ids
             PROVE  /\ Cardinality(redrives(i)') + Cardinality(Inserting(i)')
                           < AtLeast1(RedriveLimit) + Cardinality(Operators)
                    /\ Cardinality(OpenRedrives(i)') + Cardinality(Inserting(i)') <= Cardinality(Operators)
  BY DEF RedriveInv
<1>1. i # NoId
  BY DEF Ids, NoId
<1>2. redrives(i)' = redrives(i) /\ OpenRedrives(i)' \subseteq OpenRedrives(i)
  BY <1>1, RedrivesStay
<1>3. Inserting(i)' = Inserting(i)
  BY DEF Inserting, operator
<1>4. Cardinality(OpenRedrives(i)') <= Cardinality(OpenRedrives(i)) /\ Cardinality(OpenRedrives(i)') \in Nat
  BY <1>2, RedrivesCounted, NoMore
<1>5. /\ Cardinality(redrives(i)) + Cardinality(Inserting(i)) < AtLeast1(RedriveLimit) + Cardinality(Operators)
      /\ Cardinality(OpenRedrives(i)) + Cardinality(Inserting(i)) <= Cardinality(Operators)
  BY DEF RedriveInv
<1> QED
  BY <1>2, <1>3, <1>4, <1>5, RedrivesCounted

(* The check leaves room for this operator, since the row has no open      *)
(* redrive and at most all operators are about to insert one.              *)
LEMMA RedriveChecks ==
  ASSUME BaseInv, RedriveInv, NEW o \in Operators, RedriveCheck(o)
  PROVE  RedriveInv'
<1>1. PICK root \in Ids : MayRedrive(root) /\ oroot' = [oroot EXCEPT ![o] = root]
  BY DEF RedriveCheck
<1>2. UNCHANGED <<status, rows, again>> /\ opc[o] = "ready" /\ opc' = [opc EXCEPT ![o] = "insert"]
  BY DEF RedriveCheck, delivery, history, flushHistory
<1>3. \A i \in Ids : redrives(i)' = redrives(i) /\ OpenRedrives(i)' = OpenRedrives(i)
  BY <1>2 DEF redrives, OpenRedrives
<1>4. ASSUME NEW i \in Ids, i # root PROVE Inserting(i)' = Inserting(i)
  BY <1>1, <1>2, <1>4 DEF Inserting, BaseInv, WorkTypeOK, RouterTypeOK
<1>5. /\ Cardinality(redrives(root)) < AtLeast1(RedriveLimit) /\ Cardinality(OpenRedrives(root)) = 0
  <2>1. OpenRedrives(root) = {} /\ Cardinality(redrives(root)) < AtLeast1(RedriveLimit)
    BY <1>1 DEF MayRedrive, OpenRedrives
  <2> QED
    BY <2>1, FS_EmptySet
<1>6. /\ Cardinality(Inserting(root)') <= Cardinality(Operators) /\ Cardinality(Inserting(root)') \in Nat
  <2>1. Inserting(root)' \subseteq Operators /\ IsFiniteSet(Operators)
    BY DeliveryAssumption DEF Inserting
  <2> QED
    BY <2>1, NoMore
<1>7. AtLeast1(RedriveLimit) \in Nat
  BY SomeBudget, DeliveryAssumption
<1>8. /\ Cardinality(redrives(root)) + Cardinality(Inserting(root)') < AtLeast1(RedriveLimit) + Cardinality(Operators)
      /\ Cardinality(OpenRedrives(root)) + Cardinality(Inserting(root)') <= Cardinality(Operators)
  BY <1>5, <1>6, <1>7, RedrivesCounted
<1>9. \A i \in Ids : /\ Cardinality(redrives(i)') + Cardinality(Inserting(i)')
                            < AtLeast1(RedriveLimit) + Cardinality(Operators)
                     /\ Cardinality(OpenRedrives(i)') + Cardinality(Inserting(i)') <= Cardinality(Operators)
  BY <1>3, <1>4, <1>8 DEF RedriveInv
<1> QED
  BY <1>9 DEF RedriveInv

(* The insert uses the room its check took. *)
LEMMA RedriveAdds ==
  ASSUME BaseInv, BaseInv', RedriveInv, NEW o \in Operators, RedriveInsert(o)
  PROVE  RedriveInv'
<1>1. PICK root \in Ids : root = oroot[o]
  BY RedriveInserts
<1>2. PICK k \in Ids : k = created + 1
  BY RedriveInserts
<1>3. /\ Grown /\ created' = k /\ rows'[k].redrive_of = root /\ status'[k] = PENDING
      /\ \A j \in Ids : j # k => rows'[j] = rows[j] /\ status'[j] = status[j]
  BY <1>1, <1>2, RedriveInserts
<1>4. /\ opc[o] = "insert" /\ opc' = [opc EXCEPT ![o] = "ready"] /\ oroot' = [oroot EXCEPT ![o] = NoId]
      /\ UNCHANGED again /\ opc \in [Operators -> {"ready", "insert"}] /\ oroot \in [Operators -> Ids \cup {NoId}]
  BY DEF RedriveInsert, history, flushHistory, BaseInv, WorkTypeOK, RouterTypeOK
<1>5. status[k] = Absent
  <2>1. ~(k <= created)
    BY <1>2 DEF BaseInv, WorkTypeOK, DeliveryTypeOK
  <2> QED
    BY <2>1 DEF BaseInv, RowsKept
<1>6. \A i \in Ids : redrives(i)' = IF i = root THEN redrives(i) \cup {k} ELSE redrives(i)
  BY <1>3, <1>5, StatusesDiffer DEF redrives
<1>7. \A i \in Ids : k \notin redrives(i) /\ k \notin OpenRedrives(i)
  BY <1>5 DEF redrives, OpenRedrives
<1>8. \A i \in Ids : OpenRedrives(i)' \subseteq IF i = root THEN OpenRedrives(i) \cup {k} ELSE OpenRedrives(i)
  BY <1>3, <1>4, <1>6 DEF OpenRedrives, redrives
<1>9. Inserting(root)' = Inserting(root) \ {o} /\ o \in Inserting(root)
  BY <1>1, <1>4 DEF Inserting
<1>10. \A i \in Ids : i # root => Inserting(i)' = Inserting(i)
  BY <1>1, <1>4 DEF Inserting
<1>11. \A i \in Ids : /\ Cardinality(redrives(i)) + Cardinality(Inserting(i))
                             < AtLeast1(RedriveLimit) + Cardinality(Operators)
                      /\ Cardinality(OpenRedrives(i)) + Cardinality(Inserting(i)) <= Cardinality(Operators)
  BY DEF RedriveInv
<1>12. /\ Cardinality(redrives(root)') + Cardinality(Inserting(root)')
              < AtLeast1(RedriveLimit) + Cardinality(Operators)
       /\ Cardinality(OpenRedrives(root)') + Cardinality(Inserting(root)') <= Cardinality(Operators)
  <2>1. Cardinality(redrives(root)') = Cardinality(redrives(root)) + 1
    BY <1>6, <1>7, RedrivesCounted, OneMore
  <2>2. Cardinality(Inserting(root)') = Cardinality(Inserting(root)) - 1
    BY <1>9, RedrivesCounted, OneLess
  <2>3. Cardinality(OpenRedrives(root)') <= Cardinality(OpenRedrives(root)) + 1 /\ Cardinality(OpenRedrives(root)') \in Nat
    <3>1. /\ IsFiniteSet(OpenRedrives(root) \cup {k})
          /\ Cardinality(OpenRedrives(root) \cup {k}) = Cardinality(OpenRedrives(root)) + 1
      BY <1>7, RedrivesCounted, OneMore
    <3>2. OpenRedrives(root)' \in SUBSET (OpenRedrives(root) \cup {k})
      BY <1>8
    <3> QED
      BY <3>1, <3>2, NoMore
  <2> QED
    BY <1>11, <2>1, <2>2, <2>3, RedrivesCounted, SomeBudget, DeliveryAssumption
<1>13. ASSUME NEW i \in Ids, i # root
       PROVE  /\ Cardinality(redrives(i)') + Cardinality(Inserting(i)')
                     < AtLeast1(RedriveLimit) + Cardinality(Operators)
              /\ Cardinality(OpenRedrives(i)') + Cardinality(Inserting(i)') <= Cardinality(Operators)
  <2>1. OpenRedrives(i)' \in SUBSET OpenRedrives(i)
    BY <1>8, <1>13
  <2>2. Cardinality(OpenRedrives(i)') <= Cardinality(OpenRedrives(i)) /\ Cardinality(OpenRedrives(i)') \in Nat
    BY <2>1, RedrivesCounted, NoMore
  <2> QED
    BY <1>6, <1>10, <1>11, <1>13, <2>2, RedrivesCounted
<1> QED
  BY <1>12, <1>13 DEF RedriveInv

LEMMA GrowsAlways ==
  ASSUME BaseInv, RaceTypeOK, HandInv, LoneInv, [Next]_vars
  PROVE  TableGrows /\ \A k \in Live : again[k] \in Nat /\ again'[k] \in Nat
<1>1. /\ Live \subseteq Live'
      /\ \A i \in Live : /\ rows'[i] = rows[i] /\ again'[i] >= again[i] /\ again[i] \in Nat /\ again'[i] \in Nat
                         /\ status'[i] = status[i] \/ status[i] = PENDING \/ again[i] > 0
  BY TableMoves
<1>2. \A i \in Live : again[i] > 0 => again'[i] > 0
  BY <1>1
<1> QED
  BY <1>1, <1>2, BlindGrows DEF TableGrows

LEMMA RedriveStep ==
  ASSUME BaseInv, RaceTypeOK, HandInv, LoneInv, RedriveInv, [Next]_vars
  PROVE  RedriveInv'
<1>0. BaseInv' /\ TableGrows /\ \A k \in Live : again[k] \in Nat /\ again'[k] \in Nat
  BY BaseStep, GrowsAlways
<1>1. ASSUME UNCHANGED <<operator, created>> PROVE RedriveInv'
  <2>1. Live' = Live
    BY <1>1 DEF Live
  <2> QED
    BY <1>0, <1>1, <2>1, RedriveStays
<1>2. ASSUME NEW f \in Flushers,
             FlushSelect(f) \/ FlushSend(f) \/ FlushRead(f) \/ FlushWrite(f) \/ Crash(f)
      PROVE  RedriveInv'
  BY <1>1, <1>2, SelectDoes, SendDoes, ReadDoes, WriteDoes, CrashDoes DEF TableStays
<1>3. ASSUME NEW r \in Routers, RouteBegin(r) \/ EventBegin(r) PROVE RedriveInv'
  <2>1. CASE RouteBegin(r)
    <3>1. UNCHANGED <<delivery, destination, occurrences, flusher, operator, crashes, flushHistory, met, blind>>
      BY <2>1, Zenon DEF RouteBegin
    <3> QED
      BY <1>1, <3>1 DEF delivery
  <2>2. CASE EventBegin(r)
    <3>1. UNCHANGED <<delivery, destination, occurrences, flusher, operator, crashes, history>>
      BY <2>2, Zenon DEF EventBegin
    <3> QED
      BY <1>1, <3>1 DEF delivery
  <2> QED
    BY <1>3, <2>1, <2>2
<1>4. ASSUME NEW r \in Routers, RouteDecide(r) PROVE RedriveInv'
  BY <1>1, <1>4 DEF RouteDecide, delivery
<1>5. ASSUME NEW r \in Routers, RouteCommit(r) PROVE RedriveInv'
  <2>1. UNCHANGED operator
    BY <1>5 DEF RouteCommit, RouterDone
  <2>2. CASE UNCHANGED <<delivery, occurrences>>
    BY <1>1, <2>1, <2>2 DEF delivery
  <2>3. CASE Committed(r)
    <3>1. \A i \in Ids : i > created /\ i <= created' =>
             i - created \in DOMAIN rnew[r] /\ rows'[i] = rnew[r][i - created]
      BY <1>5, <2>3, CommittedGrows
    <3>2. \A n \in DOMAIN rnew[r] : rnew[r][n].redrive_of = NoId
      BY DEF BaseInv, RoutersFit
    <3>3. \A i \in Live' \ Live : i \in Ids /\ i > created /\ i <= created'
      BY <1>0 DEF Live, Ids, BaseInv, WorkTypeOK, DeliveryTypeOK
    <3>4. \A i \in Live' \ Live : rows'[i].redrive_of = NoId
      BY <3>1, <3>2, <3>3
    <3> QED
      BY <1>0, <2>1, <3>4, RedriveStays
  <2> QED
    BY <1>5, <2>2, <2>3, RouteCommits
<1>6. ASSUME NEW o \in Operators, RedriveCheck(o) \/ RedriveInsert(o) PROVE RedriveInv'
  BY <1>0, <1>6, RedriveChecks, RedriveAdds
<1>7. ASSUME WorldStep PROVE RedriveInv'
  BY <1>1, <1>7, WorldBase
<1>8. CASE UNCHANGED vars
  BY <1>1, <1>8, VarsStay DEF TableStays
<1> QED
  BY <1>2, <1>3, <1>4, <1>5, <1>6, <1>7, <1>8, Steps

LEMMA RedriveStart == ASSUME Init PROVE RedriveInv
<1>1. \A i : redrives(i) = {} /\ OpenRedrives(i) = {} /\ Inserting(i) = {}
  BY DEF Init, redrives, OpenRedrives, Inserting
<1>2. /\ Cardinality({}) = 0 /\ AtLeast1(RedriveLimit) >= 1 /\ AtLeast1(RedriveLimit) \in Nat
      /\ Cardinality(Operators) \in Nat
  BY FS_EmptySet, FS_CardinalityType, SomeBudget, DeliveryAssumption
<1>3. \A i \in Ids : /\ Cardinality(redrives(i)) = 0 /\ Cardinality(OpenRedrives(i)) = 0
                     /\ Cardinality(Inserting(i)) = 0
  BY <1>1, <1>2
<1> QED
  BY <1>2, <1>3 DEF RedriveInv

(* However many operators check and insert between each other, a failed    *)
(* delivery has fewer redrives than max(1, webhook_max_redrives) and the   *)
(* operators together, and no more open ones than there are operators, but *)
(* for those that two flushers held.                                       *)
THEOREM RedrivesStayBounded == Spec => []RedrivesBounded
<1> DEFINE Inv == BaseInv /\ RaceTypeOK /\ HandInv /\ LoneInv /\ RedriveInv
<1>1. Init => Inv
  BY BaseInit, RaceTypesStart, HandStart, LoneStart, RedriveStart
<1>2. Inv /\ [Next]_vars => Inv'
  BY BaseStep, RaceTypesStep, HandStep, LoneStep, RedriveStep
<1>3. Inv => RedrivesBounded
  <2> SUFFICES ASSUME RedriveInv, NEW i \in Ids
               PROVE  /\ Cardinality(redrives(i)) < AtLeast1(RedriveLimit) + Cardinality(Operators)
                      /\ Cardinality({k \in redrives(i) : status[k] = PENDING /\ again[k] = 0})
                           <= Cardinality(Operators)
    BY DEF RedrivesBounded
  <2>1. /\ Cardinality(redrives(i)) + Cardinality(Inserting(i)) < AtLeast1(RedriveLimit) + Cardinality(Operators)
        /\ Cardinality(OpenRedrives(i)) + Cardinality(Inserting(i)) <= Cardinality(Operators)
    BY DEF RedriveInv
  <2>2. OpenRedrives(i) = {k \in redrives(i) : status[k] = PENDING /\ again[k] = 0}
    BY DEF OpenRedrives
  <2>3. AtLeast1(RedriveLimit) \in Nat
    BY SomeBudget, DeliveryAssumption
  <2>4. /\ Cardinality(redrives(i)) < AtLeast1(RedriveLimit) + Cardinality(Operators)
        /\ Cardinality(OpenRedrives(i)) <= Cardinality(Operators)
    BY <2>1, <2>3, RedrivesCounted
  <2> QED
    BY <2>2, <2>4
<1> HIDE DEF Inv
<1> QED
  BY <1>1, <1>2, <1>3, PTL DEF Spec

-----------------------------------------------------------------------------
(* HealthInv *)

(* What operators and time do to a destination's health: they clear it or  *)
(* let a cooldown pass.                                                    *)
LEMMA WorldHealth ==
  ASSUME BaseInv, WorldStep, NEW d \in Dests
  PROVE  \/ failures'[d] = 0 /\ cooldown'[d] = "unset"
         \/ failures'[d] = failures[d] /\ cooldown'[d] = cooldown[d]
         \/ failures'[d] = failures[d] /\ cooldown[d] = "ahead" /\ cooldown'[d] = "past"
<1>0. failures \in [Dests -> Nat] /\ cooldown \in [Dests -> Cooldowns]
  BY TypesUnfold DEF BaseInv, WorkTypeOK, DeliveryTypeOK
<1>1. CASE WindowPasses
  BY <1>1 DEF WindowPasses, destination
<1>2. ASSUME NEW c \in Dests, clear_cooldown(c) \/ delete_destination(c)
      PROVE  \/ failures'[d] = 0 /\ cooldown'[d] = "unset"
             \/ failures'[d] = failures[d] /\ cooldown'[d] = cooldown[d]
  BY <1>0, <1>2 DEF clear_cooldown, delete_destination
<1>3. ASSUME NEW c \in Dests, CooldownEnds(c)
      PROVE  /\ failures'[d] = failures[d]
             /\ \/ cooldown'[d] = cooldown[d]
                \/ cooldown[d] = "ahead" /\ cooldown'[d] = "past"
  BY <1>0, <1>3 DEF CooldownEnds
<1>4. ASSUME NEW c \in Dests, create_destination(c) \/ update_destination(c)
      PROVE  failures'[d] = failures[d] /\ cooldown'[d] = cooldown[d]
  BY <1>4 DEF create_destination, update_destination
<1> QED
  BY <1>1, <1>2, <1>3, <1>4 DEF WorldStep

(* What every step keeps of the rows that destinations are judged by. *)
TableSettles ==
    /\ Live \subseteq Live'
    /\ \A i \in Live : /\ i \in Ids /\ rows'[i] = rows[i] /\ status'[i] # Absent
                       /\ again[i] > 0 => again'[i] > 0
                       /\ status'[i] = status[i] \/ status[i] = PENDING \/ again[i] > 0

LEMMA SettlesAlways ==
  ASSUME BaseInv, RaceTypeOK, HandInv, LoneInv, [Next]_vars
  PROVE  TableSettles
<1>1. BaseInv'
  BY BaseStep
<1>2. \A i \in Live' : status'[i] # Absent
  <2>1. created' \in Nat /\ created' <= MaxDeliveries /\ RowsKept'
    BY <1>1 DEF BaseInv, WorkTypeOK, DeliveryTypeOK
  <2> QED
    BY <2>1 DEF RowsKept, Live, Ids
<1> QED
  BY <1>2, TableMoves, GrowsAlways DEF TableSettles, TableGrows

(* A row that was raced for stays one, and a dead letter stays one or is   *)
(* such a row.                                                             *)
LEMMA UndoneStays == ASSUME BaseInv, TableSettles, NEW d, Undone(d) PROVE Undone(d)'
<1>1. PICK i \in Ids : status[i] # Absent /\ rows[i].dest = d /\ again[i] > 0
  BY DEF Undone
<1>2. i \in Live
  BY <1>1, TypesUnfold
<1> QED
  BY <1>1, <1>2 DEF Undone, TableSettles

LEMMA OwedStays == ASSUME BaseInv, TableSettles, NEW d, Owed(d) PROVE Owed(d)'
<1>1. CASE Undone(d)
  BY <1>1, UndoneStays DEF Owed
<1>2. ASSUME NEW o \in Live, status[o] = FAILED, rows[o].redrive_of = NoId, rows[o].dest = d
      PROVE  Owed(d)'
  <2>1. CASE status'[o] = FAILED
    BY <1>2, <2>1 DEF Owed, DeadLetterOf, TableSettles
  <2>2. CASE again[o] > 0
    BY <1>2, <2>2, UndoneStays, StatusesDiffer DEF Owed, Undone, TableSettles
  <2> QED
    BY <1>2, <2>1, <2>2, StatusesDiffer DEF TableSettles
<1> QED
  BY <1>1, <1>2 DEF Owed, DeadLetterOf

(* The origin of a redrive that is about to be inserted. *)
FailedOnce(i) == i \in Live /\ (status[i] = FAILED \/ Undone(rows[i].dest))

LEMMA FailedOnceStays == ASSUME BaseInv, TableSettles, NEW i, FailedOnce(i) PROVE FailedOnce(i)'
<1>1. i \in Live /\ i \in Live' /\ rows'[i] = rows[i] /\ status[i] # Absent
  BY TypesUnfold DEF FailedOnce, TableSettles
<1>2. CASE Undone(rows[i].dest)
  <2>1. PICK d : d = rows[i].dest
    OBVIOUS
  <2>2. Undone(d)'
    BY <1>2, <2>1, UndoneStays
  <2> QED
    BY <1>1, <2>1, <2>2 DEF FailedOnce, Undone
<1>3. CASE status[i] = FAILED /\ status'[i] # FAILED
  <2>1. again'[i] > 0 /\ status'[i] # Absent /\ i \in Ids
    BY <1>1, <1>3, StatusesDiffer DEF TableSettles
  <2> QED
    BY <1>1, <2>1 DEF FailedOnce, Undone
<1>4. CASE status'[i] = FAILED
  BY <1>1, <1>4 DEF FailedOnce
<1> QED
  BY <1>2, <1>3, <1>4 DEF FailedOnce

LEMMA HealthFrom ==
  ASSUME BaseInv, HealthInv, TableSettles,
         \A i \in Live' \ Live : rows'[i].redrive_of # NoId =>
             \E k \in Live : rows'[i].dest = rows[k].dest /\ Owed(rows[k].dest),
         \A o \in Operators : opc'[o] = "insert" => FailedOnce(oroot'[o]),
         CooldownJustified',
         \A d \in Dests : failures'[d] # 0 => failures[d] # 0 \/ Owed(d)',
         \A f \in Flushers : fpc'[f] = "seen" => Known(f)'
  PROVE  HealthInv'
<1>1. \A d : Owed(d) => Owed(d)'
  BY OwedStays
<1>2. ASSUME NEW i \in Live', rows'[i].redrive_of # NoId PROVE Owed(rows[i].dest)'
  <2>1. PICK d : d = rows'[i].dest
    OBVIOUS
  <2>2. Owed(d)
    <3>1. CASE i \in Live
      BY <1>2, <2>1, <3>1 DEF HealthInv, TableSettles
    <3>2. CASE i \notin Live
      BY <1>2, <2>1, <3>2
    <3> QED
      BY <3>1, <3>2
  <2>3. Owed(d)'
    BY <1>1, <2>2
  <2> QED
    BY <2>1, <2>3 DEF Owed, DeadLetterOf, Undone
<1>3. ASSUME NEW o \in Operators, opc'[o] = "insert"
      PROVE  status'[oroot'[o]] = FAILED \/ Undone(rows[oroot[o]].dest)'
  <2>1. PICK i : i = oroot'[o]
    OBVIOUS
  <2>2. FailedOnce(i)'
    BY <1>3, <2>1, FailedOnceStays
  <2> QED
    BY <2>1, <2>2 DEF FailedOnce, Undone
<1>4. \A d \in Dests : failures'[d] # 0 => Owed(d)'
  BY <1>1 DEF HealthInv
<1> QED
  BY <1>2, <1>3, <1>4 DEF HealthInv

(* Whoever leaves the health of destinations alone keeps what is known.    *)
LEMMA HealthStays ==
  ASSUME BaseInv, HealthInv, TableSettles, UNCHANGED <<failures, cooldown>>, crossed \subseteq crossed',
         \A i \in Live' \ Live : rows'[i].redrive_of # NoId =>
             \E k \in Live : rows'[i].dest = rows[k].dest /\ Owed(rows[k].dest),
         \A o \in Operators : opc'[o] = "insert" => FailedOnce(oroot'[o]),
         \A f \in Flushers : fpc'[f] = "seen" =>
             fpc[f] = "seen" /\ fsent'[f] = fsent[f] /\ fseen'[f] = fseen[f]
  PROVE  HealthInv'
<1>1. CooldownJustified'
  BY DEF HealthInv, CooldownJustified
<1>2. ASSUME NEW f \in Flushers, fpc'[f] = "seen" PROVE Known(f)'
  <2>1. fpc[f] = "seen" /\ fsent'[f] = fsent[f] /\ fseen'[f] = fseen[f]
    BY <1>2
  <2>2. rows'[fsent[f].id] = rows[fsent[f].id]
    BY <2>1 DEF BaseInv, HeldLive, InHand, TableSettles
  <2>3. Known(f)
    BY <2>1 DEF HealthInv
  <2> QED
    BY <2>1, <2>2, <2>3 DEF Known
<1> QED
  BY <1>1, <1>2, HealthFrom

(* What an outcome does to the destination it was read from. *)
LEMMA HealthWrites ==
  ASSUME BaseInv, HealthInv, NEW f \in Flushers, fpc[f] = "seen", NEW d \in Dests,
         d = rows[fsent[f].id].dest, Health(f, d), crossed \subseteq crossed'
  PROVE  /\ CooldownJustified'
         /\ \A c \in Dests : failures'[c] # 0 =>
                failures[c] # 0 \/ (c = d /\ Outcome(fsent[f]) = FAILED)
<1> DEFINE seen == fseen[f]
<1>0. /\ failures \in [Dests -> Nat] /\ cooldown \in [Dests -> Cooldowns]
      /\ seen.failures \in Nat /\ seen.cooldown \in Cooldowns
  BY TypesUnfold DEF BaseInv, WorkTypeOK, DeliveryTypeOK, Seens
<1>1. \/ d \in crossed
      \/ failures[d] = 0 /\ cooldown[d] = "unset"
      \/ failures[d] = seen.failures /\ (cooldown[d] = "ahead" => seen.cooldown = "ahead")
  BY DEF HealthInv, Known
<1>2. \A c \in Dests \ crossed : cooldown[c] = "ahead" => failures[c] >= AtLeast1(CooldownThreshold)
  BY DEF HealthInv, CooldownJustified
<1>3. AtLeast1(CooldownThreshold) \in Nat /\ AtLeast1(CooldownThreshold) >= 1
  BY SomeBudget, DeliveryAssumption
<1> HIDE DEF seen
<1>4. CASE UNCHANGED <<failures, cooldown>>
  BY <1>2, <1>4 DEF CooldownJustified
<1>5. ASSUME failures' = [failures EXCEPT ![d] = Written(0, seen.failures, @)],
             cooldown' = [cooldown EXCEPT ![d] = Written("unset", seen.cooldown, @)]
      PROVE  /\ CooldownJustified' /\ \A c \in Dests : failures'[c] # 0 => failures[c] # 0
  <2>1. failures'[d] = Written(0, seen.failures, failures[d]) /\ cooldown'[d] = Written("unset", seen.cooldown, cooldown[d])
    BY <1>0, <1>5
  <2>2. failures'[d] = 0 \/ failures'[d] = failures[d]
    BY <2>1 DEF Written
  <2>3. d \in crossed \/ cooldown'[d] # "ahead"
    BY <1>1, <2>1 DEF Written
  <2>4. \A c \in Dests : c # d => failures'[c] = failures[c] /\ cooldown'[c] = cooldown[c]
    BY <1>0, <1>5
  <2> QED
    BY <1>2, <2>2, <2>3, <2>4 DEF CooldownJustified
<1>6. ASSUME Outcome(fsent[f]) = FAILED, failures' = [failures EXCEPT ![d] = seen.failures + 1],
             cooldown' = [cooldown EXCEPT ![d] = IF Cools(Outcome(fsent[f]), seen) THEN "ahead" ELSE @]
      PROVE  /\ CooldownJustified'
             /\ \A c \in Dests : failures'[c] # 0 => failures[c] # 0 \/ c = d
  <2>1. /\ failures'[d] = seen.failures + 1
        /\ cooldown'[d] = IF Cools(Outcome(fsent[f]), seen) THEN "ahead" ELSE cooldown[d]
    BY <1>0, <1>6
  <2>2. Cools(Outcome(fsent[f]), seen) => seen.failures + 1 >= AtLeast1(CooldownThreshold)
    BY DEF Cools
  <2>3. d \in crossed \/ cooldown'[d] # "ahead" \/ failures'[d] >= AtLeast1(CooldownThreshold)
    BY <1>0, <1>1, <1>2, <1>3, <2>1, <2>2
  <2>4. \A c \in Dests : c # d => failures'[c] = failures[c] /\ cooldown'[c] = cooldown[c]
    BY <1>0, <1>6
  <2> QED
    BY <1>2, <2>3, <2>4 DEF CooldownJustified
<1>7. WritesDest(Outcome(fsent[f]), fseen[f]) => Outcome(fsent[f]) = DELIVERED \/ Outcome(fsent[f]) = FAILED
  BY DEF WritesDest
<1> QED
  BY <1>4, <1>5, <1>6, <1>7 DEF Health, seen


LEMMA HealthWrite ==
  ASSUME BaseInv, LoneInv, RaceTypeOK, HealthInv, TableSettles, NEW f \in Flushers, FlushWrite(f)
  PROVE  HealthInv'
<1>1. PICK i \in Live : i = fsent[f].id /\ fpc[f] = "seen" /\ fpc'[f] # "seen" /\ Others(f)
  BY WriteDoes
<1>2. PICK d \in Dests : d = rows[i].dest
  BY TypesUnfold
<1>3. UNCHANGED <<operator, rows, created>> /\ Live' = Live
  BY DEF FlushWrite, Live
<1>4. \A o \in Operators : opc'[o] = "insert" => FailedOnce(oroot'[o])
  BY <1>3 DEF operator, HealthInv, BaseInv, OperatorsFit, FailedOnce
<1>5. /\ crossed \subseteq crossed'
      /\ \/ UNCHANGED <<failures, cooldown>>
         \/ /\ Writing(f, i, d) /\ Health(f, d)
            /\ ReadByOther(f, d) => d \in crossed'
  BY <1>1, <1>2, WriteCrosses
<1>6. \A g \in Flushers : fpc'[g] = "seen" =>
         g # f /\ fpc[g] = "seen" /\ fsent'[g] = fsent[g] /\ fseen'[g] = fseen[g]
  BY <1>1 DEF Others
<1>7. CASE UNCHANGED <<failures, cooldown>>
  BY <1>3, <1>4, <1>5, <1>6, <1>7, HealthStays
<1>8. CASE Writing(f, i, d) /\ Health(f, d) /\ (ReadByOther(f, d) => d \in crossed')
  <2>1. /\ CooldownJustified'
        /\ \A c \in Dests : failures'[c] # 0 => failures[c] # 0 \/ (c = d /\ Outcome(fsent[f]) = FAILED)
    BY <1>1, <1>2, <1>5, <1>8, HealthWrites
  <2>2. ASSUME Outcome(fsent[f]) = FAILED PROVE Owed(d)'
    <3>1. CASE again[i] # 0
      <4>1. again[i] > 0 /\ i \in Ids
        BY <3>1, TypesUnfold DEF RaceTypeOK
      <4> QED
        BY <1>1, <1>2, <1>3, <4>1 DEF Owed, Undone, TableSettles
    <3>2. CASE rows[i].redrive_of # NoId
      <4>1. Owed(d)
        BY <1>2, <3>2 DEF HealthInv
      <4> QED
        BY <4>1, OwedStays
    <3>3. CASE again[i] = 0 /\ rows[i].redrive_of = NoId
      <4>1. InHand(f) /\ Holds(f, i)
        BY <1>1 DEF InHand, Holds
      <4>2. fseen[f].status = PENDING
        BY <1>1, <3>3, <4>1 DEF LoneInv, AsRead
      <4>3. status' = [status EXCEPT ![i] = Written(Outcome(fsent[f]), fseen[f].status, @)] /\ DOMAIN status = Ids
        BY <1>1, <1>8 DEF Writing, BaseInv, WorkTypeOK, DeliveryTypeOK
      <4>4. status'[i] = FAILED
        BY <2>2, <4>2, <4>3, StatusesDiffer, TypesUnfold DEF Written
      <4> QED
        BY <1>2, <1>3, <3>3, <4>4 DEF Owed, DeadLetterOf
    <3> QED
      BY <3>1, <3>2, <3>3
  <2>3. ASSUME NEW g \in Flushers, fpc'[g] = "seen" PROVE Known(g)'
    <3>1. g # f /\ fpc[g] = "seen" /\ fsent'[g] = fsent[g] /\ fseen'[g] = fseen[g]
      BY <1>6, <2>3
    <3>2. PICK c \in Dests : c = rows[fsent[g].id].dest
      BY <3>1, TypesUnfold DEF BaseInv, HeldLive, InHand
    <3>3. rows'[fsent'[g].id].dest = c
      BY <1>3, <3>1, <3>2
    <3>4. CASE c = d
      <4>1. ReadByOther(f, d)
        BY <3>1, <3>2, <3>4 DEF ReadByOther
      <4> QED
        BY <1>8, <3>3, <3>4, <4>1 DEF Known
    <3>5. CASE c # d
      <4>1. failures'[c] = failures[c] /\ cooldown'[c] = cooldown[c]
        BY <1>8, <3>5 DEF Health, BaseInv, WorkTypeOK, DeliveryTypeOK
      <4>2. Known(g)
        BY <3>1 DEF HealthInv
      <4> QED
        BY <1>5, <3>1, <3>2, <3>3, <4>1, <4>2 DEF Known
    <3> QED
      BY <3>4, <3>5
  <2> QED
    BY <1>3, <1>4, <2>1, <2>2, <2>3, HealthFrom
<1> QED
  BY <1>5, <1>7, <1>8

LEMMA HealthStep ==
  ASSUME BaseInv, RaceTypeOK, HandInv, LoneInv, HealthInv, [Next]_vars
  PROVE  HealthInv'
<1>0. TableSettles
  BY SettlesAlways
<1>1. \A o \in Operators : opc[o] = "insert" => FailedOnce(oroot[o])
  BY DEF HealthInv, BaseInv, OperatorsFit, FailedOnce
(* A step that adds no row and moves no operator. *)
<1>2. ASSUME UNCHANGED <<created, operator, failures, cooldown, crossed>>,
             \A f \in Flushers : fpc'[f] = "seen" =>
                 fpc[f] = "seen" /\ fsent'[f] = fsent[f] /\ fseen'[f] = fseen[f]
      PROVE  HealthInv'
  <2>1. Live' = Live
    BY <1>2 DEF Live
  <2> QED
    BY <1>0, <1>1, <1>2, <2>1, HealthStays DEF operator
<1>3. ASSUME NEW f \in Flushers, FlushSelect(f) \/ FlushSend(f) \/ Crash(f) PROVE HealthInv'
  <2>1. fpc'[f] # "seen" /\ UNCHANGED <<destination, operator, crossed>> /\ TableStays /\ Others(f)
    BY <1>3, SelectDoes, SendDoes, CrashDoes
  <2> QED
    BY <1>2, <2>1 DEF Others, TableStays, destination
<1>4. ASSUME NEW f \in Flushers, FlushRead(f) PROVE HealthInv'
  <2>1. PICK i \in Live : i = fsent[f].id
    BY <1>4, ReadDoes
  <2>2. /\ fsent'[f] = fsent[f] /\ TableStays /\ UNCHANGED <<destination, operator, history>> /\ Others(f)
        /\ fseen'[f].failures = failures[rows[i].dest] /\ fseen'[f].cooldown = cooldown[rows[i].dest]
    BY <1>4, <2>1, ReadDoes
  <2>3. UNCHANGED <<failures, cooldown, crossed, rows>>
    BY <2>2 DEF destination, history, flushHistory, TableStays
  <2>4. Known(f)'
    BY <2>1, <2>2, <2>3 DEF Known
  <2>5. ASSUME NEW g \in Flushers, g # f, fpc'[g] = "seen" PROVE Known(g)'
    BY <2>2, <2>3, <2>5 DEF Others, Known, HealthInv
  <2>6. CooldownJustified' /\ Live' = Live
    BY <2>2, <2>3 DEF HealthInv, CooldownJustified, TableStays, Live
  <2>7. \A o \in Operators : opc'[o] = "insert" => FailedOnce(oroot'[o])
    BY <1>1, <2>2 DEF operator
  <2> QED
    BY <1>0, <2>3, <2>4, <2>5, <2>6, <2>7, HealthFrom
<1>5. ASSUME NEW r \in Routers, RouteBegin(r) \/ EventBegin(r) PROVE HealthInv'
  <2>1. CASE RouteBegin(r)
    <3>1. UNCHANGED <<delivery, destination, occurrences, flusher, operator, crashes, flushHistory, met, blind>>
      BY <2>1, Zenon DEF RouteBegin
    <3> QED
      BY <1>2, <3>1 DEF delivery, destination, flusher, flushHistory
  <2>2. CASE EventBegin(r)
    <3>1. UNCHANGED <<delivery, destination, occurrences, flusher, operator, crashes, history>>
      BY <2>2, Zenon DEF EventBegin
    <3> QED
      BY <1>2, <3>1 DEF delivery, destination, flusher, history, flushHistory
  <2> QED
    BY <1>5, <2>1, <2>2
<1>6. ASSUME NEW r \in Routers, RouteDecide(r) PROVE HealthInv'
  BY <1>2, <1>6 DEF RouteDecide, delivery, destination, flusher, flushHistory
<1>7. ASSUME NEW r \in Routers, RouteCommit(r) PROVE HealthInv'
  <2>1. UNCHANGED <<operator, destination, flusher, flushHistory>>
    BY <1>7 DEF RouteCommit, RouterDone
  <2>2. CASE UNCHANGED <<delivery, occurrences>>
    BY <1>2, <2>1, <2>2 DEF delivery, destination, flusher, flushHistory
  <2>3. CASE Committed(r)
    <3>1. \A i \in Ids : i > created /\ i <= created' =>
             i - created \in DOMAIN rnew[r] /\ rows'[i] = rnew[r][i - created]
      BY <1>7, <2>3, CommittedGrows
    <3>2. \A n \in DOMAIN rnew[r] : rnew[r][n].redrive_of = NoId
      BY DEF BaseInv, RoutersFit
    <3>3. \A i \in Live' \ Live : i \in Ids /\ i > created /\ i <= created'
      <4>1. BaseInv'
        BY <1>7, RouteCommitBase
      <4> QED
        BY <4>1 DEF Live, Ids, BaseInv, WorkTypeOK, DeliveryTypeOK
    <3>4. \A i \in Live' \ Live : rows'[i].redrive_of = NoId
      BY <3>1, <3>2, <3>3
    <3>5. UNCHANGED <<operator, failures, cooldown, crossed, fpc, fsent, fseen>>
      BY <2>1 DEF destination, flusher, flushHistory
    <3> QED
      BY <1>0, <1>1, <3>4, <3>5, HealthStays DEF operator
  <2> QED
    BY <1>7, <2>2, <2>3, RouteCommits
<1>8. ASSUME NEW o \in Operators, RedriveCheck(o) PROVE HealthInv'
  <2>1. PICK i \in Ids : MayRedrive(i) /\ oroot' = [oroot EXCEPT ![o] = i]
    BY <1>8 DEF RedriveCheck
  <2>2. /\ UNCHANGED <<created, failures, cooldown, crossed, fpc, fsent, fseen>>
        /\ opc' = [opc EXCEPT ![o] = "insert"]
    BY <1>8 DEF RedriveCheck, delivery, destination, flusher, history, flushHistory
  <2>3. FailedOnce(i)
    BY <2>1, TypesUnfold, StatusesDiffer DEF MayRedrive, FailedOnce
  <2>4. \A q \in Operators : opc'[q] = "insert" => FailedOnce(oroot'[q])
    BY <1>1, <2>1, <2>2, <2>3 DEF BaseInv, WorkTypeOK, RouterTypeOK
  <2>5. Live' = Live
    BY <2>2 DEF Live
  <2> QED
    BY <1>0, <2>2, <2>4, <2>5, HealthStays
<1>9. ASSUME NEW o \in Operators, RedriveInsert(o) PROVE HealthInv'
  <2>1. PICK i \in Live : i = oroot[o]
    BY <1>9, RedriveInserts
  <2>2. /\ UNCHANGED <<failures, cooldown, crossed, fpc, fsent, fseen>>
        /\ opc[o] = "insert" /\ opc' = [opc EXCEPT ![o] = "ready"]
        /\ oroot' = [oroot EXCEPT ![o] = NoId] /\ created' = created + 1 /\ created \in Nat
    BY <1>9 DEF RedriveInsert, BaseInv, WorkTypeOK, DeliveryTypeOK, destination, flusher, history, flushHistory
  <2>3. rows'[created + 1].dest = rows[i].dest
    BY <1>9, <2>1, RedriveInserts
  <2>4. \A k \in Live' \ Live : rows'[k].dest = rows[i].dest
    BY <2>2, <2>3 DEF Live
  <2>5. Owed(rows[i].dest)
    <3>1. FailedOnce(i)
      BY <1>1, <2>1, <2>2
    <3> QED
      BY <3>1 DEF FailedOnce, Owed, DeadLetterOf, HealthInv
  <2>6. \A q \in Operators : opc'[q] = "insert" => FailedOnce(oroot'[q])
    BY <1>1, <2>2 DEF BaseInv, WorkTypeOK, RouterTypeOK
  <2> QED
    BY <1>0, <2>2, <2>4, <2>5, <2>6, HealthStays
<1>10. ASSUME WorldStep PROVE HealthInv'
  <2>1. UNCHANGED <<rows, created, fpc, fsent, fseen, operator, crossed>> /\ Live' = Live
    BY <1>10, WorldBase, WorldRecords DEF Live, history, flushHistory, flusher
  <2>2. \A d \in Dests :
           \/ failures'[d] = 0 /\ cooldown'[d] = "unset"
           \/ failures'[d] = failures[d] /\ cooldown'[d] = cooldown[d]
           \/ failures'[d] = failures[d] /\ cooldown[d] = "ahead" /\ cooldown'[d] = "past"
    BY <1>10, WorldHealth
  <2>3. CooldownJustified'
    BY <2>1, <2>2 DEF HealthInv, CooldownJustified
  <2>4. ASSUME NEW f \in Flushers, fpc'[f] = "seen" PROVE Known(f)'
    <3>1. fpc[f] = "seen" /\ fsent'[f] = fsent[f] /\ fseen'[f] = fseen[f]
      BY <2>1, <2>4
    <3>2. fsent[f].id \in Live /\ rows[fsent[f].id].dest \in Dests
      BY <3>1, TypesUnfold DEF BaseInv, HeldLive, InHand
    <3>3. Known(f)
      BY <3>1 DEF HealthInv
    <3> QED
      BY <2>1, <2>2, <3>1, <3>2, <3>3 DEF Known
  <2>5. \A o \in Operators : opc'[o] = "insert" => FailedOnce(oroot'[o])
    BY <1>1, <2>1 DEF operator
  <2>6. \A d \in Dests : failures'[d] # 0 => failures[d] # 0
    BY <2>2
  <2> QED
    BY <1>0, <2>1, <2>3, <2>4, <2>5, <2>6, HealthFrom
<1>11. CASE UNCHANGED vars
  BY <1>2, <1>11, VarsStay DEF TableStays, destination, flusher, history, flushHistory
<1>12. ASSUME NEW f \in Flushers, FlushWrite(f) PROVE HealthInv'
  BY <1>0, <1>12, HealthWrite
<1> QED
  BY <1>3, <1>4, <1>5, <1>6, <1>7, <1>8, <1>9, <1>10, <1>11, <1>12, Steps

LEMMA HealthStart == ASSUME Init PROVE HealthInv
<1>1. Live = {}
  BY DEF Init, Live
<1>2. CooldownJustified /\ \A d \in Dests : failures[d] = 0
  BY DEF Init, CooldownJustified
<1>3. /\ \A o \in Operators : opc[o] # "insert"
      /\ \A f \in Flushers : fpc[f] # "seen"
  BY DEF Init
<1> QED
  BY <1>1, <1>2, <1>3 DEF HealthInv

LEMMA HealthShown == ASSUME BaseInv, HealthInv PROVE HealthTrue
<1> SUFFICES ASSUME NEW d \in Dests \ gone, failures[d] # 0, ~Undone(d) PROVE _health_of(d) # "healthy"
  BY DEF HealthTrue
<1>1. Originals(d) \cap dead_letters # {}
  BY TypesUnfold DEF HealthInv, Owed, DeadLetterOf, Originals, dead_letters
<1>2. /\ d \in disabled => _health_of(d) = "disabled"
      /\ d \notin disabled /\ cooldown[d] = "ahead" => _health_of(d) = "cooling_down"
      /\ ~(d \in disabled) /\ ~(d \notin disabled /\ cooldown[d] = "ahead") =>
            _health_of(d) = IF Originals(d) \cap dead_letters = {} THEN "healthy"
                            ELSE IF \E i \in Ids : status[i] = DELIVERED /\ rows[i].dest = d THEN "degraded"
                                 ELSE "failing"
  BY DEF _health_of
<1> QED
  BY <1>1, <1>2

-----------------------------------------------------------------------------
(* AttemptsInv *)

LEMMA CountTyped ==
  ASSUME BaseInv, RaceTypeOK, NEW i \in Live
  PROVE  /\ i \in Ids /\ i # NoId /\ attempts[i] \in Nat /\ posts[i] \in Nat
         /\ again[i] \in Nat /\ losses[i] \in Nat /\ Slack(i) \in Nat
         /\ BudgetBound(i) \in Nat /\ Ceiling(i) \in Nat /\ Ceiling(i) >= BudgetBound(i)
         /\ \A f \in Flushers : Tries(f, i) \in Nat
<1>1. i \in Ids /\ i # NoId
  BY TypesUnfold DEF Ids, NoId
<1>2. attempts[i] \in Nat /\ posts[i] \in Nat /\ again[i] \in Nat /\ losses[i] \in Nat
  BY <1>1 DEF BaseInv, WorkTypeOK, DeliveryTypeOK, RaceTypeOK
<1>3. BudgetBound(i) \in Nat
  BY <1>1, TypesUnfold, BudgetsOrdered
<1>4. ASSUME NEW f \in Flushers PROVE Tries(f, i) \in Nat
  <2>1. fsent[f].tries \in Nat
    BY TypesUnfold DEF Sents
  <2>2. i \in DOMAIN fbatch[f] => fbatch[f][i] \in Nat
    BY DEF BaseInv, WorkTypeOK, FlusherTypeOK
  <2> QED
    BY <2>1, <2>2 DEF Tries
<1> QED
  BY <1>1, <1>2, <1>3, <1>4 DEF Slack, Ceiling

(* What a flusher that does not select leaves of its copies, and what any  *)
(* step leaves of the others'.                                             *)
LEMMA OthersKeep ==
  ASSUME NEW f \in Flushers, Others(f), NEW g \in Flushers, g # f, NEW i
  PROVE  /\ Holds(g, i)' <=> Holds(g, i)
         /\ Tries(g, i)' = Tries(g, i)
         /\ InHand(g)' <=> InHand(g)
         /\ fpc'[g] = fpc[g] /\ fsent'[g] = fsent[g] /\ fseen'[g] = fseen[g]
BY DEF Others, Holds, Tries, InHand

LEMMA CopiesKept ==
  ASSUME BaseInv, HandInv, NEW f \in Flushers, FlushSend(f) \/ FlushRead(f) \/ FlushWrite(f) \/ Crash(f),
         NEW i \in Live, NEW g \in Flushers, Holds(g, i)'
  PROVE  /\ Holds(g, i) /\ Tries(g, i)' = Tries(g, i)
         /\ fpc'[g] = "seen" /\ fsent'[g].id = i =>
                \/ FlushRead(f) /\ fseen'[g].status = status[i] /\ fseen'[g].attempts = attempts[i]
                \/ fpc[g] = "seen" /\ fsent[g].id = i /\ fseen'[g] = fseen[g]
<1>0. i # NoId
  BY TypesUnfold DEF Ids, NoId
<1>1. CASE g # f
  <2>1. Others(f)
    BY SendDoes, ReadDoes, WriteDoes, CrashDoes
  <2> QED
    BY <1>1, <2>1, OthersKeep
<1>2. CASE g = f /\ FlushSend(f)
  <2>1. PICK k \in Live : /\ k \in DOMAIN fbatch[f] /\ fpc'[f] = "sent" /\ DOMAIN fbatch'[f] = DOMAIN fbatch[f] \ {k}
                          /\ \A j \in DOMAIN fbatch'[f] : fbatch'[f][j] = fbatch[f][j]
                          /\ fsent'[f].id = k /\ fsent'[f].tries = fbatch[f][k] + 1
    BY <1>2, SendDoes
  <2> QED
    BY <1>2, <2>1 DEF Holds, Tries, InHand
<1>3. CASE g = f /\ FlushRead(f)
  <2>1. /\ fpc[f] = "sent" /\ fpc'[f] = "seen" /\ fbatch'[f] = fbatch[f] /\ fsent'[f] = fsent[f]
        /\ fseen'[f].status = status[fsent[f].id] /\ fseen'[f].attempts = attempts[fsent[f].id]
    BY <1>3, ReadDoes
  <2> QED
    BY <1>3, <2>1 DEF Holds, Tries, InHand
<1>4. CASE g = f /\ (FlushWrite(f) \/ Crash(f))
  <2>1. /\ fpc'[f] \in {"ready", "batch"} /\ fsent'[f].id = NoId
        /\ \A k \in DOMAIN fbatch'[f] : k \in DOMAIN fbatch[f] /\ fbatch'[f][k] = fbatch[f][k]
    BY <1>4, WriteDoes, CrashDoes
  <2> QED
    BY <1>0, <1>4, <2>1 DEF Holds, Tries, InHand
<1> QED
  BY <1>1, <1>2, <1>3, <1>4

LEMMA CountableStays ==
  ASSUME BaseInv, RaceTypeOK, NEW i \in Live, Countable(i), rows'[i] = rows[i], status'[i] = status[i],
         attempts'[i] = attempts[i], again'[i] = again[i],
         \A g \in Flushers : Holds(g, i)' =>
             /\ Holds(g, i) /\ Tries(g, i)' = Tries(g, i)
             /\ fpc'[g] = "seen" /\ fsent'[g].id = i =>
                    \/ fseen'[g].status = status[i]
                    \/ fpc[g] = "seen" /\ fsent[g].id = i /\ fseen'[g] = fseen[g]
  PROVE  Countable(i)'
<1>1. Ceiling(i)' = Ceiling(i)
  BY BoundOfRow DEF Ceiling
<1>2. ASSUME NEW g \in Flushers, Holds(g, i)', ~(Tries(g, i) < Ceiling(i)) PROVE LastTry(g, i)'
  <2>1. LastTry(g, i)
    BY <1>2 DEF Countable
  <2> QED
    BY <1>1, <1>2, <2>1 DEF LastTry
<1>3. ASSUME NEW g \in Flushers, Holds(g, i)' PROVE Holds(g, i) /\ Tries(g, i)' = Tries(g, i)
  BY <1>3
<1> QED
  BY <1>1, <1>2, <1>3 DEF Countable

LEMMA BudgetsKept ==
  ASSUME BaseInv, HandInv, BudgetsHeld, NEW f \in Flushers,
         FlushSelect(f) \/ FlushSend(f) \/ FlushRead(f) \/ FlushWrite(f) \/ Crash(f)
  PROVE  BudgetsHeld'
<1>1. Others(f) /\ rows' = rows
  BY SelectDoes, SendDoes, ReadDoes, WriteDoes, CrashDoes DEF TableStays
<1>2. ASSUME NEW g \in Flushers, g # f, InHand(g)' PROVE fsent'[g].budget <= BudgetBound(fsent[g].id)'
  <2>1. InHand(g) /\ fsent'[g] = fsent[g]
    BY <1>1, <1>2, OthersKeep
  <2> QED
    BY <1>1, <2>1 DEF BudgetsHeld, BudgetBound
<1>3. ASSUME InHand(f)' PROVE fsent'[f].budget <= BudgetBound(fsent[f].id)'
  <2>1. CASE FlushSend(f)
    <3>1. PICK i \in Live : fsent'[f].id = i /\ fsent'[f].budget = Budget(rows[i].dest)
      BY <2>1, SendDoes
    <3>2. Budget(rows[i].dest) <= BudgetBound(i)
      BY TypesUnfold, BudgetsOrdered
    <3> QED
      BY <1>1, <3>1, <3>2 DEF BudgetBound
  <2>2. CASE FlushRead(f)
    BY <1>1, <2>2, ReadDoes DEF BudgetsHeld, BudgetBound, InHand
  <2> QED
    BY <1>3, <2>1, <2>2, SelectDoes, WriteDoes, CrashDoes DEF InHand
<1> QED
  BY <1>2, <1>3 DEF BudgetsHeld

(* A batch takes a pending row, which has a try left.  If another flusher  *)
(* holds it, that is counted.                                              *)
LEMMA CountableSelect ==
  ASSUME BaseInv, RaceTypeOK, HandInv, NEW f \in Flushers, FlushSelect(f), NEW i \in Live, Countable(i)
  PROVE  Countable(i)'
<1>1. /\ Others(f) /\ TableStays /\ fpc'[f] # "seen"
      /\ i \in DOMAIN fbatch'[f] => status[i] = PENDING /\ fbatch'[f][i] = attempts[i]
      /\ ~Holds(f, i) /\ (Holds(f, i)' <=> i \in DOMAIN fbatch'[f])
      /\ again'[i] = IF Holds(f, i)' /\ (\E g \in Flushers : Holds(g, i)) THEN again[i] + 1 ELSE again[i]
  BY SelectDoes, SelectHolds
<1>2. rows'[i] = rows[i] /\ status'[i] = status[i] /\ attempts'[i] = attempts[i] /\ BudgetBound(i)' = BudgetBound(i)
  BY <1>1, BoundOfRow DEF TableStays
<1>3. \A g \in Flushers : g # f => /\ Holds(g, i)' <=> Holds(g, i)
                                   /\ Tries(g, i)' = Tries(g, i)
                                   /\ fpc'[g] = fpc[g] /\ fsent'[g] = fsent[g] /\ fseen'[g] = fseen[g]
  BY <1>1, OthersKeep
<1>4. CASE ~Holds(f, i)'
  BY <1>1, <1>2, <1>3, <1>4, CountableStays
<1>5. CASE Holds(f, i)'
  <2>1. status[i] = PENDING /\ Tries(f, i)' = attempts[i] + 1 /\ attempts[i] < Ceiling(i)
    BY <1>1, <1>5 DEF Tries, Countable
  <2>2. CASE \E g \in Flushers : Holds(g, i)
    <3>1. Ceiling(i)' = Ceiling(i) + 1
      BY <1>1, <1>2, <1>5, <2>2, CountTyped DEF Ceiling
    <3>2. ASSUME NEW g \in Flushers, Holds(g, i)' PROVE Tries(g, i)' <= Ceiling(i)
      <4>1. CASE g = f
        BY <2>1, <4>1, CountTyped
      <4>2. CASE g # f
        BY <1>3, <3>2, <4>2, CountTyped DEF Countable, LastTry
      <4> QED
        BY <4>1, <4>2
    <3>3. ASSUME NEW g \in Flushers, Holds(g, i)' PROVE Tries(g, i)' < Ceiling(i)'
      <4>1. Tries(g, i)' \in Nat
        BY <1>3, <2>1, <3>3, CountTyped
      <4> QED
        BY <3>1, <3>2, <3>3, <4>1, CountTyped
    <3>4. attempts'[i] < Ceiling(i)'
      BY <1>2, <2>1, <3>1, CountTyped
    <3> QED
      BY <3>3, <3>4, CountTyped, <1>2, <2>1, <3>1 DEF Countable
  <2>3. CASE ~ \E g \in Flushers : Holds(g, i)
    <3>1. Ceiling(i)' = Ceiling(i)
      BY <1>1, <1>2, <2>3 DEF Ceiling
    <3>2. \A g \in Flushers : Holds(g, i)' => g = f
      BY <1>3, <2>3
    <3>3. Tries(f, i)' < Ceiling(i)' \/ LastTry(f, i)'
      BY <1>1, <1>2, <2>1, <3>1, <3>2, CountTyped DEF LastTry
    <3>4. attempts'[i] < Ceiling(i)'
      BY <1>2, <2>1, <3>1
    <3> QED
      BY <3>2, <3>3, <3>4, <2>1, <1>2, <3>1, CountTyped DEF Countable
  <2> QED
    BY <2>2, <2>3
<1> QED
  BY <1>4, <1>5

(* The write of a last try settles the row, since its holder is alone.     *)
LEMMA CountableWrite ==
  ASSUME BaseInv, RaceTypeOK, HandInv, BudgetsHeld, NEW f \in Flushers, FlushWrite(f), NEW i \in Live, Countable(i)
  PROVE  Countable(i)'
<1>1. /\ Others(f) /\ rows'[i] = rows[i] /\ again'[i] = again[i]
      /\ \A g \in Flushers : Holds(g, i)' =>
             /\ Holds(g, i) /\ Tries(g, i)' = Tries(g, i)
             /\ fpc'[g] = "seen" /\ fsent'[g].id = i =>
                    \/ fseen'[g].status = status[i]
                    \/ fpc[g] = "seen" /\ fsent[g].id = i /\ fseen'[g] = fseen[g]
  BY WriteDoes, CopiesKept
<1>2. CASE status'[i] = status[i] /\ attempts'[i] = attempts[i]
  BY <1>1, <1>2, CountableStays
<1>3. CASE ~(status'[i] = status[i] /\ attempts'[i] = attempts[i])
  <2>1. /\ i = fsent[f].id /\ Holds(f, i) /\ ~Holds(f, i)' /\ fpc[f] = "seen" /\ InHand(f)
        /\ status'[i] = Written(Outcome(fsent[f]), fseen[f].status, status[i])
        /\ attempts'[i] = Written(fsent[f].tries, fseen[f].attempts, attempts[i])
    BY <1>3, WriteDoes, WriteHolds DEF TableStays, InHand
  <2>2. Tries(f, i) = fsent[f].tries
    BY <2>1 DEF HandInv, Tries
  <2>3. Ceiling(i)' = Ceiling(i)
    BY <1>1, BoundOfRow DEF Ceiling
  <2>4. attempts[i] < Ceiling(i) /\ (Tries(f, i) < Ceiling(i) \/ LastTry(f, i))
    BY <2>1 DEF Countable
  <2>5. attempts'[i] = attempts[i] \/ attempts'[i] = Tries(f, i)
    BY <2>1, <2>2 DEF Written
  <2>6. CASE Tries(f, i) < Ceiling(i)
    <3>1. attempts'[i] < Ceiling(i) /\ attempts'[i] <= Ceiling(i)
      BY <2>4, <2>5, <2>6, CountTyped
    <3>2. ASSUME NEW g \in Flushers, Holds(g, i)' PROVE Tries(g, i)' < Ceiling(i)
      <4>1. Holds(g, i) /\ g # f /\ Tries(g, i)' = Tries(g, i)
        BY <1>1, <2>1, <3>2
      <4>2. ~LastTry(g, i)
        BY <2>1, <4>1 DEF LastTry
      <4> QED
        BY <4>1, <4>2 DEF Countable
    <3> QED
      BY <2>3, <3>1, <3>2 DEF Countable
  <2>7. CASE LastTry(f, i)
    <3>1. status[i] = PENDING /\ fseen[f].status = PENDING /\ Tries(f, i) = Ceiling(i)
      BY <2>1, <2>7 DEF LastTry
    <3>2. fsent[f].budget <= BudgetBound(i) /\ fsent[f].budget \in Nat
      BY <2>1, TypesUnfold DEF BudgetsHeld, Sents
    <3>3. fsent[f].tries >= fsent[f].budget
      BY <2>2, <3>1, <3>2, CountTyped
    <3>4. Outcome(fsent[f]) # PENDING
      BY <3>3, StatusesDiffer DEF Outcome
    <3>5. status'[i] # PENDING
      BY <2>1, <3>1, <3>4 DEF Written
    <3>6. \A g \in Flushers : ~Holds(g, i)'
      BY <1>1, <2>1, <2>7 DEF LastTry
    <3>7. attempts'[i] <= Ceiling(i)
      BY <2>4, <2>5, <3>1, CountTyped
    <3> QED
      BY <2>3, <3>5, <3>6, <3>7 DEF Countable
  <2> QED
    BY <2>4, <2>6, <2>7
<1> QED
  BY <1>2, <1>3

LEMMA AttemptsStep ==
  ASSUME BaseInv, RaceTypeOK, HandInv, AttemptsInv, [Next]_vars
  PROVE  AttemptsInv'
<1>1. CASE TableStays /\ UNCHANGED <<flusher, flushHistory>>
  <2>1. Live' = Live /\ \A i \in Live : rows'[i] = rows[i]
    BY <1>1 DEF TableStays, Live
  <2>2. ASSUME NEW i \in Live PROVE Countable(i)'
    <3>1. \A g \in Flushers : /\ Holds(g, i)' <=> Holds(g, i)
                              /\ Tries(g, i)' = Tries(g, i)
                              /\ fpc'[g] = fpc[g] /\ fsent'[g] = fsent[g] /\ fseen'[g] = fseen[g]
      BY <1>1 DEF Holds, Tries, InHand, flusher
    <3> QED
      BY <1>1, <2>2, <3>1, CountableStays DEF AttemptsInv, TableStays, flushHistory
  <2>3. BudgetsHeld'
    BY <1>1 DEF AttemptsInv, BudgetsHeld, BudgetBound, InHand, flusher, TableStays
  <2> QED
    BY <2>1, <2>2, <2>3 DEF AttemptsInv
<1>2. CASE Grown /\ UNCHANGED flushHistory
  <2>1. /\ Live \subseteq Live' /\ UNCHANGED <<attempts, flusher>>
        /\ \A i \in Live : rows'[i] = rows[i] /\ status'[i] = status[i]
        /\ \A i \in Live' \ Live : i \in Ids /\ rows'[i] \in Requests /\ attempts[i] = 0 /\ status'[i] = PENDING
    BY <1>2, GrownTable
  <2>2. ASSUME NEW i \in Live PROVE Countable(i)'
    <3>1. \A g \in Flushers : /\ Holds(g, i)' <=> Holds(g, i)
                              /\ Tries(g, i)' = Tries(g, i)
                              /\ fpc'[g] = fpc[g] /\ fsent'[g] = fsent[g] /\ fseen'[g] = fseen[g]
      BY <2>1 DEF Holds, Tries, InHand, flusher
    <3> QED
      BY <1>2, <2>1, <2>2, <3>1, CountableStays DEF AttemptsInv, flushHistory
  <2>3. ASSUME NEW i \in Live' \ Live PROVE Countable(i)'
    <3>1. i \in Ids /\ BudgetBound(i)' \in Nat /\ BudgetBound(i)' >= 1 /\ again[i] \in Nat /\ again'[i] = again[i]
      BY <1>2, <2>1, BoundOfNew DEF RaceTypeOK, flushHistory
    <3>2. attempts'[i] = 0 /\ \A f \in Flushers : ~Holds(f, i)'
      BY <1>2, <2>1, NewNotHeld
    <3> QED
      BY <3>1, <3>2 DEF Countable, Ceiling
  <2>4. BudgetsHeld'
    <3>1. ASSUME NEW f \in Flushers, InHand(f)' PROVE fsent'[f].budget <= BudgetBound(fsent[f].id)'
      <4>1. InHand(f) /\ fsent'[f] = fsent[f] /\ fsent[f].id \in Live
        BY <2>1, <3>1 DEF InHand, flusher, BaseInv, HeldLive
      <4>2. PICK i \in Live : i = fsent[f].id
        BY <4>1
      <4>3. BudgetBound(i)' = BudgetBound(i)
        BY <2>1, BoundOfRow
      <4> QED
        BY <4>1, <4>2, <4>3 DEF AttemptsInv, BudgetsHeld, BudgetBound
    <3> QED
      BY <3>1 DEF BudgetsHeld
  <2> QED
    BY <2>2, <2>3, <2>4 DEF AttemptsInv
<1>3. ASSUME NEW f \in Flushers, FlushSelect(f) \/ FlushSend(f) \/ FlushRead(f) \/ FlushWrite(f) \/ Crash(f)
      PROVE  AttemptsInv'
  <2>1. Live' = Live
    BY <1>3, SelectDoes, SendDoes, ReadDoes, WriteDoes, CrashDoes DEF TableStays, Live
  <2>2. ASSUME NEW i \in Live, FlushSend(f) \/ FlushRead(f) \/ Crash(f) PROVE Countable(i)'
    <3>1. TableStays /\ UNCHANGED again
      BY <2>2, SendDoes, ReadDoes, CrashDoes DEF history, flushHistory
    <3>2. \A g \in Flushers : Holds(g, i)' =>
             /\ Holds(g, i) /\ Tries(g, i)' = Tries(g, i)
             /\ fpc'[g] = "seen" /\ fsent'[g].id = i =>
                    \/ fseen'[g].status = status[i]
                    \/ fpc[g] = "seen" /\ fsent[g].id = i /\ fseen'[g] = fseen[g]
      BY <2>2, CopiesKept
    <3>3. rows'[i] = rows[i] /\ status'[i] = status[i] /\ attempts'[i] = attempts[i] /\ again'[i] = again[i]
      BY <3>1 DEF TableStays
    <3> QED
      BY <3>2, <3>3, CountableStays DEF AttemptsInv
  <2>3. \A i \in Live : Countable(i)'
    BY <1>3, <2>2, CountableSelect, CountableWrite DEF AttemptsInv
  <2>4. BudgetsHeld'
    BY <1>3, BudgetsKept DEF AttemptsInv
  <2> QED
    BY <2>1, <2>3, <2>4 DEF AttemptsInv
<1>4. CASE UNCHANGED vars
  BY <1>1, <1>4, VarsStay DEF history
<1> QED
  BY <1>1, <1>2, <1>3, <1>4, OtherSteps

LEMMA AttemptsStart == ASSUME Init PROVE AttemptsInv
<1>1. Live = {} /\ \A f \in Flushers : ~InHand(f)
  BY DEF Init, Live, InHand
<1> QED
  BY <1>1 DEF AttemptsInv, BudgetsHeld

-----------------------------------------------------------------------------
(* PostsInv *)

LEMMA DueCounted == ASSUME NEW i PROVE IsFiniteSet(Due(i)) /\ Cardinality(Due(i)) \in Nat
<1>1. Due(i) \subseteq Flushers /\ IsFiniteSet(Flushers)
  BY DeliveryAssumption DEF Due
<1> QED
  BY <1>1, FS_Subset, FS_CardinalityType

(* Whoever takes a row has one post more due, and whoever posts it or lets *)
(* go of it before that one less.                                          *)
LEMMA DueMoves ==
  ASSUME BaseInv, NEW f \in Flushers, Others(f), NEW i
  PROVE  /\ i \in DOMAIN fbatch'[f] /\ i \notin DOMAIN fbatch[f] => Cardinality(Due(i)') = Cardinality(Due(i)) + 1
         /\ i \notin DOMAIN fbatch'[f] /\ i \in DOMAIN fbatch[f] => Cardinality(Due(i)') = Cardinality(Due(i)) - 1
         /\ (i \in DOMAIN fbatch'[f] <=> i \in DOMAIN fbatch[f]) => Due(i)' = Due(i)
         /\ Cardinality(Due(i)') \in Nat
<1>0. Cardinality(Due(i)') \in Nat
  <2>1. Due(i)' \subseteq Flushers /\ IsFiniteSet(Flushers)
    BY DeliveryAssumption DEF Due
  <2> QED
    BY <2>1, FS_Subset, FS_CardinalityType
<1>1. ASSUME i \in DOMAIN fbatch'[f], i \notin DOMAIN fbatch[f]
      PROVE  Cardinality(Due(i)') = Cardinality(Due(i)) + 1
  <2>1. Due(i)' = Due(i) \cup {f} /\ f \notin Due(i)
    BY <1>1 DEF Due, Others
  <2> QED
    BY <2>1, DueCounted, OneMore
<1>2. ASSUME i \notin DOMAIN fbatch'[f], i \in DOMAIN fbatch[f]
      PROVE  Cardinality(Due(i)') = Cardinality(Due(i)) - 1
  <2>1. Due(i)' = Due(i) \ {f} /\ f \in Due(i)
    BY <1>2 DEF Due, Others
  <2> QED
    BY <2>1, DueCounted, OneLess
<1>3. ASSUME i \in DOMAIN fbatch'[f] <=> i \in DOMAIN fbatch[f]
      PROVE  Due(i)' = Due(i)
  BY <1>3 DEF Due, Others
<1> QED
  BY <1>0, <1>1, <1>2, <1>3

(* A row's posts with those due, in terms of any bound for them. *)
PostsDue(i) == posts[i] + Cardinality(Due(i))

LEMMA PostedStays ==
  ASSUME BaseInv, RaceTypeOK, NEW i \in Live, Posted(i), attempts'[i] = attempts[i],
         PostsDue(i)' \in Nat, Slack(i)' \in Nat, PostsDue(i)' <= PostsDue(i), Slack(i)' >= Slack(i),
         \A g \in Flushers : Holds(g, i)' => Holds(g, i) /\ Tries(g, i)' = Tries(g, i),
         \/ \A g \in Flushers :
              /\ Holds(g, i) => Holds(g, i)'
              /\ fpc'[g] = "seen" /\ fsent'[g].id = i =>
                     \/ fseen'[g].attempts = attempts[i]
                     \/ fpc[g] = "seen" /\ fsent[g].id = i /\ fseen'[g] = fseen[g]
         \/ \E f \in Flushers : Holds(f, i) /\ (PostsDue(i)' < PostsDue(i) \/ Slack(i)' > Slack(i))
  PROVE  Posted(i)'
<1>0. /\ attempts[i] \in Nat /\ PostsDue(i) \in Nat /\ Slack(i) \in Nat
      /\ \A f \in Flushers : Tries(f, i) \in Nat
  BY CountTyped, DueCounted DEF PostsDue
<1>1. /\ \A f \in Flushers : Holds(f, i) => PostsDue(i) <= Tries(f, i) + Slack(i)
      /\ PostsDue(i) <= attempts[i] + Slack(i) \/ Unwritten(i)
  BY DEF Posted, PostsDue
<1>2. \A f \in Flushers : Holds(f, i)' => PostsDue(i)' <= Tries(f, i)' + Slack(i)'
  BY <1>0, <1>1
<1>3. PostsDue(i)' <= attempts'[i] + Slack(i)' \/ Unwritten(i)'
  <2>1. CASE PostsDue(i) <= attempts[i] + Slack(i)
    BY <1>0, <2>1
  <2>2. ASSUME Unwritten(i), NEW f \in Flushers, Holds(f, i), PostsDue(i)' < PostsDue(i) \/ Slack(i)' > Slack(i)
        PROVE  PostsDue(i)' <= attempts'[i] + Slack(i)'
    <3>1. Tries(f, i) = attempts[i] + 1 /\ PostsDue(i) <= Tries(f, i) + Slack(i)
      BY <1>1, <2>2 DEF Unwritten
    <3> QED
      BY <1>0, <2>2, <3>1
  <2>3. ASSUME Unwritten(i),
               \A g \in Flushers :
                 /\ Holds(g, i) => Holds(g, i)'
                 /\ fpc'[g] = "seen" /\ fsent'[g].id = i =>
                        \/ fseen'[g].attempts = attempts[i]
                        \/ fpc[g] = "seen" /\ fsent[g].id = i /\ fseen'[g] = fseen[g]
        PROVE  Unwritten(i)'
    BY <2>3 DEF Unwritten
  <2> QED
    BY <1>1, <2>1, <2>2, <2>3
<1> QED
  BY <1>2, <1>3 DEF Posted, PostsDue

LEMMA PostsTyped ==
  ASSUME BaseInv, RaceTypeOK, NEW i \in Live
  PROVE  /\ PostsDue(i) \in Nat /\ Slack(i) \in Nat /\ attempts[i] \in Nat
         /\ \A f \in Flushers : Tries(f, i) \in Nat
BY CountTyped, DueCounted DEF PostsDue

LEMMA PostedSelect ==
  ASSUME BaseInv, RaceTypeOK, HandInv, NEW f \in Flushers, FlushSelect(f), NEW i \in Live, Posted(i)
  PROVE  Posted(i)'
<1>1. /\ Others(f) /\ TableStays /\ fpc'[f] # "seen" /\ fsent'[f].id = NoId /\ fpc[f] = "ready"
      /\ i \in DOMAIN fbatch'[f] => status[i] = PENDING /\ fbatch'[f][i] = attempts[i]
      /\ ~Holds(f, i) /\ (Holds(f, i)' <=> i \in DOMAIN fbatch'[f])
      /\ again'[i] = IF Holds(f, i)' /\ (\E g \in Flushers : Holds(g, i)) THEN again[i] + 1 ELSE again[i]
      /\ losses' = losses /\ posts' = posts
  BY SelectDoes, SelectHolds DEF counts
<1>2. i \notin DOMAIN fbatch[f] /\ attempts'[i] = attempts[i]
  BY <1>1 DEF HandInv, TableStays
<1>3. \A g \in Flushers : g # f => /\ Holds(g, i)' <=> Holds(g, i)
                                   /\ Tries(g, i)' = Tries(g, i)
                                   /\ fpc'[g] = fpc[g] /\ fsent'[g] = fsent[g] /\ fseen'[g] = fseen[g]
  BY <1>1, OthersKeep
<1>4. CASE ~Holds(f, i)'
  <2>1. PostsDue(i)' = PostsDue(i) /\ Slack(i)' = Slack(i)
    BY <1>1, <1>2, <1>4, DueMoves DEF PostsDue, Slack
  <2>2. PostsDue(i)' \in Nat /\ Slack(i)' \in Nat /\ PostsDue(i)' <= PostsDue(i) /\ Slack(i)' >= Slack(i)
    BY <2>1, PostsTyped
  <2> QED
    BY <1>1, <1>2, <1>3, <1>4, <2>2, PostedStays
<1>5. CASE Holds(f, i)'
  <2>1. PostsDue(i)' = PostsDue(i) + 1
    BY <1>1, <1>2, <1>5, DueMoves, DueCounted, CountTyped DEF PostsDue
  <2>2. Tries(f, i)' = attempts[i] + 1
    BY <1>1, <1>5 DEF Tries
  <2>3. /\ \A g \in Flushers : Holds(g, i) => PostsDue(i) <= Tries(g, i) + Slack(i)
        /\ PostsDue(i) <= attempts[i] + Slack(i) \/ Unwritten(i)
    BY DEF Posted, PostsDue
  <2>4. CASE \E g \in Flushers : Holds(g, i)
    <3>1. Slack(i)' = Slack(i) + 1
      BY <1>1, <1>5, <2>4, CountTyped DEF Slack
    <3>2. PostsDue(i) <= attempts[i] + 1 + Slack(i)
      <4>1. CASE Unwritten(i)
        BY <2>3, <4>1 DEF Unwritten
      <4>2. CASE PostsDue(i) <= attempts[i] + Slack(i)
        BY <4>2, PostsTyped
      <4> QED
        BY <2>3, <4>1, <4>2
    <3>3. ASSUME NEW g \in Flushers, Holds(g, i)' PROVE PostsDue(i)' <= Tries(g, i)' + Slack(i)'
      <4>1. CASE g = f
        BY <2>1, <2>2, <3>1, <3>2, <4>1, PostsTyped
      <4>2. CASE g # f
        BY <1>3, <2>1, <2>3, <3>1, <3>3, <4>2, PostsTyped
      <4> QED
        BY <4>1, <4>2
    <3>4. PostsDue(i)' <= attempts'[i] + Slack(i)' \/ Unwritten(i)'
      <4>1. CASE Unwritten(i)
        <5>1. Unwritten(i)'
          BY <1>1, <1>2, <1>3, <1>5, <2>2, <4>1 DEF Unwritten
        <5> QED
          BY <5>1
      <4>2. CASE PostsDue(i) <= attempts[i] + Slack(i)
        BY <1>2, <2>1, <3>1, <4>2, PostsTyped
      <4> QED
        BY <2>3, <4>1, <4>2
    <3> QED
      BY <3>3, <3>4 DEF Posted, PostsDue
  <2>5. CASE ~ \E g \in Flushers : Holds(g, i)
    <3>1. Slack(i)' = Slack(i)
      BY <1>1, <2>5 DEF Slack
    <3>2. PostsDue(i) <= attempts[i] + Slack(i)
      BY <2>3, <2>5 DEF Unwritten
    <3>3. \A g \in Flushers : Holds(g, i)' => g = f
      BY <1>3, <2>5
    <3>4. \A g \in Flushers : Holds(g, i)' => PostsDue(i)' <= Tries(g, i)' + Slack(i)'
      BY <2>1, <2>2, <3>1, <3>2, <3>3, PostsTyped
    <3>5. Unwritten(i)'
      BY <1>1, <1>2, <1>5, <2>2, <3>3 DEF Unwritten
    <3> QED
      BY <3>4, <3>5 DEF Posted, PostsDue
  <2> QED
    BY <2>4, <2>5
<1> QED
  BY <1>4, <1>5

(* The POST is one that was due; the read is of the attempts on record.    *)
LEMMA PostedSends ==
  ASSUME BaseInv, RaceTypeOK, HandInv, NEW f \in Flushers, FlushSend(f) \/ FlushRead(f), NEW i \in Live, Posted(i)
  PROVE  Posted(i)'
<1>1. /\ Others(f) /\ attempts'[i] = attempts[i] /\ Slack(i)' = Slack(i)
  BY SendDoes, ReadDoes DEF TableStays, Slack, history, flushHistory
<1>2. \A g \in Flushers : Holds(g, i)' =>
         /\ Holds(g, i) /\ Tries(g, i)' = Tries(g, i)
         /\ fpc'[g] = "seen" /\ fsent'[g].id = i =>
                \/ fseen'[g].attempts = attempts[i]
                \/ fpc[g] = "seen" /\ fsent[g].id = i /\ fseen'[g] = fseen[g]
  BY CopiesKept
<1>3. /\ \A g \in Flushers : Holds(g, i) => Holds(g, i)'
      /\ PostsDue(i)' \in Nat /\ PostsDue(i)' <= PostsDue(i)
  <2>1. CASE FlushSend(f)
    <3>1. PICK k \in Live : /\ k \in DOMAIN fbatch[f] /\ fpc[f] = "batch" /\ fpc'[f] = "sent"
                            /\ DOMAIN fbatch'[f] = DOMAIN fbatch[f] \ {k} /\ fsent'[f].id = k
                            /\ posts' = posts \/ posts' = [posts EXCEPT ![k] = @ + 1]
      BY <2>1, SendDoes
    <3>2. \A g \in Flushers : Holds(g, i) => Holds(g, i)'
      BY <1>1, <3>1, OthersKeep DEF Holds, InHand
    <3>3. CASE i = k
      <4>1. Cardinality(Due(i)') = Cardinality(Due(i)) - 1
        BY <1>1, <3>1, <3>3, DueMoves
      <4>2. posts'[i] <= posts[i] + 1 /\ posts'[i] \in Nat
        BY <3>1, <3>3, CountTyped DEF BaseInv, WorkTypeOK
      <4> QED
        <5>1. Cardinality(Due(i)') \in Nat
          BY <1>1, DueMoves
        <5> QED
          BY <3>2, <4>1, <4>2, <5>1, DueCounted, CountTyped DEF PostsDue
    <3>4. CASE i # k
      <4>1. Due(i)' = Due(i)
        BY <1>1, <3>1, <3>4, DueMoves
      <4>2. posts'[i] = posts[i]
        BY <3>1, <3>4, CountTyped DEF BaseInv, WorkTypeOK
      <4> QED
        BY <3>2, <4>1, <4>2, PostsTyped DEF PostsDue
    <3> QED
      BY <3>3, <3>4
  <2>2. CASE FlushRead(f)
    <3>1. /\ fpc[f] = "sent" /\ fpc'[f] = "seen" /\ fbatch'[f] = fbatch[f] /\ fsent'[f] = fsent[f]
          /\ posts' = posts
      BY <2>2, ReadDoes DEF history, flushHistory
    <3>2. \A g \in Flushers : Holds(g, i) => Holds(g, i)'
      BY <1>1, <3>1, OthersKeep DEF Holds, InHand
    <3>3. PostsDue(i)' = PostsDue(i)
      BY <1>1, <3>1, DueMoves DEF PostsDue
    <3> QED
      BY <3>2, <3>3, PostsTyped
  <2> QED
    BY <2>1, <2>2
<1>4. Slack(i)' \in Nat /\ Slack(i)' >= Slack(i)
  BY <1>1, PostsTyped
<1>5. \A g \in Flushers :
         /\ Holds(g, i) => Holds(g, i)'
         /\ fpc'[g] = "seen" /\ fsent'[g].id = i =>
                \/ fseen'[g].attempts = attempts[i]
                \/ fpc[g] = "seen" /\ fsent[g].id = i /\ fseen'[g] = fseen[g]
  <2>1. ASSUME NEW g \in Flushers, fpc'[g] = "seen", fsent'[g].id = i PROVE Holds(g, i)'
    BY <2>1 DEF Holds, InHand
  <2> QED
    BY <1>2, <1>3, <2>1
<1> QED
  BY <1>1, <1>2, <1>3, <1>4, <1>5, PostedStays

(* A flusher that stops loses the answer it holds, and what it had not     *)
(* posted yet is due no more.                                              *)
LEMMA PostedStops ==
  ASSUME BaseInv, RaceTypeOK, HandInv, NEW f \in Flushers, FlushWrite(f) \/ Crash(f),
         TableStays, DOMAIN fbatch'[f] = {}, fpc[f] = "batch" => UNCHANGED losses,
         InHand(f) => LoseAnswer(fsent[f].id), fpc[f] \in {"batch", "sent", "seen"},
         NEW i \in Live, Posted(i)
  PROVE  Posted(i)'
<1>1. Others(f) /\ attempts'[i] = attempts[i] /\ posts' = posts /\ again' = again
  BY WriteDoes, CrashDoes DEF TableStays, counts
<1>2. \A g \in Flushers : Holds(g, i)' =>
         /\ Holds(g, i) /\ Tries(g, i)' = Tries(g, i)
         /\ fpc'[g] = "seen" /\ fsent'[g].id = i => fpc[g] = "seen" /\ fsent[g].id = i /\ fseen'[g] = fseen[g]
  <2>1. ~FlushRead(f)
    BY ReadDoes, WriteDoes, CrashDoes
  <2> QED
    BY <2>1, CopiesKept
<1>3. fpc'[f] # "seen"
  BY WriteDoes, CrashDoes
<1>4. \A g \in Flushers : g # f => (Holds(g, i)' <=> Holds(g, i)) /\ fpc'[g] = fpc[g] /\ fsent'[g] = fsent[g]
  BY <1>1, OthersKeep
<1>5. losses \in [Ids -> Nat] /\ i \in Ids /\ again[i] \in Nat
  BY CountTyped DEF RaceTypeOK
<1>6. CASE i \in DOMAIN fbatch[f]
  <2>1. PostsDue(i)' = PostsDue(i) - 1 /\ PostsDue(i)' \in Nat
    BY <1>1, <1>6, DueMoves, DueCounted, CountTyped DEF PostsDue
  <2>2. losses'[i] >= losses[i] /\ losses'[i] \in Nat
    BY <1>5 DEF InHand, LoseAnswer
  <2>3. Slack(i)' >= Slack(i) /\ Slack(i)' \in Nat
    BY <1>1, <1>5, <2>2 DEF Slack
  <2>4. Holds(f, i) /\ PostsDue(i)' < PostsDue(i) /\ PostsDue(i)' <= PostsDue(i)
    BY <1>6, <2>1, PostsTyped DEF Holds
  <2> QED
    BY <1>1, <1>2, <2>1, <2>3, <2>4, PostedStays
<1>7. CASE InHand(f) /\ fsent[f].id = i
  <2>1. i \notin DOMAIN fbatch[f] /\ Holds(f, i)
    BY <1>7 DEF HandInv, Holds
  <2>2. PostsDue(i)' = PostsDue(i) /\ PostsDue(i)' \in Nat
    BY <1>1, <2>1, DueMoves, PostsTyped DEF PostsDue
  <2>3. Slack(i)' = Slack(i) + 1
    BY <1>1, <1>5, <1>7 DEF Slack, LoseAnswer
  <2>4. Slack(i)' > Slack(i) /\ Slack(i)' >= Slack(i) /\ Slack(i)' \in Nat /\ PostsDue(i)' <= PostsDue(i)
    BY <2>2, <2>3, PostsTyped
  <2> QED
    BY <1>1, <1>2, <2>1, <2>2, <2>4, PostedStays
<1>8. CASE ~Holds(f, i)
  <2>1. i \notin DOMAIN fbatch[f] /\ ~(InHand(f) /\ fsent[f].id = i)
    BY <1>8 DEF Holds
  <2>2. losses'[i] = losses[i]
    BY <1>5, <2>1 DEF InHand, LoseAnswer
  <2>3. PostsDue(i)' = PostsDue(i) /\ Slack(i)' = Slack(i)
    BY <1>1, <2>1, <2>2, DueMoves DEF PostsDue, Slack
  <2>4. /\ PostsDue(i)' \in Nat /\ PostsDue(i)' <= PostsDue(i) /\ Slack(i)' \in Nat /\ Slack(i)' >= Slack(i)
    BY <2>3, PostsTyped
  <2>5. \A g \in Flushers :
           /\ Holds(g, i) => Holds(g, i)'
           /\ fpc'[g] = "seen" /\ fsent'[g].id = i =>
                  \/ fseen'[g].attempts = attempts[i]
                  \/ fpc[g] = "seen" /\ fsent[g].id = i /\ fseen'[g] = fseen[g]
    <3>1. ASSUME NEW g \in Flushers, fpc'[g] = "seen", fsent'[g].id = i PROVE Holds(g, i)'
      BY <3>1 DEF Holds, InHand
    <3> QED
      BY <1>2, <1>4, <1>8, <3>1
  <2> QED
    BY <1>1, <1>2, <2>4, <2>5, PostedStays
<1> QED
  BY <1>6, <1>7, <1>8 DEF Holds

(* A write counts the try, unless it is of the value that was read.        *)
LEMMA PostedWrites ==
  ASSUME BaseInv, RaceTypeOK, HandInv, NEW f \in Flushers, FlushWrite(f), UNCHANGED losses,
         DOMAIN fbatch'[f] = DOMAIN fbatch[f],
         attempts'[fsent[f].id] = Written(fsent[f].tries, fseen[f].attempts, attempts[fsent[f].id]),
         NEW i \in Live, Posted(i)
  PROVE  Posted(i)'
<1>1. Others(f) /\ posts' = posts /\ again' = again /\ fpc[f] = "seen" /\ InHand(f)
  BY WriteDoes DEF counts, InHand
<1>2. \A g \in Flushers : Holds(g, i)' =>
         /\ Holds(g, i) /\ Tries(g, i)' = Tries(g, i)
         /\ fpc'[g] = "seen" /\ fsent'[g].id = i => fpc[g] = "seen" /\ fsent[g].id = i /\ fseen'[g] = fseen[g]
  <2>1. ~FlushRead(f)
    BY <1>1, ReadDoes
  <2> QED
    BY <2>1, CopiesKept
<1>3. PostsDue(i)' = PostsDue(i) /\ Slack(i)' = Slack(i)
  BY <1>1, DueMoves DEF PostsDue, Slack
<1>4. /\ PostsDue(i)' \in Nat /\ PostsDue(i)' <= PostsDue(i) /\ Slack(i)' \in Nat /\ Slack(i)' >= Slack(i)
  BY <1>3, PostsTyped
<1>5. CASE i # fsent[f].id
  <2>1. attempts'[i] = attempts[i] /\ (Holds(f, i) => Holds(f, i)')
    BY <1>5, WriteHolds DEF Holds
  <2>2. \A g \in Flushers :
           /\ Holds(g, i) => Holds(g, i)'
           /\ fpc'[g] = "seen" /\ fsent'[g].id = i =>
                  \/ fseen'[g].attempts = attempts[i]
                  \/ fpc[g] = "seen" /\ fsent[g].id = i /\ fseen'[g] = fseen[g]
    <3>1. ASSUME NEW g \in Flushers, fpc'[g] = "seen", fsent'[g].id = i PROVE Holds(g, i)'
      BY <3>1 DEF Holds, InHand
    <3> QED
      BY <1>1, <1>2, <2>1, <3>1, OthersKeep
  <2> QED
    BY <1>2, <1>4, <2>1, <2>2, PostedStays
<1>6. CASE i = fsent[f].id
  <2>1. Holds(f, i) /\ Tries(f, i) = fsent[f].tries
    BY <1>1, <1>6 DEF Holds, HandInv, Tries
  <2>2. PostsDue(i) <= Tries(f, i) + Slack(i) /\ (PostsDue(i) <= attempts[i] + Slack(i) \/ Unwritten(i))
    BY <2>1 DEF Posted, PostsDue
  <2>3. PostsDue(i) <= attempts'[i] + Slack(i)
    <3>1. CASE fsent[f].tries # fseen[f].attempts
      BY <1>6, <2>1, <2>2, <3>1 DEF Written
    <3>2. CASE fsent[f].tries = fseen[f].attempts
      <4>1. attempts'[i] = attempts[i]
        BY <1>6, <3>2 DEF Written
      <4>2. ~Unwritten(i)
        <5>1. Unwritten(i) => Tries(f, i) = attempts[i] + 1 /\ fseen[f].attempts = attempts[i]
          BY <1>1, <1>6, <2>1 DEF Unwritten
        <5> QED
          BY <2>1, <3>2, <5>1, PostsTyped
      <4> QED
        BY <2>2, <4>1, <4>2
    <3> QED
      BY <3>1, <3>2
  <2>4. \A g \in Flushers : Holds(g, i)' => PostsDue(i)' <= Tries(g, i)' + Slack(i)'
    BY <1>2, <1>3 DEF Posted, PostsDue
  <2> QED
    BY <1>3, <2>3, <2>4 DEF Posted, PostsDue
<1> QED
  BY <1>5, <1>6

LEMMA PostsRest ==
  ASSUME BaseInv, RaceTypeOK, UNCHANGED <<flusher, flushHistory>>, NEW i \in Live, Posted(i),
         attempts'[i] = attempts[i]
  PROVE  Posted(i)'
<1>1. /\ PostsDue(i)' = PostsDue(i) /\ Slack(i)' = Slack(i)
      /\ \A g \in Flushers : /\ Holds(g, i)' <=> Holds(g, i)
                             /\ Tries(g, i)' = Tries(g, i)
                             /\ fpc'[g] = fpc[g] /\ fsent'[g] = fsent[g] /\ fseen'[g] = fseen[g]
  BY DEF flusher, flushHistory, PostsDue, Due, Slack, Holds, Tries, InHand
<1>2. /\ PostsDue(i)' \in Nat /\ PostsDue(i)' <= PostsDue(i) /\ Slack(i)' \in Nat /\ Slack(i)' >= Slack(i)
  BY <1>1, PostsTyped
<1> QED
  BY <1>1, <1>2, PostedStays

LEMMA PostsStep ==
  ASSUME BaseInv, RaceTypeOK, HandInv, PostsInv, [Next]_vars
  PROVE  PostsInv'
<1>1. CASE TableStays /\ UNCHANGED <<flusher, flushHistory>>
  BY <1>1, PostsRest DEF TableStays, PostsInv, Live
<1>2. CASE Grown /\ UNCHANGED flushHistory
  <2>1. /\ UNCHANGED <<attempts, flusher>>
        /\ \A i \in Live' \ Live : i \in Ids /\ attempts[i] = 0 /\ posts[i] = 0
    BY <1>2, GrownTable
  <2>2. \A i \in Live : Posted(i)'
    BY <1>2, <2>1, PostsRest DEF PostsInv
  <2>3. ASSUME NEW i \in Live' \ Live PROVE Posted(i)'
    <3>1. \A f \in Flushers : ~Holds(f, i)'
      BY <1>2, NewNotHeld
    <3>2. Due(i)' = {} /\ posts'[i] = 0 /\ attempts'[i] = 0
      BY <1>2, <2>1, <3>1 DEF Due, Holds, flushHistory
    <3>3. losses'[i] \in Nat /\ again'[i] \in Nat
      BY <1>2, <2>1 DEF RaceTypeOK, flushHistory
    <3>4. Cardinality(Due(i)') = 0
      BY <3>2, FS_EmptySet
    <3>5. posts'[i] + Cardinality(Due(i)') <= attempts'[i] + Slack(i)'
      BY <3>2, <3>3, <3>4 DEF Slack
    <3> QED
      BY <3>1, <3>5 DEF Posted
  <2> QED
    BY <2>2, <2>3 DEF PostsInv
<1>3. ASSUME NEW f \in Flushers, FlushSelect(f) \/ FlushSend(f) \/ FlushRead(f) PROVE PostsInv'
  <2>1. Live' = Live
    BY <1>3, SelectDoes, SendDoes, ReadDoes DEF TableStays, Live
  <2> QED
    BY <1>3, <2>1, PostedSelect, PostedSends DEF PostsInv
<1>4. ASSUME NEW f \in Flushers, Crash(f) PROVE PostsInv'
  <2>1. /\ TableStays /\ DOMAIN fbatch'[f] = {} /\ fpc[f] \in {"batch", "sent", "seen"}
        /\ fpc[f] = "batch" => UNCHANGED losses
        /\ InHand(f) => LoseAnswer(fsent[f].id)
    BY <1>4, CrashDoes DEF InHand
  <2>2. Live' = Live
    BY <2>1 DEF TableStays, Live
  <2> QED
    BY <1>4, <2>1, <2>2, PostedStops DEF PostsInv
<1>5. ASSUME NEW f \in Flushers, FlushWrite(f) PROVE PostsInv'
  <2>1. Live' = Live /\ fpc[f] = "seen" /\ InHand(f)
    BY <1>5, WriteDoes DEF Live, InHand
  <2>2. CASE TableStays /\ DOMAIN fbatch'[f] = {} /\ LoseAnswer(fsent[f].id)
    BY <1>5, <2>1, <2>2, PostedStops DEF PostsInv
  <2>3. CASE /\ DOMAIN fbatch'[f] = DOMAIN fbatch[f] /\ UNCHANGED losses
             /\ attempts'[fsent[f].id] = Written(fsent[f].tries, fseen[f].attempts, attempts[fsent[f].id])
    BY <1>5, <2>1, <2>3, PostedWrites DEF PostsInv
  <2> QED
    BY <1>5, <2>2, <2>3, WriteDoes
<1>6. CASE UNCHANGED vars
  BY <1>1, <1>6, VarsStay DEF history
<1> QED
  BY <1>1, <1>2, <1>3, <1>4, <1>5, <1>6, OtherSteps

LEMMA PostsStart == ASSUME Init PROVE PostsInv
BY DEF Init, Live, PostsInv

-----------------------------------------------------------------------------
(* AnswersInv *)

LEMMA AnswersStep ==
  ASSUME BaseInv, RaceTypeOK, HandInv, LoneInv, AnswersInv, [Next]_vars
  PROVE  AnswersInv'
<1>0. accepted \subseteq Live /\ accepted \subseteq Ids
  BY DEF BaseInv, RowsKept, WorkTypeOK, DeliveryTypeOK, Live, Ids
<1>1. CASE TableStays /\ UNCHANGED <<flusher, flushHistory>>
  BY <1>1 DEF AnswersInv, TableStays, flusher, flushHistory, InHand
<1>2. CASE Grown /\ UNCHANGED flushHistory
  BY <1>0, <1>2, GrownTable DEF AnswersInv, flusher, flushHistory, InHand
<1>3. ASSUME NEW f \in Flushers, FlushSelect(f) PROVE AnswersInv'
  <2>1. /\ fpc[f] = "ready" /\ Others(f) /\ TableStays /\ UNCHANGED <<accepted, losses>>
        /\ again \in [Ids -> Nat] => \A i \in Ids : again'[i] >= again[i] /\ again'[i] \in Nat
    BY <1>3, SelectDoes, SelectHolds DEF counts
  <2>2. \A i \in accepted : again'[i] = 0 => again[i] = 0
    BY <1>0, <2>1 DEF RaceTypeOK
  <2>3. \A g \in Flushers : InHand(g) => g # f /\ InHand(g)' /\ fsent'[g] = fsent[g]
    BY <2>1 DEF InHand, Others
  <2> QED
    BY <2>1, <2>2, <2>3 DEF AnswersInv, TableStays
<1>4. ASSUME NEW f \in Flushers, FlushSend(f) PROVE AnswersInv'
  <2>1. PICK i \in Live, ok \in BOOLEAN :
           /\ fpc[f] = "batch" /\ fpc'[f] = "sent" /\ Others(f) /\ TableStays /\ UNCHANGED <<losses, again>>
           /\ fsent'[f].id = i /\ fsent'[f].ok = ok
           /\ accepted' = IF ok THEN accepted \cup {i} ELSE accepted
    BY <1>4, SendDoes
  <2>2. \A g \in Flushers : InHand(g) => g # f /\ InHand(g)' /\ fsent'[g] = fsent[g]
    BY <2>1 DEF InHand, Others
  <2>3. InHand(f)'
    BY <2>1 DEF InHand
  <2> QED
    BY <2>1, <2>2, <2>3 DEF AnswersInv, TableStays
<1>5. ASSUME NEW f \in Flushers, FlushRead(f) PROVE AnswersInv'
  <2>1. /\ Others(f) /\ TableStays /\ UNCHANGED <<accepted, losses, again>> /\ fsent'[f] = fsent[f]
        /\ fpc'[f] = "seen"
    BY <1>5, ReadDoes DEF history, flushHistory
  <2>2. \A g \in Flushers : InHand(g) => InHand(g)' /\ fsent'[g] = fsent[g]
    BY <2>1 DEF InHand, Others
  <2> QED
    BY <2>1, <2>2 DEF AnswersInv, TableStays
(* A flusher that has its answer in hand no more has written or lost it.   *)
<1>6. ASSUME NEW f \in Flushers, Others(f), UNCHANGED <<accepted, again>>,
             \A i \in accepted : losses'[i] = 0 => losses[i] = 0,
             \A i \in accepted : status'[i] = status[i] \/ i = fsent[f].id,
             \A i \in accepted : again[i] = 0 /\ losses'[i] = 0 /\ InHand(f) /\ fsent[f].id = i =>
                 (fsent[f].ok => status'[i] = DELIVERED) /\ (status[i] = DELIVERED => status'[i] = DELIVERED),
             InHand(f) \/ (\A i \in accepted : status'[i] = status[i])
      PROVE  AnswersInv'
  <2> SUFFICES ASSUME NEW i \in accepted, again[i] = 0, losses'[i] = 0
               PROVE  status'[i] = DELIVERED \/ \E g \in Flushers : InHand(g)' /\ fsent'[g].id = i /\ fsent'[g].ok
    BY <1>6 DEF AnswersInv
  <2>1. losses[i] = 0
    BY <1>6
  <2>2. CASE status[i] = DELIVERED
    BY <1>6, <2>2
  <2>3. ASSUME NEW g \in Flushers, InHand(g), fsent[g].id = i, fsent[g].ok
        PROVE  status'[i] = DELIVERED \/ \E h \in Flushers : InHand(h)' /\ fsent'[h].id = i /\ fsent'[h].ok
    <3>1. CASE g = f
      BY <1>6, <2>3, <3>1
    <3>2. CASE g # f
      BY <1>6, <2>3, <3>2 DEF Others, InHand
    <3> QED
      BY <3>1, <3>2
  <2> QED
    BY <2>1, <2>2, <2>3 DEF AnswersInv
<1>7. ASSUME NEW f \in Flushers, Crash(f) PROVE AnswersInv'
  <2>1. /\ Others(f) /\ TableStays /\ UNCHANGED <<accepted, again>> /\ fpc[f] \in {"batch", "sent", "seen"}
        /\ IF fpc[f] = "batch" THEN UNCHANGED losses ELSE LoseAnswer(fsent[f].id)
    BY <1>7, CrashDoes
  <2>2. losses \in [Ids -> Nat]
    BY DEF RaceTypeOK
  <2>3. \A i \in accepted : /\ losses'[i] = 0 => losses[i] = 0
                            /\ InHand(f) /\ fsent[f].id = i => losses'[i] # 0
    BY <1>0, <2>1, <2>2 DEF LoseAnswer, InHand
  <2> QED
    BY <1>6, <2>1, <2>3 DEF TableStays
<1>8. ASSUME NEW f \in Flushers, FlushWrite(f) PROVE AnswersInv'
  <2>1. /\ Others(f) /\ UNCHANGED <<accepted, again>> /\ fpc[f] = "seen" /\ InHand(f) /\ fsent[f].id \in Live
    BY <1>8, WriteDoes DEF counts, InHand
  <2>2. losses \in [Ids -> Nat]
    BY DEF RaceTypeOK
  <2>3. CASE TableStays /\ LoseAnswer(fsent[f].id)
    <3>1. \A i \in accepted : /\ losses'[i] = 0 => losses[i] = 0
                              /\ fsent[f].id = i => losses'[i] # 0
      BY <1>0, <2>2, <2>3 DEF LoseAnswer
    <3> QED
      BY <1>6, <2>1, <2>3, <3>1 DEF TableStays
  <2>4. CASE /\ UNCHANGED losses
             /\ status'[fsent[f].id] = Written(Outcome(fsent[f]), fseen[f].status, status[fsent[f].id])
             /\ \A k \in Ids : k # fsent[f].id => status'[k] = status[k]
    <3>1. ASSUME NEW i \in accepted, again[i] = 0, fsent[f].id = i
          PROVE  (fsent[f].ok => status'[i] = DELIVERED) /\ (status[i] = DELIVERED => status'[i] = DELIVERED)
      <4>1. i \in Live /\ Holds(f, i)
        BY <1>0, <2>1, <3>1 DEF Holds
      <4>2. status[i] = PENDING /\ fseen[f].status = PENDING
        BY <2>1, <3>1, <4>1 DEF LoneInv, AsRead
      <4>3. fsent[f].ok => Outcome(fsent[f]) = DELIVERED
        BY DEF Outcome
      <4> QED
        BY <2>4, <3>1, <4>2, <4>3, StatusesDiffer DEF Written
    <3>2. \A i \in accepted : status'[i] = status[i] \/ i = fsent[f].id
      BY <1>0, <2>4
    <3> QED
      BY <1>6, <2>1, <2>4, <3>1, <3>2
  <2> QED
    BY <1>8, <2>3, <2>4, WriteDoes
<1>9. CASE UNCHANGED vars
  BY <1>1, <1>9, VarsStay DEF history
<1> QED
  BY <1>1, <1>2, <1>3, <1>4, <1>5, <1>7, <1>8, <1>9, OtherSteps

LEMMA AnswersStart == ASSUME Init PROVE AnswersInv
BY DEF Init, AnswersInv

-----------------------------------------------------------------------------
(* VerdictsJustified *)

LEMMA FailuresShown ==
  ASSUME BaseInv, LoneInv, AnswersInv
  PROVE  HonestFailure
<1> SUFFICES ASSUME NEW i \in Ids, status[i] = FAILED, losses[i] = 0, again[i] = 0, i \in accepted
             PROVE  FALSE
  BY DEF HonestFailure
<1>1. i \in Live
  BY TypesUnfold, StatusesDiffer
<1>2. PICK f \in Flushers : InHand(f) /\ fsent[f].id = i
  BY StatusesDiffer DEF AnswersInv
<1>3. status[i] = PENDING
  BY <1>1, <1>2 DEF LoneInv, Holds, AsRead
<1> QED
  BY <1>3, StatusesDiffer

LEMMA PostsShown ==
  ASSUME BaseInv, RaceTypeOK, AttemptsInv, PostsInv
  PROVE  PostsBounded
<1> SUFFICES ASSUME NEW i \in Ids, status[i] # Absent
             PROVE  posts[i] <= BudgetBound(i) + losses[i] + 2 * again[i]
  BY DEF PostsBounded
<1>1. i \in Live
  BY TypesUnfold
<1>2. /\ posts[i] \in Nat /\ again[i] \in Nat /\ losses[i] \in Nat /\ BudgetBound(i) \in Nat /\ attempts[i] \in Nat
      /\ Cardinality(Due(i)) \in Nat /\ \A f \in Flushers : Tries(f, i) \in Nat
  BY <1>1, CountTyped, DueCounted
<1>3. Countable(i) /\ Posted(i)
  BY <1>1 DEF AttemptsInv, PostsInv
<1>4. ASSUME NEW n \in Nat, n <= Ceiling(i), posts[i] + Cardinality(Due(i)) <= n + Slack(i)
      PROVE  posts[i] <= BudgetBound(i) + losses[i] + 2 * again[i]
  BY <1>2, <1>4 DEF Ceiling, Slack
<1>5. CASE posts[i] + Cardinality(Due(i)) <= attempts[i] + Slack(i)
  BY <1>2, <1>3, <1>4, <1>5 DEF Countable
<1>6. CASE Unwritten(i)
  <2>1. PICK f \in Flushers : Holds(f, i)
    BY <1>6 DEF Unwritten
  <2>2. posts[i] + Cardinality(Due(i)) <= Tries(f, i) + Slack(i)
    BY <1>3, <2>1 DEF Posted
  <2>3. Tries(f, i) <= Ceiling(i)
    <3>1. Ceiling(i) \in Nat
      BY <1>2 DEF Ceiling
    <3> QED
      BY <1>2, <1>3, <2>1, <3>1 DEF Countable, LastTry
  <2> QED
    BY <1>2, <1>4, <2>2, <2>3
<1> QED
  BY <1>3, <1>5, <1>6 DEF Posted

(* Over any number of flushers, sweeps and operators, kills and deletions: *)
(* a failure was accepted by nobody, posts stay within the budget, a       *)
(* cooldown has its streak, an escalation its sweeps, and operators are    *)
(* shown the truth; what is exempt is what the row's or the destination's  *)
(* own history says was lost or raced for.                                 *)
THEOREM VerdictsStayJustified == Spec => []VerdictsJustified
<1> DEFINE Types == BaseInv /\ RaceTypeOK /\ HandInv /\ LoneInv
           Causes == HonestInv /\ EscalationInv /\ HealthInv
           Counts == AttemptsInv /\ PostsInv /\ AnswersInv
           Inv == Types /\ Causes /\ Counts
<1>1. Init => Inv
  BY BaseInit, RaceTypesStart, HandStart, LoneStart, HonestStart, EscalationStart, HealthStart,
     AttemptsStart, PostsStart, AnswersStart
<1>2. Inv /\ [Next]_vars => Inv'
  <2>1. Types /\ [Next]_vars => Types'
    BY BaseStep, RaceTypesStep, HandStep, LoneStep
  <2>2. Types /\ Causes /\ [Next]_vars => Causes'
    BY HonestStep, EscalationStep, HealthStep
  <2>3. Types /\ Counts /\ [Next]_vars => Counts'
    BY AttemptsStep, PostsStep, AnswersStep
  <2> QED
    BY <2>1, <2>2, <2>3
<1>3. Inv => VerdictsJustified
  <2>1. Inv => HonestFailure /\ PostsBounded /\ HealthTrue
    BY FailuresShown, PostsShown, HealthShown
  <2>2. Inv => TypeOK /\ NoEarlyEscalation /\ CooldownJustified /\ DeadLettersTrue
    BY ShownIsTrue DEF TypeOK, BaseInv, EscalationInv, HealthInv, HonestInv
  <2> QED
    BY <2>1, <2>2 DEF VerdictsJustified
<1> HIDE DEF Inv
<1> QED
  BY <1>1, <1>2, <1>3, PTL DEF Spec

(* While at most two threads run deliver_pending, say a worker and an      *)
(* operator sweep, either of which may be killed, every verdict has its    *)
(* cause, the attempts column stays within the budget of the delivery and  *)
(* "delivered" is never said of what nobody accepted.                      *)
THEOREM RacesStayBounded ==
  ASSUME \A f, g, h \in Flushers : f = g \/ g = h \/ f = h
  PROVE  Spec => []RacesKeepVerdicts
<1>1. Init => BaseInv /\ HonestInv /\ RaceInv
  BY BaseInit, HonestStart, RaceStart
<1>2. BaseInv /\ HonestInv /\ RaceInv /\ [Next]_vars => (BaseInv /\ HonestInv /\ RaceInv)'
  BY BaseStep, HonestStep, RaceStep
<1>3. VerdictsJustified /\ BaseInv /\ HonestInv /\ RaceInv => RacesKeepVerdicts
  BY TypesUnfold DEF HonestInv, RaceInv, BudgetLeft, RacesKeepVerdicts, AttemptsWithinBudget
<1> QED
  BY <1>1, <1>2, <1>3, VerdictsStayJustified, PTL DEF Spec

=============================================================================
