------------------------- MODULE IncidentSyncProofs -------------------------
(***************************************************************************)
(* Proofs about IncidentSync for any number of server processes, records   *)
(* and attempts, and any bounds.  A commit of an attempt overwrites what   *)
(* other processes have counted, so neither property follows from the      *)
(* record alone: the invariant ties the counter of a record, and what a    *)
(* process in the middle of an attempt holds of it, to the POSTs that were *)
(* really made; and it counts a redrive from its check on.  The last       *)
(* section is about ExternalLinks.                                         *)
(***************************************************************************)
EXTENDS IncidentSync, ExternalLinks, FiniteSetTheorems, TLAPS

USE SyncAssumption

Statuses == {"pending", "synced", "failed"}
Targets == {"healthy", "failing", "deleted"}
Actions == Ops \cup {"", "opened", "reopened"}
Rows == [state : Active \cup {"none", "recovered"}, ack : BOOLEAN, until : {"null", "running", "over"}]
Records == [action : Actions, status : Statuses, attempts : Nat, parent : Nat]
Sents == [posts : Nat, taken : BOOLEAN]
Requests == [pc : {"idle", "observe", "recover", "flush", "apply", "export", "send", "settle", "check", "redrive"},
             seen : Rows, act : Actions, next : {"idle", "flush"}, todo : SUBSET Nat,
             attempts : Nat, status : Statuses, ok : BOOLEAN, link : BOOLEAN, target : Targets]

(* The inductive invariant: the types; a record's status and counter are   *)
(* backed by the POSTs made of it; so are the links, and the answer and    *)
(* the counter a process is about to commit.                               *)
Typed ==
    /\ row \in Rows
    /\ records \in Seq(Records) /\ sent \in Seq(Sents) /\ Len(sent) = Len(records)
    /\ links \in Seq(Nat) /\ target \in Targets
    /\ proc \in [Procs -> Requests]

Spent(r) == sent[r].posts >= MaxAttempts

RecordsBacked ==
    \A r \in Ids : /\ records[r].status = "synced" => sent[r].taken
                   /\ records[r].status = "failed" => Spent(r) \/ target = "deleted"
                   /\ records[r].attempts <= sent[r].posts \/ Spent(r)

LinksBacked == \A l \in DOMAIN links : links[l] \in Ids /\ sent[links[l]].taken

Backed(p) ==
    /\ proc[p].todo \subseteq Ids
    /\ proc[p].pc = "apply" => proc[p].act \in RowOps
    /\ proc[p].pc = "settle" =>
           \A r \in Ids : Now(p, r) => /\ proc[p].ok => sent[r].taken
                                       /\ proc[p].attempts < sent[r].posts \/ Spent(r)

RequestsBacked == \A p \in Procs : Backed(p)

SyncInv == Typed /\ RecordsBacked /\ LinksBacked /\ RequestsBacked

LEMMA IdleTyped == Idle \in Requests /\ NoRow \in Rows
BY DEF Idle, NoRow, Requests, Rows, Actions, Statuses, Targets

LEMMA IdsAreNumbers == ASSUME Typed PROVE Ids = 1..Len(records) /\ Len(records) \in Nat
BY DEF Typed, Ids

(* A step that touches no record, link, target or POST, and leads its      *)
(* process to anything but the commit of an attempt.                       *)
LEMMA QuietKeeps ==
  ASSUME SyncInv, UNCHANGED <<records, links, target, sent>>, row' \in Rows,
         NEW p \in Procs, NEW c \in Requests, Step(p, c), c.todo \subseteq Ids, c.pc # "settle",
         c.pc = "apply" => c.act \in RowOps
  PROVE  SyncInv'
<1> USE DEF SyncInv, Typed, Step
<1>1. proc' \in [Procs -> Requests]
  OBVIOUS
<1>2. Ids' = Ids
  BY DEF Ids
<1>3. \A q \in Procs : proc'[q] = IF q = p THEN c ELSE proc[q]
  OBVIOUS
<1>4. RequestsBacked'
  BY <1>2, <1>3 DEF RequestsBacked, Backed, Now, Spent
<1> QED
  BY <1>1, <1>2, <1>4 DEF RecordsBacked, LinksBacked, Spent

(* What a commit leaves of the row is a row.                               *)
LEMMA CommitTyped ==
  ASSUME row \in Rows, NEW seen \in Rows, NEW new \in Rows, Commit(seen, new)
  PROVE  row' \in Rows
<1>1. DOMAIN row = {"state", "ack", "until"}
  BY DEF Rows
<1>2. row' = [state |-> row'.state, ack |-> row'.ack, until |-> row'.until]
  BY <1>1 DEF Commit
<1>3. /\ row'.state \in {row.state, new.state}
      /\ row'.ack \in {row.ack, new.ack}
      /\ row'.until \in {row.until, new.until}
  BY <1>1 DEF Commit
<1> QED
  BY <1>2, <1>3 DEF Rows

LEMMA AppliedTyped ==
  ASSUME NEW r \in Rows, NEW op \in RowOps
  PROVE  Applied(r, op) \in Rows
BY DEF Applied, Rows, RowOps, Ops, Active

(* A step that touches no record, link, target or POST, and leads its      *)
(* process neither to the commit of an attempt nor to a redrive.           *)
Quietly(p) ==
    /\ row' \in Rows /\ UNCHANGED <<records, links, target, sent>>
    /\ \E c \in Requests : /\ Step(p, c) /\ c.todo \subseteq Ids
                           /\ c.pc \notin {"settle", "check", "redrive"}
                           /\ c.pc = "apply" => c.act \in RowOps

(* The steps of the sweep are quiet up to the attempts.                    *)
LEMMA SweepIsQuiet ==
  ASSUME SyncInv, NEW p \in Procs, StartSweep(p) \/ Observe(p) \/ Recover(p) \/ Flush(p) \/ List(p)
  PROVE  Quietly(p)
<1> USE DEF SyncInv, Typed, At, Emit, GoTo, outside
<1>i. Idle \in Requests /\ NoRow \in Rows /\ Idle.todo = {} /\ Idle.pc = "idle"
  BY IdleTyped DEF Idle
<1>t. proc[p] \in Requests /\ proc[p].todo \subseteq Ids
  BY DEF RequestsBacked, Backed
<1>1. CASE StartSweep(p)
  <2>1. PICK pc \in {"observe", "recover"} : Step(p, [Idle EXCEPT !.pc = pc])
    BY <1>1 DEF StartSweep
  <2> DEFINE c == [Idle EXCEPT !.pc = pc]
  <2>2. c \in Requests /\ c.todo = {} /\ c.pc = pc
    BY <1>i DEF Requests
  <2>3. Step(p, c) /\ row' \in Rows /\ UNCHANGED <<records, links, target, sent>>
    BY <1>1, <2>1 DEF StartSweep
  <2> HIDE DEF c
  <2> QED
    BY <2>2, <2>3 DEF Quietly
<1>2. CASE Observe(p) \/ Recover(p)
  <2>1. row' \in Rows /\ UNCHANGED <<records, links, target, sent>>
    BY <1>2, <1>i DEF Observe, Recover, Rows, Active
  <2>2. PICK act \in Actions, pc \in {"export", "flush"}, next \in {"idle", "flush"} :
            Step(p, [proc[p] EXCEPT !.pc = pc, !.act = act, !.next = next])
    <3>1. {"opened", "reopened", "recovered"} \subseteq Actions
      BY DEF Actions, Ops
    <3>2. [proc[p] EXCEPT !.pc = "flush"] = [proc[p] EXCEPT !.pc = "flush", !.act = proc[p].act, !.next = proc[p].next]
      BY <1>t DEF Requests
    <3>3. proc[p].act \in Actions /\ proc[p].next \in {"idle", "flush"}
      BY <1>t DEF Requests
    <3>4. \/ \E act \in {"opened", "reopened", "recovered"} :
                  Step(p, [proc[p] EXCEPT !.pc = "export", !.act = act, !.next = "flush"])
          \/ Step(p, [proc[p] EXCEPT !.pc = "flush"])
      BY <1>2 DEF Observe, Recover
    <3> QED
      BY <3>1, <3>2, <3>3, <3>4
  <2> DEFINE c == [proc[p] EXCEPT !.pc = pc, !.act = act, !.next = next]
  <2>3. c \in Requests /\ c.todo \subseteq Ids /\ c.pc = pc
    BY <1>t DEF Requests
  <2>4. Step(p, c)
    BY <2>2
  <2> HIDE DEF c
  <2> QED
    BY <2>1, <2>3, <2>4 DEF Quietly
<1>3. CASE Flush(p) \/ List(p)
  <2>1. Pending \subseteq Ids /\ Pending \subseteq Nat
    BY IdsAreNumbers DEF Pending
  <2>2. row' \in Rows /\ UNCHANGED <<records, links, target, sent>>
    BY <1>3 DEF Flush, List
  <2>3. CASE Step(p, Idle)
    BY <1>i, <2>2, <2>3 DEF Quietly
  <2> DEFINE c == [Idle EXCEPT !.pc = "send", !.todo = Pending]
  <2>4. c \in Requests /\ c.todo = Pending /\ c.pc = "send"
    BY <1>i, <2>1 DEF Requests
  <2>5. Step(p, Idle) \/ Step(p, c)
    BY <1>3 DEF Flush, List
  <2> HIDE DEF c
  <2> QED
    BY <2>1, <2>2, <2>3, <2>4, <2>5 DEF Quietly
<1> QED
  BY <1>1, <1>2, <1>3

(* So are the operator calls up to their export, and the crashes.          *)
LEMMA CallsAreQuiet ==
  ASSUME SyncInv, NEW p \in Procs,
         (\E op \in Ops : Call(p, op)) \/ Apply(p) \/ Crash(p)
  PROVE  Quietly(p)
<1> USE DEF SyncInv, Typed, At, Emit, GoTo, outside
<1>i. Idle \in Requests /\ NoRow \in Rows /\ Idle.todo = {} /\ Idle.pc = "idle"
  BY IdleTyped DEF Idle
<1>t. proc[p] \in Requests /\ proc[p].todo \subseteq Ids
  BY DEF RequestsBacked, Backed
<1>n. Ids \subseteq Nat
  BY IdsAreNumbers
<1>1. ASSUME NEW op \in Ops, Call(p, op) PROVE Quietly(p)
  <2> DEFINE c == [Idle EXCEPT !.pc = "apply", !.seen = row, !.act = op]
  <2>1. c \in Requests /\ c.todo = {} /\ c.pc = "apply" /\ c.act = op
    BY <1>i DEF Requests, Actions, RowOps
  <2>2. Step(p, c) /\ op \in RowOps /\ UNCHANGED <<row, records, links, target, sent>>
    BY <1>1 DEF Call
  <2> HIDE DEF c
  <2> QED
    BY <2>1, <2>2 DEF Quietly
<1>2. ASSUME Apply(p) PROVE Quietly(p)
  <2> DEFINE seen == proc[p].seen
             op == proc[p].act
             c == [proc[p] EXCEPT !.pc = "export", !.act = op, !.next = "idle"]
  <2>1. seen \in Rows /\ op \in RowOps /\ op \in Actions
    BY <1>2, <1>t DEF Apply, RequestsBacked, Backed, Requests
  <2>2. Applied(seen, op) \in Rows
    BY <2>1, AppliedTyped
  <2>3. c \in Requests /\ c.todo \subseteq Ids /\ c.pc = "export"
    BY <1>t, <2>1 DEF Requests
  <2>4. \/ row' = row /\ Step(p, Idle)
        \/ Commit(seen, Applied(seen, op)) /\ Step(p, c)
    BY <1>2 DEF Apply
  <2>5. UNCHANGED <<records, links, target, sent>>
    BY <1>2 DEF Apply
  <2> HIDE DEF seen, op, c
  <2>6. row' \in Rows
    BY <2>1, <2>2, <2>4, CommitTyped
  <2> QED
    BY <1>i, <2>3, <2>4, <2>5, <2>6 DEF Quietly
<1>3. ASSUME Crash(p) PROVE Quietly(p)
  BY <1>3, <1>i DEF Crash, Quietly
<1> QED
  BY <1>1, <1>2, <1>3

LEMMA QuietlyKeeps ==
  ASSUME SyncInv, NEW p \in Procs, Quietly(p)
  PROVE  SyncInv'
<1>1. PICK c \in Requests : /\ Step(p, c) /\ c.todo \subseteq Ids /\ c.pc # "settle"
                            /\ c.pc = "apply" => c.act \in RowOps
  BY DEF Quietly
<1>2. row' \in Rows /\ UNCHANGED <<records, links, target, sent>>
  BY DEF Quietly
<1> QED
  BY <1>1, <1>2, QuietKeeps

LEMMA RedriveCallsKeep ==
  ASSUME SyncInv, NEW p \in Procs, RedriveLatest(p) \/ RedriveCheck(p)
  PROVE  SyncInv'
<1> USE DEF SyncInv, Typed, At, Emit, GoTo, outside
<1>i. Idle \in Requests /\ NoRow \in Rows /\ Idle.todo = {} /\ Idle.pc = "idle"
  BY IdleTyped DEF Idle
<1>t. proc[p] \in Requests /\ proc[p].todo \subseteq Ids
  BY DEF RequestsBacked, Backed
<1>n. Ids \subseteq Nat
  BY IdsAreNumbers
<1>1. row' \in Rows /\ UNCHANGED <<records, links, target, sent>>
  BY DEF RedriveLatest, RedriveCheck
<1>2. CASE \E r \in Ids, pc \in {"check", "redrive"} : Step(p, [Idle EXCEPT !.pc = pc, !.todo = {r}])
  <2>1. PICK r \in Ids, pc \in {"check", "redrive"} : Step(p, [Idle EXCEPT !.pc = pc, !.todo = {r}])
    BY <1>2
  <2> DEFINE c == [Idle EXCEPT !.pc = pc, !.todo = {r}]
  <2>2. c \in Requests /\ c.todo = {r} /\ c.pc = pc
    BY <1>i, <1>n DEF Requests
  <2>3. Step(p, c)
    BY <2>1
  <2> HIDE DEF c
  <2> QED
    BY <1>1, <2>2, <2>3, QuietKeeps
<1>3. CASE Step(p, [proc[p] EXCEPT !.pc = "redrive"])
  <2> DEFINE c == [proc[p] EXCEPT !.pc = "redrive"]
  <2>1. c \in Requests /\ c.todo \subseteq Ids /\ c.pc = "redrive"
    BY <1>t DEF Requests
  <2>2. Step(p, c)
    BY <1>3
  <2> HIDE DEF c
  <2> QED
    BY <1>1, <2>1, <2>2, QuietKeeps
<1>4. CASE Step(p, Idle)
  BY <1>i, <1>1, <1>4, QuietKeeps
<1> QED
  BY <1>2, <1>3, <1>4 DEF RedriveLatest, RedriveCheck

(* A record is added, with no POST of it yet, and its process will attempt *)
(* it.                                                                     *)
LEMMA AppendKeeps ==
  ASSUME SyncInv, NEW p \in Procs, NEW c \in Requests, Step(p, c), NEW action \in Actions, NEW parent \in Nat,
         records' = Append(records, Record(action, parent)), sent' = Append(sent, [posts |-> 0, taken |-> FALSE]),
         UNCHANGED <<row, links, target>>, c.pc = "send", c.todo = {Len(records) + 1}
  PROVE  SyncInv'
<1> USE DEF SyncInv, Typed, Step
<1> DEFINE n == Len(records)
<1>1. n \in Nat /\ Ids = 1..n /\ Len(sent) = n
  BY IdsAreNumbers
<1>2. Record(action, parent) \in Records /\ Record(action, parent).status = "pending" /\ Record(action, parent).attempts = 0
  BY DEF Record, Records, Statuses
<1>3. [posts |-> 0, taken |-> FALSE] \in Sents
  BY DEF Sents
<1>4. /\ records' \in Seq(Records) /\ Len(records') = n + 1
      /\ \A r \in 1..n : records'[r] = records[r]
      /\ records'[n + 1] = Record(action, parent)
  BY <1>1, <1>2
<1>5. /\ sent' \in Seq(Sents) /\ Len(sent') = n + 1
      /\ \A r \in 1..n : sent'[r] = sent[r]
      /\ sent'[n + 1] = [posts |-> 0, taken |-> FALSE]
  BY <1>1, <1>3
<1>6. Ids' = 1..(n + 1)
  BY <1>4 DEF Ids
<1> HIDE DEF n
<1>7. proc' \in [Procs -> Requests] /\ \A q \in Procs : proc'[q] = IF q = p THEN c ELSE proc[q]
  OBVIOUS
<1>8. Typed'
  BY <1>4, <1>5, <1>7
<1>9. RecordsBacked'
  BY <1>1, <1>2, <1>4, <1>5, <1>6 DEF RecordsBacked, Spent
<1>10. LinksBacked'
  BY <1>1, <1>5, <1>6 DEF LinksBacked
<1>11. RequestsBacked'
  <2> SUFFICES ASSUME NEW q \in Procs PROVE Backed(q)'
    BY DEF RequestsBacked
  <2>1. CASE q = p
    BY <1>1, <1>6, <1>7, <2>1 DEF n, Backed
  <2>2. CASE q # p
    <3>1. proc'[q] = proc[q] /\ proc[q].todo \subseteq 1..n
      BY <1>1, <1>7, <2>2 DEF RequestsBacked, Backed
    <3>2. ASSUME NEW r \in Ids', Now(q, r)' PROVE r \in 1..n /\ Now(q, r) /\ sent'[r] = sent[r]
      BY <1>5, <3>1, <3>2 DEF Now
    <3>3. Backed(q)
      BY DEF RequestsBacked
    <3> QED
      BY <1>1, <1>6, <3>1, <3>2, <3>3 DEF Backed, Spent
  <2> QED
    BY <2>1, <2>2
<1> QED
  BY <1>8, <1>9, <1>10, <1>11

(* A process that goes on without an attempt, or whose commit has failed.  *)
LEMMA ReturnIsQuiet ==
  ASSUME SyncInv, NEW p \in Procs, Return(p), UNCHANGED <<row, records, links, target, sent>>
  PROVE  Quietly(p)
<1> DEFINE c == [Idle EXCEPT !.pc = proc[p].next]
<1>1. Idle \in Requests /\ Idle.todo = {} /\ proc[p].next \in {"idle", "flush"} /\ row \in Rows
  BY IdleTyped DEF Idle, SyncInv, Typed, Requests
<1>2. c \in Requests /\ c.todo = {} /\ c.pc \in {"idle", "flush"}
  BY <1>1 DEF Requests
<1>3. Step(p, c)
  BY DEF Return
<1> HIDE DEF c
<1> QED
  BY <1>1, <1>2, <1>3 DEF Quietly

LEMMA NewRecordKeeps ==
  ASSUME SyncInv, NEW p \in Procs, Export(p) \/ Redrive(p)
  PROVE  SyncInv'
<1> USE DEF SyncInv, Typed, At, outside
<1>i. Idle \in Requests
  BY IdleTyped
<1>t. proc[p] \in Requests /\ proc[p].todo \subseteq Ids
  BY DEF RequestsBacked, Backed
<1>n. Len(records) \in Nat /\ Ids = 1..Len(records)
  BY IdsAreNumbers
<1>m. {Len(records) + 1} \in SUBSET Nat
  BY <1>n
<1>0. CASE Export(p) /\ target = "deleted"
  <2>1. Return(p) /\ UNCHANGED <<row, records, links, target, sent>>
    BY <1>0 DEF Export
  <2> QED
    BY <2>1, ReturnIsQuiet, QuietlyKeeps
<1>1. CASE Export(p) /\ target # "deleted"
  <2> DEFINE c == [proc[p] EXCEPT !.pc = "send", !.todo = {Len(records) + 1}]
  <2>1. c \in Requests /\ c.pc = "send" /\ c.todo = {Len(records) + 1}
    BY <1>t, <1>m DEF Requests
  <2>2. proc[p].act \in Actions
    BY <1>t DEF Requests
  <2>3. /\ Step(p, c) /\ UNCHANGED <<row, links, target>>
        /\ records' = Append(records, Record(proc[p].act, 0)) /\ sent' = Append(sent, [posts |-> 0, taken |-> FALSE])
    BY <1>1 DEF Export
  <2> HIDE DEF c
  <2> QED
    BY <2>1, <2>2, <2>3, AppendKeeps
<1>2. CASE Redrive(p)
  <2> DEFINE c == [Idle EXCEPT !.pc = "send", !.todo = {Len(records) + 1}]
  <2>1. c \in Requests /\ c.pc = "send" /\ c.todo = {Len(records) + 1}
    BY <1>i, <1>m DEF Requests
  <2>2. PICK r \in Ids : records' = Append(records, Record(records[r].action, r))
    BY <1>2, <1>t DEF Redrive
  <2>3. records[r].action \in Actions /\ r \in Nat
    <3>1. records[r] \in Records /\ r \in Nat
      BY <1>n
    <3> QED
      BY <3>1 DEF Records
  <2>4. Step(p, c) /\ UNCHANGED <<row, links, target>> /\ sent' = Append(sent, [posts |-> 0, taken |-> FALSE])
    BY <1>2 DEF Redrive
  <2> HIDE DEF c
  <2> QED
    BY <2>1, <2>2, <2>3, <2>4, AppendKeeps
<1> QED
  BY <1>0, <1>1, <1>2

(* What a process does after an attempt.                                   *)
LEMMA AfterSendTyped ==
  ASSUME SyncInv, NEW p \in Procs, NEW r \in Ids
  PROVE  /\ AfterSend(p, r) \in Requests
         /\ AfterSend(p, r).todo \subseteq Ids /\ AfterSend(p, r).pc \in {"send", "idle", "flush"}
<1>1. Idle \in Requests /\ Idle.todo = {}
  BY IdleTyped DEF Idle
<1>2. proc[p] \in Requests /\ proc[p].todo \subseteq Ids /\ proc[p].next \in {"idle", "flush"}
  BY DEF SyncInv, Typed, RequestsBacked, Backed, Requests
<1>3. SUBSET Ids \subseteq SUBSET Nat
  BY IdsAreNumbers DEF SyncInv
<1>4. \A pc \in {"idle", "flush"} :
          LET c == [Idle EXCEPT !.pc = pc]
          IN  c \in Requests /\ c.todo = {} /\ c.pc = pc
  BY <1>1 DEF Requests
<1> DEFINE next == proc[p].next
           rest == proc[p].todo \ {r}
<1>5. rest \in SUBSET Ids /\ next \in {"idle", "flush"}
  BY <1>2
<1>6. \/ AfterSend(p, r) = [Idle EXCEPT !.pc = "send", !.next = next, !.todo = rest]
      \/ AfterSend(p, r) = [Idle EXCEPT !.pc = next]
  BY DEF AfterSend
<1> HIDE DEF next, rest
<1>7. CASE AfterSend(p, r) = [Idle EXCEPT !.pc = "send", !.next = next, !.todo = rest]
  <2> DEFINE c == [Idle EXCEPT !.pc = "send", !.next = next, !.todo = rest]
  <2>1. rest \in SUBSET Nat
    BY <1>3, <1>5
  <2>2. c \in Requests /\ c.todo = rest /\ c.pc = "send"
    BY <1>1, <1>5, <2>1 DEF Requests
  <2> HIDE DEF c
  <2>3. AfterSend(p, r) = c
    BY <1>7 DEF c
  <2> QED
    BY <1>5, <2>2, <2>3
<1>8. CASE AfterSend(p, r) = [Idle EXCEPT !.pc = next]
  BY <1>4, <1>5, <1>8
<1> QED
  BY <1>6, <1>7, <1>8

LEMMA SkipIsQuiet ==
  ASSUME SyncInv, NEW p \in Procs, SkipSynced(p)
  PROVE  Quietly(p)
<1>1. PICK r \in Ids : Step(p, AfterSend(p, r))
  BY DEF SkipSynced
<1>2. row' \in Rows /\ UNCHANGED <<records, links, target, sent>>
  BY DEF SkipSynced, SyncInv, Typed, outside
<1>3. AfterSend(p, r) \in Requests /\ AfterSend(p, r).todo \subseteq Ids /\ AfterSend(p, r).pc \in {"send", "idle", "flush"}
  BY AfterSendTyped
<1> QED
  BY <1>1, <1>2, <1>3 DEF Quietly

(* The first of what is left to do is one record.                          *)
LEMMA NowIsOne ==
  ASSUME SyncInv, NEW p \in Procs, NEW r \in Ids, NEW s \in Ids, Now(p, r), Now(p, s)
  PROVE  r = s
BY IdsAreNumbers DEF SyncInv, Now

(* What is given up without its target needs no POSTs.                     *)
LEMMA GiveUpKeeps ==
  ASSUME SyncInv, NEW p \in Procs, GiveUp(p)
  PROVE  SyncInv'
<1>1. PICK r \in Ids : /\ records' = [records EXCEPT ![r].status = "failed"]
                      /\ Step(p, AfterSend(p, r))
  BY DEF GiveUp
<1>2. UNCHANGED <<row, links, target, sent>> /\ target = "deleted"
  BY DEF GiveUp, outside
<1> USE DEF SyncInv, Typed
<1>3. Len(records) \in Nat /\ Ids = 1..Len(records)
  BY IdsAreNumbers
<1> DEFINE one == [records[r] EXCEPT !.status = "failed"]
<1>4. one \in Records /\ one.status = "failed" /\ one.attempts = records[r].attempts
  <2>1. records[r] \in Records
    BY <1>3
  <2> QED
    BY <2>1 DEF Records, Statuses
<1>5. records' = [records EXCEPT ![r] = one]
  BY <1>1
<1> HIDE DEF one
<1>6. /\ records' \in Seq(Records) /\ Len(records') = Len(records) /\ Ids' = Ids
      /\ records'[r] = one /\ \A s \in Ids : s # r => records'[s] = records[s]
  BY <1>3, <1>4, <1>5 DEF Ids
<1>7. RecordsBacked'
  BY <1>2, <1>4, <1>6 DEF RecordsBacked, Spent
<1>8. LinksBacked'
  BY <1>2, <1>6 DEF LinksBacked
<1>9. /\ proc' \in [Procs -> Requests]
      /\ \A q \in Procs : proc'[q] = IF q = p THEN AfterSend(p, r) ELSE proc[q]
  BY <1>1, AfterSendTyped DEF Step
<1>10. RequestsBacked'
  <2> SUFFICES ASSUME NEW q \in Procs PROVE Backed(q)'
    BY DEF RequestsBacked
  <2>1. CASE q = p
    BY <1>6, <1>9, <2>1, AfterSendTyped DEF Backed
  <2>2. CASE q # p
    BY <1>2, <1>6, <1>9, <2>2 DEF RequestsBacked, Backed, Now, Spent
  <2> QED
    BY <2>1, <2>2
<1> QED
  BY <1>2, <1>6, <1>7, <1>8, <1>9, <1>10

(* A POST only adds to what backs the records and the requests.            *)
LEMMA SendKeeps ==
  ASSUME SyncInv, NEW p \in Procs, Send(p)
  PROVE  SyncInv'
<1>1. PICK r \in Ids, taken \in BOOLEAN, lost \in BOOLEAN :
          /\ Now(p, r) /\ records[r].status # "synced"
          /\ (taken /\ ~lost) \/ budget.faults > 0
          /\ budget' = [budget EXCEPT !.faults = IF taken /\ ~lost THEN @ ELSE @ - 1]
          /\ external' = IF taken THEN Event(records[r].action) ELSE external
          /\ sent' = [sent EXCEPT ![r] = [posts |-> IF @.posts < MaxAttempts THEN @.posts + 1 ELSE @.posts,
                                          taken |-> @.taken \/ taken]]
          /\ Step(p, [proc[p] EXCEPT !.pc = "settle", !.attempts = records[r].attempts, !.status = records[r].status,
                                     !.ok = Understood(taken, lost), !.link = links # <<>>,
                                     !.target = target])
  BY Zenon DEF Send
<1> USE DEF SyncInv, Typed, Step
<1> DEFINE c == [proc[p] EXCEPT !.pc = "settle", !.attempts = records[r].attempts, !.status = records[r].status,
                                !.ok = Understood(taken, lost), !.link = links # <<>>,
                                !.target = target]
<1>2. UNCHANGED <<row, records, links, target>>
  BY DEF Send
<1>3. Len(records) \in Nat /\ Ids = 1..Len(records) /\ Ids' = Ids
  BY <1>2, IdsAreNumbers DEF Ids
<1>4. records[r] \in Records /\ sent[r] \in Sents
  BY <1>3
<1>5. /\ c \in Requests /\ c.pc = "settle" /\ c.todo = proc[p].todo
      /\ c.attempts = records[r].attempts /\ c.ok = Understood(taken, lost)
  <2>1. Understood(taken, lost) \in BOOLEAN /\ (links # <<>>) \in BOOLEAN
    BY DEF Understood
  <2>2. records[r].attempts \in Nat /\ records[r].status \in Statuses
    BY <1>4 DEF Records
  <2>3. proc[p] \in Requests /\ target \in Targets
    OBVIOUS
  <2> QED
    BY ONLY <2>1, <2>2, <2>3 DEF Requests
<1>6. Step(p, c)
  BY <1>1
<1> HIDE DEF c
<1>7. proc' \in [Procs -> Requests] /\ \A q \in Procs : proc'[q] = IF q = p THEN c ELSE proc[q]
  BY <1>5, <1>6
<1>8. /\ sent' \in Seq(Sents) /\ Len(sent') = Len(sent)
      /\ \A s \in Ids : s # r => sent'[s] = sent[s]
      /\ sent'[r].posts = (IF sent[r].posts < MaxAttempts THEN sent[r].posts + 1 ELSE sent[r].posts)
      /\ sent'[r].taken = (sent[r].taken \/ taken)
  <2> DEFINE one == [posts |-> IF sent[r].posts < MaxAttempts THEN sent[r].posts + 1 ELSE sent[r].posts,
                     taken |-> sent[r].taken \/ taken]
  <2>1. one \in Sents
    <3>1. sent[r].posts \in Nat /\ sent[r].taken \in BOOLEAN
      BY <1>4 DEF Sents
    <3>2. (sent[r].taken \/ taken) \in BOOLEAN
      OBVIOUS
    <3> QED
      BY <3>1, <3>2 DEF Sents
  <2>2. sent' = [sent EXCEPT ![r] = one]
    BY <1>1
  <2>3. one.posts = (IF sent[r].posts < MaxAttempts THEN sent[r].posts + 1 ELSE sent[r].posts)
    OBVIOUS
  <2>4. one.taken = (sent[r].taken \/ taken)
    OBVIOUS
  <2> HIDE DEF one
  <2> QED
    BY <1>3, <2>1, <2>2, <2>3, <2>4
<1>9. \A s \in Ids : /\ sent[s].posts \in Nat /\ sent'[s].posts \in Nat /\ sent[s].posts <= sent'[s].posts
                     /\ sent[s].taken => sent'[s].taken
  <2>1. \A s \in Ids : sent[s] \in Sents
    BY <1>3
  <2>2. \A s \in Ids : sent[s].posts \in Nat
    BY <2>1 DEF Sents
  <2>3. sent'[r].posts \in Nat /\ sent[r].posts <= sent'[r].posts
    <3>1. sent[r].posts \in Nat
      BY <2>2
    <3> QED
      BY ONLY <1>8, <3>1
  <2>5. sent[r].taken => sent'[r].taken
    BY ONLY <1>8, Zenon
  <2>4. ASSUME NEW s \in Ids, s # r
        PROVE  sent'[s] = sent[s] /\ sent[s].posts <= sent[s].posts
    BY <1>8, <2>2, <2>4
  <2> QED
    BY ONLY <2>2, <2>3, <2>4, <2>5
<1>10. Typed'
  BY <1>2, <1>7, <1>8
<1>11. RecordsBacked'
  <2>1. \A s \in Ids : records[s].attempts \in Nat
    <3>1. \A s \in Ids : records[s] \in Records
      BY <1>3
    <3> QED
      BY <3>1 DEF Records
  <2> QED
    <3> SUFFICES ASSUME NEW s \in Ids
                 PROVE  /\ records[s].status = "synced" => sent'[s].taken
                        /\ records[s].status = "failed" => sent'[s].posts >= MaxAttempts \/ target = "deleted"
                        /\ records[s].attempts <= sent'[s].posts \/ sent'[s].posts >= MaxAttempts
      BY <1>2, <1>3 DEF RecordsBacked, Spent
    <3> QED
      BY <1>9, <2>1, SMTT(30) DEF RecordsBacked, Spent
<1>12. LinksBacked'
  BY <1>2, <1>3, <1>9 DEF LinksBacked
<1>13. RequestsBacked'
  <2> SUFFICES ASSUME NEW q \in Procs PROVE Backed(q)'
    BY DEF RequestsBacked
  <2>1. CASE q = p
    <3>1. proc'[q] = c /\ c.todo \subseteq Ids
      BY <1>5, <1>7, <2>1 DEF RequestsBacked, Backed
    <3>2. ASSUME NEW s \in Ids, Now(q, s)' PROVE s = r
      <4>1. Now(p, s)
        BY <1>5, <2>1, <3>1, <3>2 DEF Now
      <4> QED
        BY <1>1, <4>1, NowIsOne
    <3>3. Understood(taken, lost) => sent'[r].taken
      BY <1>8 DEF Understood
    <3>4. records[r].attempts < sent'[r].posts \/ Spent(r)'
      <4>1. records[r].attempts \in Nat /\ sent[r].posts \in Nat
        BY <1>4 DEF Records, Sents
      <4>2. records[r].attempts <= sent[r].posts \/ sent[r].posts >= MaxAttempts
        BY DEF RecordsBacked, Spent
      <4> QED
        BY ONLY <1>8, <4>1, <4>2, MaxAttempts \in Nat DEF Spent
    <3> QED
      BY <1>3, <1>5, <3>1, <3>2, <3>3, <3>4 DEF Backed
  <2>2. CASE q # p
    <3>1. proc'[q] = proc[q] /\ proc[q].attempts \in Nat
      BY <1>7, <2>2 DEF Requests
    <3>2. \A s \in Ids : Now(q, s)' => Now(q, s)
      BY <3>1 DEF Now
    <3>3. Backed(q)
      BY DEF RequestsBacked
    <3>4. \A s \in Ids : /\ proc[q].attempts < sent[s].posts => proc[q].attempts < sent'[s].posts
                         /\ Spent(s) => Spent(s)'
      BY <1>9, <3>1 DEF Spent
    <3> HIDE DEF SyncInv, Typed, Step
    <3> QED
      BY <1>3, <1>9, <3>1, <3>2, <3>3, <3>4 DEF Backed
  <2> QED
    BY <2>1, <2>2
<1> QED
  BY <1>10, <1>11, <1>12, <1>13

(* A commit that fails writes nothing.                                     *)
Refused(p) == WritesTarget(p) /\ target = "deleted"

LEMMA RefusedIsQuiet ==
  ASSUME SyncInv, NEW p \in Procs, Settle(p), Refused(p)
  PROVE  Quietly(p)
<1>1. Return(p) /\ UNCHANGED <<row, records, links, target, sent>>
  BY DEF Settle, Refused
<1> QED
  BY <1>1, ReturnIsQuiet

(* The commit of an attempt writes only what the POSTs back.               *)
LEMMA CommitKeeps ==
  ASSUME SyncInv, NEW p \in Procs, Settle(p), ~Refused(p)
  PROVE  SyncInv'
<1> DEFINE attempts == proc[p].attempts + 1
           status == Outcome(attempts, proc[p].ok)
<1>1. PICK r \in Ids :
          /\ Now(p, r)
          /\ records' = [records EXCEPT ![r].attempts = attempts,
                                        ![r].status = IF status = proc[p].status THEN @ ELSE status]
          /\ links' = IF proc[p].ok THEN Linked(r, proc[p].link) ELSE links
          /\ Step(p, AfterSend(p, r))
  BY DEF Settle, Refused
<1>2. UNCHANGED <<row, sent>> /\ proc[p].pc = "settle"
  BY DEF Settle, At
<1>t. target' \in Targets /\ (target = "deleted" => target' = "deleted")
  BY DEF Settle, Refused, SyncInv, Typed, Targets
<1>3. Len(records) \in Nat /\ Ids = 1..Len(records)
  BY IdsAreNumbers DEF SyncInv
<1> USE DEF SyncInv, Typed
<1>4. records[r] \in Records /\ sent[r] \in Sents /\ proc[p] \in Requests
  BY <1>3
<1>5. attempts \in Nat /\ proc[p].ok \in BOOLEAN /\ sent[r].posts \in Nat
  BY <1>4 DEF Requests, Sents
<1>6. (proc[p].ok => sent[r].taken) /\ (attempts <= sent[r].posts \/ Spent(r))
  <2>1. proc[p].attempts \in Nat
    BY <1>4 DEF Requests
  <2> QED
    BY <1>1, <1>2, <1>5, <2>1 DEF RequestsBacked, Backed
<1>7. status \in Statuses /\ (status = "synced" => sent[r].taken) /\ (status = "failed" => Spent(r))
  BY <1>5, <1>6 DEF Outcome, Statuses, Spent
<1> HIDE DEF attempts, status
<1> DEFINE one == [records[r] EXCEPT !.attempts = attempts, !.status = IF status = proc[p].status THEN @ ELSE status]
<1>8. one \in Records /\ one.attempts = attempts /\ one.status \in {records[r].status, status}
  <2>1. records[r].status \in Statuses
    BY <1>4 DEF Records
  <2> QED
    BY <1>4, <1>5, <1>7, <2>1 DEF Records
<1>9. records' = [records EXCEPT ![r] = one]
  BY <1>1
<1> HIDE DEF one
<1>10. /\ records' \in Seq(Records) /\ Len(records') = Len(records) /\ Ids' = Ids
       /\ records'[r] = one /\ \A s \in Ids : s # r => records'[s] = records[s]
  BY <1>3, <1>8, <1>9 DEF Ids
<1>11. RecordsBacked'
  BY <1>t, <1>2, <1>6, <1>7, <1>8, <1>10 DEF RecordsBacked, Spent
<1>12. links' \in Seq(Nat) /\ LinksBacked'
  <2>1. CASE links' = links
    BY <1>2, <1>10, <2>1 DEF LinksBacked
  <2>2. CASE proc[p].ok /\ links' = [links EXCEPT ![1] = r]
    <3>1. links' \in Seq(Nat) /\ DOMAIN links' = DOMAIN links
      <4>1. Len(links) \in Nat /\ links \in [1..Len(links) -> Nat] /\ r \in Nat
        BY <1>3
      <4>2. links' \in [1..Len(links) -> Nat]
        BY <2>2, <4>1
      <4>3. DOMAIN links = 1..Len(links) /\ DOMAIN links' = 1..Len(links)
        BY <4>1, <4>2
      <4>4. \A m \in Nat : [1..m -> Nat] \subseteq Seq(Nat)
        OBVIOUS
      <4> QED
        BY <4>1, <4>2, <4>3, <4>4
    <3>2. \A l \in DOMAIN links : links'[l] = links[l] \/ links'[l] = r
      BY <2>2
    <3> QED
      BY <1>2, <1>6, <1>10, <2>2, <3>1, <3>2 DEF LinksBacked
  <2>3. CASE proc[p].ok /\ links' = Append(links, r)
    BY <1>2, <1>3, <1>6, <1>10, <2>3 DEF LinksBacked
  <2> QED
    BY <1>1, <1>5, <2>1, <2>2, <2>3 DEF Linked
<1>13. /\ proc' \in [Procs -> Requests]
       /\ \A q \in Procs : proc'[q] = IF q = p THEN AfterSend(p, r) ELSE proc[q]
  BY <1>1, AfterSendTyped DEF Step
<1>14. RequestsBacked'
  <2> SUFFICES ASSUME NEW q \in Procs PROVE Backed(q)'
    BY DEF RequestsBacked
  <2>1. CASE q = p
    BY <1>10, <1>13, <2>1, AfterSendTyped DEF Backed
  <2>2. CASE q # p
    BY <1>2, <1>10, <1>13, <2>2 DEF RequestsBacked, Backed, Now, Spent
  <2> QED
    BY <2>1, <2>2
<1> QED
  BY <1>t, <1>2, <1>10, <1>11, <1>12, <1>13, <1>14

LEMMA SettleKeeps ==
  ASSUME SyncInv, NEW p \in Procs, Settle(p)
  PROVE  SyncInv'
BY RefusedIsQuiet, QuietlyKeeps, CommitKeeps

LEMMA InitHolds == Init => SyncInv
<1> SUFFICES ASSUME Init PROVE SyncInv
  OBVIOUS
<1>1. Typed /\ Ids = {} /\ links = <<>>
  BY IdleTyped DEF Init, Typed, Ids, Targets
<1> QED
  <2>1. RecordsBacked /\ LinksBacked
    BY <1>1 DEF RecordsBacked, LinksBacked
  <2>2. ASSUME NEW p \in Procs PROVE Backed(p)
    <3>1. proc[p] = Idle /\ Idle.pc = "idle" /\ Idle.todo = {}
      BY DEF Init, Idle
    <3> QED
      BY <3>1 DEF Backed
  <2> QED
    BY <1>1, <2>1, <2>2 DEF SyncInv, RequestsBacked

LEMMA NextKeeps ==
  ASSUME SyncInv, [Next]_vars
  PROVE  SyncInv'
<1>1. CASE \E p \in Procs : Work(p)
  BY <1>1, SweepIsQuiet, CallsAreQuiet, SkipIsQuiet, QuietlyKeeps, NewRecordKeeps, GiveUpKeeps, SendKeeps,
     SettleKeeps DEF Work
<1>2. CASE \E p \in Procs : StartSweep(p) \/ Flush(p) \/ List(p)
  BY <1>2, SweepIsQuiet, QuietlyKeeps
<1>3. CASE \E p \in Procs : (\E op \in Ops : Call(p, op)) \/ RedriveLatest(p) \/ RedriveCheck(p) \/ Crash(p)
  BY <1>3, CallsAreQuiet, QuietlyKeeps, RedriveCallsKeep
<1>4. CASE JobChanges \/ SilenceRunsOut \/ UNCHANGED vars
  <2>1. UNCHANGED <<records, links, sent, proc, target>>
    BY <1>4 DEF JobChanges, SilenceRunsOut, vars, outside
  <2>2. row' \in Rows
    <3>1. row \in Rows
      BY DEF SyncInv, Typed
    <3>2. [row EXCEPT !.until = "over"] \in Rows
      BY <3>1 DEF Rows
    <3> QED
      BY <1>4, <3>1, <3>2 DEF JobChanges, SilenceRunsOut, vars
  <2> QED
    BY <2>1, <2>2 DEF SyncInv, Typed, RecordsBacked, LinksBacked, RequestsBacked, Backed, Now, Spent, Ids
<1>5. CASE delete_target
  <2>1. UNCHANGED <<row, records, links, sent, proc>> /\ target' = "deleted"
    BY <1>5 DEF delete_target
  <2> QED
    BY <2>1 DEF SyncInv, Typed, Targets, RecordsBacked, LinksBacked, RequestsBacked, Backed, Now, Spent, Ids
<1> QED
  BY <1>1, <1>2, <1>3, <1>4, <1>5 DEF Next

(* A record is called synced, and a link names it, only if the target has  *)
(* really taken the transition (_attempt, _upsert_link), however many      *)
(* processes attempt it at once; and as long as the target exists a record *)
(* is given up only after the whole budget of POSTs                        *)
(* (incident_sync_max_attempts), whoever overwrites whose count.           *)
THEOREM SyncsAreHonest == Spec => [](SyncedWasTaken /\ NotGivenUpEarly)
<1>1. SyncInv => SyncedWasTaken /\ NotGivenUpEarly
  BY DEF SyncInv, RecordsBacked, LinksBacked, SyncedWasTaken, NotGivenUpEarly, Spent
<1> QED
  BY <1>1, InitHolds, NextKeeps, PTL DEF Spec

-----------------------------------------------------------------------------
(* The bounds of redrives and links.                                       *)

ChildrenIn(recs, r) == {c \in DOMAIN recs : recs[c].parent = r}
FreshIn(recs, posted, r) == {c \in ChildrenIn(recs, r) : posted[c].posts < MaxAttempts}
RedrivingIn(pr, r) == {p \in Procs : pr[p].pc = "redrive" /\ r \in pr[p].todo}
UnseeingIn(pr) == {p \in Procs : pr[p].pc = "settle" /\ ~pr[p].link}

WorldTyped == job \in Job /\ external \in {"none", "triggered", "acknowledged", "resolved"}

ParentsOlder == \A r \in Ids : records[r].parent \in 0..(r - 1)

OneAtATime ==
    \A p \in Procs : /\ proc[p].pc \in {"check", "redrive"} => \E r \in Ids : proc[p].todo = {r}
                     /\ proc[p].pc = "settle" /\ proc[p].link => links # <<>>

(* Once there is a link, only those add one that looked before there was.  *)
LinksCounted ==
    links # <<>> => Len(links) + Cardinality(UnseeingIn(proc)) <= Cardinality(Procs)

(* A redrive that has been checked is counted as if it were there.  All    *)
(* the redrives there are have failed when one is checked, and so, unless  *)
(* the target was deleted, have no attempts left.                          *)
RedrivesCounted ==
    \A r \in Ids :
        /\ Cardinality(ChildrenIn(records, r)) + Cardinality(RedrivingIn(proc, r))
               <= MaxRedrives + Cardinality(Procs) - 1
        /\ target # "deleted" =>
               Cardinality(FreshIn(records, sent, r)) + Cardinality(RedrivingIn(proc, r)) <= Cardinality(Procs)

BoundsInv == WorldTyped /\ ParentsOlder /\ OneAtATime /\ LinksCounted /\ RedrivesCounted

LEMMA CountsAreNumbers ==
  ASSUME SyncInv
  PROVE  /\ IsFiniteSet(Procs) /\ Cardinality(Procs) \in Nat \ {0}
         /\ IsFiniteSet(UnseeingIn(proc)) /\ Cardinality(UnseeingIn(proc)) \in Nat
         /\ \A r : /\ IsFiniteSet(ChildrenIn(records, r)) /\ Cardinality(ChildrenIn(records, r)) \in Nat
                   /\ IsFiniteSet(FreshIn(records, sent, r)) /\ Cardinality(FreshIn(records, sent, r)) \in Nat
                   /\ IsFiniteSet(RedrivingIn(proc, r)) /\ Cardinality(RedrivingIn(proc, r)) \in Nat
<1>1. IsFiniteSet(Procs) /\ Procs # {}
  OBVIOUS
<1>2. IsFiniteSet(DOMAIN records)
  BY IdsAreNumbers, FS_Interval DEF SyncInv, Ids
<1>3. UnseeingIn(proc) \subseteq Procs
  BY DEF UnseeingIn
<1>4. ASSUME NEW r
      PROVE  /\ ChildrenIn(records, r) \subseteq DOMAIN records
             /\ FreshIn(records, sent, r) \subseteq DOMAIN records
             /\ RedrivingIn(proc, r) \subseteq Procs
  BY DEF ChildrenIn, FreshIn, RedrivingIn
<1>5. Cardinality(Procs) \in Nat \ {0}
  BY <1>1, FS_CardinalityType, FS_EmptySet
<1>6. IsFiniteSet(UnseeingIn(proc)) /\ Cardinality(UnseeingIn(proc)) \in Nat
  BY <1>1, <1>3, FS_Subset, FS_CardinalityType
<1>7. ASSUME NEW r
      PROVE  /\ IsFiniteSet(ChildrenIn(records, r)) /\ Cardinality(ChildrenIn(records, r)) \in Nat
             /\ IsFiniteSet(FreshIn(records, sent, r)) /\ Cardinality(FreshIn(records, sent, r)) \in Nat
             /\ IsFiniteSet(RedrivingIn(proc, r)) /\ Cardinality(RedrivingIn(proc, r)) \in Nat
  BY <1>1, <1>2, <1>4, FS_Subset, FS_CardinalityType
<1> QED
  BY <1>1, <1>5, <1>6, <1>7

(* Steps that add no redrive, checked or made, and give none its attempts  *)
(* back.                                                                   *)
LEMMA CountsShrink ==
  ASSUME SyncInv, RedrivesCounted, Ids' = Ids, target = "deleted" => target' = "deleted",
         \A r \in Ids : /\ ChildrenIn(records', r) = ChildrenIn(records, r)
                        /\ FreshIn(records', sent', r) \subseteq FreshIn(records, sent, r)
                        /\ RedrivingIn(proc', r) \subseteq RedrivingIn(proc, r)
  PROVE  RedrivesCounted'
<1> SUFFICES ASSUME NEW r \in Ids
             PROVE  /\ Cardinality(ChildrenIn(records', r)) + Cardinality(RedrivingIn(proc', r))
                           <= MaxRedrives + Cardinality(Procs) - 1
                    /\ target # "deleted" =>
                           Cardinality(FreshIn(records', sent', r)) + Cardinality(RedrivingIn(proc', r)) <= Cardinality(Procs)
  BY DEF RedrivesCounted
<1>1. /\ Cardinality(FreshIn(records', sent', r)) <= Cardinality(FreshIn(records, sent, r))
      /\ Cardinality(FreshIn(records', sent', r)) \in Nat
  BY CountsAreNumbers, FS_Subset, FS_CardinalityType
<1>2. /\ Cardinality(RedrivingIn(proc', r)) <= Cardinality(RedrivingIn(proc, r))
      /\ Cardinality(RedrivingIn(proc', r)) \in Nat
  BY CountsAreNumbers, FS_Subset, FS_CardinalityType
<1>3. /\ Cardinality(ChildrenIn(records, r)) + Cardinality(RedrivingIn(proc, r)) <= MaxRedrives + Cardinality(Procs) - 1
      /\ target # "deleted" =>
             Cardinality(FreshIn(records, sent, r)) + Cardinality(RedrivingIn(proc, r)) <= Cardinality(Procs)
  BY DEF RedrivesCounted
<1> QED
  BY <1>1, <1>2, <1>3, CountsAreNumbers

LEMMA LinksShrink ==
  ASSUME SyncInv, LinksCounted, UNCHANGED links, UnseeingIn(proc') \subseteq UnseeingIn(proc)
  PROVE  LinksCounted'
<1>1. /\ Cardinality(UnseeingIn(proc')) <= Cardinality(UnseeingIn(proc))
      /\ Cardinality(UnseeingIn(proc')) \in Nat
  BY CountsAreNumbers, FS_Subset, FS_CardinalityType
<1>2. Len(links) \in Nat
  BY DEF SyncInv, Typed
<1> QED
  BY <1>1, <1>2, CountsAreNumbers DEF LinksCounted

LEMMA Stepped ==
  ASSUME SyncInv, NEW p \in Procs, NEW c, Step(p, c)
  PROVE  proc'[p] = c /\ \A q \in Procs \ {p} : proc'[q] = proc[q]
BY DEF SyncInv, Typed, Step

(* A step that touches no record, link or POST, and neither passes the     *)
(* check of a redrive nor reaches the commit of an attempt.                *)
LEMMA QuietBounded ==
  ASSUME SyncInv, BoundsInv, UNCHANGED <<records, links, target, sent, external>>, job' \in Job,
         NEW p \in Procs, NEW c, Step(p, c), c.pc \notin {"settle", "redrive"},
         c.pc = "check" => \E r \in Ids : c.todo = {r}
  PROVE  BoundsInv'
<1>1. proc'[p] = c /\ \A q \in Procs \ {p} : proc'[q] = proc[q]
  BY Stepped
<1>2. Ids' = Ids
  BY DEF Ids
<1>3. WorldTyped' /\ ParentsOlder'
  BY <1>2 DEF BoundsInv, WorldTyped, ParentsOlder
<1>4. OneAtATime'
  <2> SUFFICES ASSUME NEW q \in Procs
               PROVE  /\ proc'[q].pc \in {"check", "redrive"} => \E r \in Ids : proc'[q].todo = {r}
                      /\ proc'[q].pc = "settle" /\ proc'[q].link => links # <<>>
    BY <1>2 DEF OneAtATime
  <2> QED
    BY <1>1 DEF BoundsInv, OneAtATime
<1>5. UnseeingIn(proc') \subseteq UnseeingIn(proc)
  BY <1>1 DEF UnseeingIn
<1>6. \A r \in Ids : RedrivingIn(proc', r) \subseteq RedrivingIn(proc, r)
  BY <1>1 DEF RedrivingIn
<1> QED
  BY <1>2, <1>3, <1>4, <1>5, <1>6, CountsShrink, LinksShrink DEF BoundsInv

LEMMA QuietlyBounded ==
  ASSUME SyncInv, BoundsInv, NEW p \in Procs, Quietly(p), UNCHANGED external, job' \in Job
  PROVE  BoundsInv'
<1>1. PICK c \in Requests : Step(p, c) /\ c.pc \notin {"settle", "check", "redrive"}
  BY DEF Quietly
<1>2. UNCHANGED <<records, links, target, sent>>
  BY DEF Quietly
<1> QED
  BY <1>1, <1>2, QuietBounded

(* The check of a redrive: none of the redrives there are has attempts     *)
(* left, and there are fewer than the bound.                               *)
LEMMA CheckedBounded ==
  ASSUME SyncInv, BoundsInv, NEW p \in Procs, NEW r \in Ids, MayRedrive(r), NEW c, Step(p, c),
         c.pc = "redrive", c.todo = {r}, UNCHANGED <<records, links, target, sent, external, job>>
  PROVE  BoundsInv'
<1>1. proc'[p] = c /\ \A q \in Procs \ {p} : proc'[q] = proc[q]
  BY Stepped
<1>2. Ids' = Ids
  BY DEF Ids
<1>3. WorldTyped' /\ ParentsOlder'
  BY <1>2 DEF BoundsInv, WorldTyped, ParentsOlder
<1>4. OneAtATime'
  <2> SUFFICES ASSUME NEW q \in Procs
               PROVE  /\ proc'[q].pc \in {"check", "redrive"} => \E s \in Ids : proc'[q].todo = {s}
                      /\ proc'[q].pc = "settle" /\ proc'[q].link => links # <<>>
    BY <1>2 DEF OneAtATime
  <2> QED
    BY <1>1 DEF BoundsInv, OneAtATime
<1>5. UnseeingIn(proc') \subseteq UnseeingIn(proc)
  BY <1>1 DEF UnseeingIn
<1>6. RedrivesCounted'
  <2> SUFFICES ASSUME NEW s \in Ids
               PROVE  /\ Cardinality(ChildrenIn(records, s)) + Cardinality(RedrivingIn(proc', s))
                             <= MaxRedrives + Cardinality(Procs) - 1
                      /\ target # "deleted" =>
                             Cardinality(FreshIn(records, sent, s)) + Cardinality(RedrivingIn(proc', s)) <= Cardinality(Procs)
    BY <1>2 DEF RedrivesCounted
  <2>1. /\ Cardinality(ChildrenIn(records, s)) + Cardinality(RedrivingIn(proc, s)) <= MaxRedrives + Cardinality(Procs) - 1
        /\ target # "deleted" =>
               Cardinality(FreshIn(records, sent, s)) + Cardinality(RedrivingIn(proc, s)) <= Cardinality(Procs)
    BY DEF BoundsInv, RedrivesCounted
  <2>2. CASE s # r
    <3>1. RedrivingIn(proc', s) \subseteq RedrivingIn(proc, s)
      BY <1>1, <2>2 DEF RedrivingIn
    <3>2. /\ Cardinality(RedrivingIn(proc', s)) <= Cardinality(RedrivingIn(proc, s))
          /\ Cardinality(RedrivingIn(proc', s)) \in Nat
      BY <3>1, CountsAreNumbers, FS_Subset, FS_CardinalityType
    <3> QED
      BY <2>1, <3>2, CountsAreNumbers
  <2>3. CASE s = r
    <3>1. RedrivingIn(proc', s) \subseteq Procs
      BY DEF RedrivingIn
    <3>2. /\ Cardinality(RedrivingIn(proc', s)) <= Cardinality(Procs)
          /\ Cardinality(RedrivingIn(proc', s)) \in Nat
      BY <3>1, CountsAreNumbers, FS_Subset, FS_CardinalityType
    <3>3. ChildrenIn(records, s) = Children(r)
      BY <2>3 DEF ChildrenIn, Children, Ids
    <3>4. Cardinality(ChildrenIn(records, s)) < MaxRedrives
      BY <3>3 DEF MayRedrive
    <3>5. ASSUME target # "deleted" PROVE FreshIn(records, sent, s) = {}
      <4> SUFFICES ASSUME NEW d \in FreshIn(records, sent, s) PROVE FALSE
        OBVIOUS
      <4>1. d \in ChildrenIn(records, s) /\ d \in Ids /\ sent[d].posts < MaxAttempts
        BY DEF FreshIn, ChildrenIn, Ids
      <4>2. records[d].status = "failed"
        BY <3>3, <4>1 DEF MayRedrive
      <4>3. sent[d].posts >= MaxAttempts
        BY <3>5, <4>1, <4>2 DEF SyncInv, RecordsBacked, Spent
      <4>4. sent[d].posts \in Nat
        <5>1. sent[d] \in Sents
          BY <4>1, IdsAreNumbers DEF SyncInv, Typed
        <5> QED
          BY <5>1 DEF Sents
      <4> QED
        BY <4>1, <4>3, <4>4
    <3>6. target # "deleted" => Cardinality(FreshIn(records, sent, s)) = 0
      BY <3>5, FS_EmptySet
    <3> QED
      BY <3>2, <3>4, <3>6, CountsAreNumbers
  <2> QED
    BY <2>2, <2>3
<1> QED
  BY <1>3, <1>4, <1>5, <1>6, LinksShrink DEF BoundsInv

LEMMA RedriveCallsBounded ==
  ASSUME SyncInv, BoundsInv, NEW p \in Procs, RedriveLatest(p) \/ RedriveCheck(p)
  PROVE  BoundsInv'
<1> USE DEF At, GoTo
<1>i. Idle \in Requests /\ Idle.pc = "idle"
  <2>1. Idle.pc = "idle"
    BY DEF Idle
  <2> QED
    BY <2>1, IdleTyped
<1>t. proc[p] \in Requests
  BY DEF SyncInv, Typed
<1>n. Ids \subseteq Nat
  BY IdsAreNumbers DEF SyncInv
<1>w. UNCHANGED <<records, links, target, sent, external, job>> /\ job' \in Job
  <2>1. UNCHANGED <<job, target, row, records, links, external, sent>>
    BY Zenon DEF RedriveLatest, RedriveCheck
  <2> QED
    BY <2>1 DEF BoundsInv, WorldTyped
<1>1. CASE \E r \in Ids, pc \in {"check"} : Step(p, [Idle EXCEPT !.pc = pc, !.todo = {r}])
  <2>1. PICK r \in Ids, pc \in {"check"} : Step(p, [Idle EXCEPT !.pc = pc, !.todo = {r}])
    BY <1>1, Zenon
  <2> DEFINE c == [Idle EXCEPT !.pc = pc, !.todo = {r}]
  <2>2. c.todo = {r} /\ c.pc = "check"
    BY <1>i, <1>n DEF Requests
  <2>3. Step(p, c)
    BY <2>1
  <2> HIDE DEF c
  <2> QED
    BY <1>w, <2>2, <2>3, QuietBounded
<1>2. CASE \E r \in Ids, pc \in {"redrive"} : MayRedrive(r) /\ Step(p, [Idle EXCEPT !.pc = pc, !.todo = {r}])
  <2>1. PICK r \in Ids, pc \in {"redrive"} : MayRedrive(r) /\ Step(p, [Idle EXCEPT !.pc = pc, !.todo = {r}])
    BY <1>2, Zenon
  <2> DEFINE c == [Idle EXCEPT !.pc = pc, !.todo = {r}]
  <2>2. c.todo = {r} /\ c.pc = "redrive"
    BY <1>i, <1>n DEF Requests
  <2>3. Step(p, c) /\ MayRedrive(r)
    BY <2>1
  <2> HIDE DEF c
  <2> QED
    BY <1>w, <2>2, <2>3, CheckedBounded
<1>3. CASE /\ proc[p].pc = "check" /\ \A r \in proc[p].todo : MayRedrive(r)
           /\ Step(p, [proc[p] EXCEPT !.pc = "redrive"])
  <2> DEFINE c == [proc[p] EXCEPT !.pc = "redrive"]
  <2>1. PICK r \in Ids : proc[p].todo = {r}
    BY <1>3 DEF BoundsInv, OneAtATime
  <2>2. c.todo = {r} /\ c.pc = "redrive"
    BY <1>t, <2>1 DEF Requests
  <2>3. Step(p, c) /\ MayRedrive(r)
    BY <1>3, <2>1
  <2> HIDE DEF c
  <2> QED
    BY <1>w, <2>2, <2>3, CheckedBounded
<1>4. CASE Step(p, Idle)
  BY <1>i, <1>w, <1>4, QuietBounded
<1>5. RedriveLatest(p) => \E r \in Ids, pc \in {"check"} : Step(p, [Idle EXCEPT !.pc = pc, !.todo = {r}])
  BY Zenon DEF RedriveLatest
<1>6. RedriveCheck(p) => \/ \E r \in Ids, pc \in {"redrive"} : MayRedrive(r) /\ Step(p, [Idle EXCEPT !.pc = pc, !.todo = {r}])
                         \/ /\ proc[p].pc = "check" /\ \A r \in proc[p].todo : MayRedrive(r)
                            /\ Step(p, [proc[p] EXCEPT !.pc = "redrive"])
                         \/ Step(p, Idle)
  BY Zenon DEF RedriveCheck
<1> QED
  BY <1>1, <1>2, <1>3, <1>4, <1>5, <1>6, Zenon

LEMMA OneMore ==
  ASSUME NEW S, IsFiniteSet(S), NEW x
  PROVE  /\ IsFiniteSet(S \cup {x}) /\ Cardinality(S \cup {x}) <= Cardinality(S) + 1
         /\ Cardinality(S \cup {x}) \in Nat
<1>1. /\ IsFiniteSet(S \cup {x})
      /\ Cardinality(S \cup {x}) = IF x \in S THEN Cardinality(S) ELSE Cardinality(S) + 1
  BY FS_AddElement
<1>2. Cardinality(S) \in Nat
  BY FS_CardinalityType
<1> QED
  BY <1>1, <1>2

(* A record that is added is new, or takes the place of a redrive that had *)
(* been checked.                                                           *)
LEMMA AppendBounded ==
  ASSUME SyncInv, BoundsInv, NEW p \in Procs, NEW c, Step(p, c), c.pc = "send",
         NEW action \in Actions, NEW parent \in 0..Len(records),
         parent # 0 => proc[p].pc = "redrive" /\ parent \in proc[p].todo,
         records' = Append(records, Record(action, parent)), sent' = Append(sent, [posts |-> 0, taken |-> FALSE]),
         UNCHANGED <<job, links, target, external>>
  PROVE  BoundsInv'
<1> DEFINE n == Len(records)
<1>1. n \in Nat /\ Ids = 1..n /\ Len(sent) = n /\ DOMAIN sent = 1..n /\ DOMAIN records = 1..n
  BY IdsAreNumbers DEF SyncInv, Typed, Ids
<1>2. proc'[p] = c /\ \A q \in Procs \ {p} : proc'[q] = proc[q]
  BY Stepped
<1>3. /\ DOMAIN records' = 1..(n + 1)
      /\ \A r \in 1..n : records'[r] = records[r]
      /\ records'[n + 1] = Record(action, parent)
  BY <1>1 DEF SyncInv, Typed
<1>4. \A r \in 1..n : sent'[r] = sent[r]
  BY <1>1 DEF SyncInv, Typed
<1>5. Ids' = 1..(n + 1) /\ parent \in 0..n
  BY <1>3 DEF Ids
<1>6. records'[n + 1].parent = parent
  BY <1>3 DEF Record
<1> HIDE DEF n
<1>7. \A r \in 1..n : records[r].parent \in 0..(r - 1)
  BY <1>1 DEF BoundsInv, ParentsOlder
<1>8. WorldTyped' /\ ParentsOlder'
  BY <1>1, <1>3, <1>5, <1>6, <1>7 DEF BoundsInv, WorldTyped, ParentsOlder
<1>9. OneAtATime'
  <2> SUFFICES ASSUME NEW q \in Procs
               PROVE  /\ proc'[q].pc \in {"check", "redrive"} => \E s \in Ids' : proc'[q].todo = {s}
                      /\ proc'[q].pc = "settle" /\ proc'[q].link => links # <<>>
    BY DEF OneAtATime
  <2>1. CASE q = p
    BY <1>2, <2>1
  <2>2. CASE q # p
    <3>1. proc'[q] = proc[q] /\ Ids \subseteq Ids'
      BY <1>1, <1>2, <1>5, <2>2
    <3> QED
      BY <3>1 DEF BoundsInv, OneAtATime
  <2> QED
    BY <2>1, <2>2
<1>10. UnseeingIn(proc') \subseteq UnseeingIn(proc)
  BY <1>2 DEF UnseeingIn
<1>11. RedrivesCounted'
  <2> SUFFICES ASSUME NEW s \in 1..(n + 1)
               PROVE  /\ Cardinality(ChildrenIn(records', s)) + Cardinality(RedrivingIn(proc', s))
                             <= MaxRedrives + Cardinality(Procs) - 1
                      /\ target # "deleted" =>
                             Cardinality(FreshIn(records', sent', s)) + Cardinality(RedrivingIn(proc', s)) <= Cardinality(Procs)
    BY <1>5 DEF RedrivesCounted
  <2>1. CASE s = n + 1
    <3>1. ChildrenIn(records', s) = {}
      BY <1>1, <1>3, <1>5, <1>6, <1>7, <2>1 DEF ChildrenIn
    <3>2. FreshIn(records', sent', s) = {}
      BY <3>1 DEF FreshIn
    <3>3. RedrivingIn(proc', s) = {}
      <4>1. \A q \in Procs : proc[q].todo \subseteq 1..n
        BY <1>1 DEF SyncInv, RequestsBacked, Backed
      <4> QED
        BY <1>1, <1>2, <2>1, <4>1 DEF RedrivingIn
    <3>4. Cardinality(ChildrenIn(records', s)) = 0 /\ Cardinality(FreshIn(records', sent', s)) = 0
          /\ Cardinality(RedrivingIn(proc', s)) = 0
      BY <3>1, <3>2, <3>3, FS_EmptySet
    <3> QED
      BY <3>4, CountsAreNumbers
  <2>2. CASE s \in 1..n
    <3>1. /\ Cardinality(ChildrenIn(records, s)) + Cardinality(RedrivingIn(proc, s)) <= MaxRedrives + Cardinality(Procs) - 1
          /\ target # "deleted" =>
                 Cardinality(FreshIn(records, sent, s)) + Cardinality(RedrivingIn(proc, s)) <= Cardinality(Procs)
      BY <1>1, <2>2 DEF BoundsInv, RedrivesCounted
    <3>2. RedrivingIn(proc', s) = RedrivingIn(proc, s) \ {p}
      BY <1>2 DEF RedrivingIn
    <3>6. /\ IsFiniteSet(RedrivingIn(proc, s)) /\ Cardinality(RedrivingIn(proc, s)) \in Nat
          /\ IsFiniteSet(ChildrenIn(records, s)) /\ Cardinality(ChildrenIn(records, s)) \in Nat
          /\ IsFiniteSet(FreshIn(records, sent, s)) /\ Cardinality(FreshIn(records, sent, s)) \in Nat
          /\ Cardinality(Procs) \in Nat
      BY CountsAreNumbers
    <3>3. Cardinality(RedrivingIn(proc', s))
                = IF p \in RedrivingIn(proc, s) THEN Cardinality(RedrivingIn(proc, s)) - 1
                                                ELSE Cardinality(RedrivingIn(proc, s))
      BY <3>6, <3>2, FS_RemoveElement
    <3>4. CASE s = parent
      <4>1. p \in RedrivingIn(proc, s)
        BY <2>2, <3>4 DEF RedrivingIn
      <4>2. ChildrenIn(records', s) = ChildrenIn(records, s) \cup {n + 1}
        <5>1. \A d \in 1..(n + 1) : records'[d].parent = IF d = n + 1 THEN s ELSE records[d].parent
          BY <1>1, <1>3, <1>6, <3>4
        <5>2. ChildrenIn(records', s) = {d \in 1..(n + 1) : records'[d].parent = s}
          BY <1>3 DEF ChildrenIn
        <5>3. ChildrenIn(records, s) = {d \in 1..n : records[d].parent = s}
          BY <1>1 DEF ChildrenIn
        <5> HIDE DEF n
        <5> QED
          BY <1>1, <5>1, <5>2, <5>3
      <4>3. FreshIn(records', sent', s) \subseteq FreshIn(records, sent, s) \cup {n + 1}
        BY <1>1, <1>4, <4>2 DEF FreshIn, ChildrenIn
      <4>4. Cardinality(ChildrenIn(records', s)) <= Cardinality(ChildrenIn(records, s)) + 1
            /\ Cardinality(ChildrenIn(records', s)) \in Nat
        <5>1. /\ IsFiniteSet(ChildrenIn(records, s) \cup {n + 1})
              /\ Cardinality(ChildrenIn(records, s) \cup {n + 1}) <= Cardinality(ChildrenIn(records, s)) + 1
          BY <3>6, OneMore, Zenon
        <5> QED
          BY <4>2, <5>1, FS_CardinalityType
      <4>5. Cardinality(FreshIn(records', sent', s)) <= Cardinality(FreshIn(records, sent, s)) + 1
            /\ Cardinality(FreshIn(records', sent', s)) \in Nat
        <5>1. /\ IsFiniteSet(FreshIn(records, sent, s) \cup {n + 1})
              /\ Cardinality(FreshIn(records, sent, s) \cup {n + 1}) <= Cardinality(FreshIn(records, sent, s)) + 1
              /\ Cardinality(FreshIn(records, sent, s) \cup {n + 1}) \in Nat
          BY <3>6, OneMore, Zenon
        <5>2. /\ Cardinality(FreshIn(records', sent', s)) <= Cardinality(FreshIn(records, sent, s) \cup {n + 1})
              /\ Cardinality(FreshIn(records', sent', s)) \in Nat
          BY <4>3, <5>1, FS_Subset, FS_CardinalityType
        <5> QED
          BY <3>6, <5>1, <5>2
      <4>6. Cardinality(RedrivingIn(proc', s)) = Cardinality(RedrivingIn(proc, s)) - 1
        BY <3>3, <4>1
      <4>7. Cardinality(ChildrenIn(records', s)) + Cardinality(RedrivingIn(proc', s)) <= MaxRedrives + Cardinality(Procs) - 1
        BY ONLY MaxRedrives \in Nat, <3>1, <3>6, <4>4, <4>6
      <4>8. target # "deleted" =>
                Cardinality(FreshIn(records', sent', s)) + Cardinality(RedrivingIn(proc', s)) <= Cardinality(Procs)
        BY ONLY <3>1, <3>6, <4>5, <4>6
      <4> QED
        BY <4>7, <4>8
    <3>5. CASE s # parent
      <4>1. ChildrenIn(records', s) = ChildrenIn(records, s)
        BY <1>1, <1>3, <1>6, <3>5 DEF ChildrenIn
      <4>2. FreshIn(records', sent', s) = FreshIn(records, sent, s)
        BY <1>1, <1>4, <4>1 DEF FreshIn, ChildrenIn
      <4>3. Cardinality(RedrivingIn(proc', s)) \in Int
            /\ Cardinality(RedrivingIn(proc', s)) <= Cardinality(RedrivingIn(proc, s))
        BY ONLY <3>3, <3>6
      <4> QED
        BY ONLY MaxRedrives \in Nat, <3>1, <3>6, <4>1, <4>2, <4>3
    <3> QED
      BY <3>4, <3>5
  <2> QED
    BY <1>1, <2>1, <2>2
<1> QED
  BY <1>8, <1>9, <1>10, <1>11, LinksShrink DEF BoundsInv

LEMMA NewRecordBounded ==
  ASSUME SyncInv, BoundsInv, NEW p \in Procs, Export(p) \/ Redrive(p)
  PROVE  BoundsInv'
<1> USE DEF At
<1>1. Len(records) \in Nat /\ Ids = 1..Len(records) /\ proc[p] \in Requests /\ proc[p].todo \subseteq Ids
  BY IdsAreNumbers DEF SyncInv, Typed, RequestsBacked, Backed
<1>0. CASE Export(p) /\ target = "deleted"
  <2>1. Return(p) /\ UNCHANGED <<row, records, links, target, sent, external, job>>
    BY <1>0 DEF Export, outside
  <2>2. job' \in Job
    BY <2>1 DEF BoundsInv, WorldTyped
  <2> QED
    BY <2>1, <2>2, ReturnIsQuiet, QuietlyBounded
<1>2. CASE Export(p) /\ target # "deleted"
  <2> DEFINE c == [proc[p] EXCEPT !.pc = "send", !.todo = {Len(records) + 1}]
  <2>1. c.pc = "send" /\ proc[p].act \in Actions
    BY <1>1 DEF Requests
  <2>2. /\ Step(p, c) /\ UNCHANGED <<job, links, target, external>>
        /\ records' = Append(records, Record(proc[p].act, 0)) /\ sent' = Append(sent, [posts |-> 0, taken |-> FALSE])
    BY <1>2, Zenon DEF Export, outside
  <2> HIDE DEF c
  <2> QED
    BY <1>1, <2>1, <2>2, AppendBounded
<1>3. CASE Redrive(p)
  <2> DEFINE c == [Idle EXCEPT !.pc = "send", !.todo = {Len(records) + 1}]
  <2>1. c.pc = "send"
    BY DEF Idle
  <2>2. PICK r \in proc[p].todo : records' = Append(records, Record(records[r].action, r))
    BY <1>3 DEF Redrive
  <2>3. records[r].action \in Actions /\ r \in 0..Len(records)
    <3>1. records[r] \in Records /\ r \in 1..Len(records)
      BY <1>1, <2>2 DEF SyncInv, Typed
    <3> QED
      BY <3>1 DEF Records
  <2>4. Step(p, c) /\ UNCHANGED <<job, links, target, external>> /\ sent' = Append(sent, [posts |-> 0, taken |-> FALSE])
    BY <1>3, Zenon DEF Redrive, outside
  <2>5. proc[p].pc = "redrive"
    BY <1>3 DEF Redrive
  <2> HIDE DEF c
  <2> QED
    BY <2>1, <2>2, <2>3, <2>4, <2>5, AppendBounded
<1> QED
  BY <1>0, <1>2, <1>3

(* A POST takes attempts, gives none back, and looks for the link.         *)
LEMMA SendBounded ==
  ASSUME SyncInv, BoundsInv, NEW p \in Procs, Send(p)
  PROVE  BoundsInv'
<1>1. PICK r \in Ids, taken \in BOOLEAN, lost \in BOOLEAN :
          /\ Now(p, r) /\ records[r].status # "synced"
          /\ (taken /\ ~lost) \/ budget.faults > 0
          /\ budget' = [budget EXCEPT !.faults = IF taken /\ ~lost THEN @ ELSE @ - 1]
          /\ external' = IF taken THEN Event(records[r].action) ELSE external
          /\ sent' = [sent EXCEPT ![r] = [posts |-> IF @.posts < MaxAttempts THEN @.posts + 1 ELSE @.posts,
                                          taken |-> @.taken \/ taken]]
          /\ Step(p, [proc[p] EXCEPT !.pc = "settle", !.attempts = records[r].attempts, !.status = records[r].status,
                                     !.ok = Understood(taken, lost), !.link = links # <<>>,
                                     !.target = target])
  BY Zenon DEF Send
<1>2. UNCHANGED <<job, records, links, target>> /\ Ids' = Ids
  BY DEF Send, Ids
<1> DEFINE c == [proc[p] EXCEPT !.pc = "settle", !.attempts = records[r].attempts, !.status = records[r].status,
                                !.ok = Understood(taken, lost), !.link = links # <<>>,
                                !.target = target]
<1>3. c.pc = "settle" /\ c.link = (links # <<>>)
  <2>1. proc[p] \in Requests
    BY DEF SyncInv, Typed
  <2> QED
    BY <2>1 DEF Requests
<1>4. Step(p, c)
  BY <1>1
<1> HIDE DEF c
<1>5. proc'[p] = c /\ \A q \in Procs \ {p} : proc'[q] = proc[q]
  BY <1>4, Stepped
<1>6. WorldTyped' /\ ParentsOlder'
  <2>1. Event(records[r].action) \in {"triggered", "acknowledged", "resolved"}
    BY DEF Event
  <2>2. external' \in {Event(records[r].action), external}
    BY <1>1
  <2> QED
    BY <1>2, <2>1, <2>2 DEF BoundsInv, WorldTyped, ParentsOlder
<1>7. OneAtATime'
  <2> SUFFICES ASSUME NEW q \in Procs
               PROVE  /\ proc'[q].pc \in {"check", "redrive"} => \E s \in Ids : proc'[q].todo = {s}
                      /\ proc'[q].pc = "settle" /\ proc'[q].link => links # <<>>
    BY <1>2 DEF OneAtATime
  <2> QED
    BY <1>3, <1>5 DEF BoundsInv, OneAtATime
<1>8. LinksCounted'
  <2>1. CASE links = <<>>
    BY <1>2, <2>1 DEF LinksCounted
  <2>2. CASE links # <<>>
    <3>1. UnseeingIn(proc') \subseteq UnseeingIn(proc)
      BY <1>3, <1>5, <2>2 DEF UnseeingIn
    <3> QED
      BY <1>2, <3>1, LinksShrink DEF BoundsInv
  <2> QED
    BY <2>1, <2>2
<1>9. RedrivesCounted'
  <2>1. \A s \in Ids : sent'[s].posts < MaxAttempts => sent[s].posts < MaxAttempts
    <3> SUFFICES ASSUME NEW s \in Ids, sent'[s].posts < MaxAttempts PROVE sent[s].posts < MaxAttempts
      OBVIOUS
    <3>1. sent[s].posts \in Nat /\ DOMAIN sent = Ids
      <4>1. sent[s] \in Sents /\ DOMAIN sent = Ids
        BY DEF SyncInv, Typed, Ids
      <4> QED
        BY <4>1 DEF Sents
    <3>2. CASE s # r
      <4>1. sent'[s] = sent[s]
        BY <1>1, <3>1, <3>2
      <4> QED
        BY <4>1
    <3>3. CASE s = r
      <4>1. sent'[r].posts = (IF sent[r].posts < MaxAttempts THEN sent[r].posts + 1 ELSE sent[r].posts)
        BY <1>1, <3>1
      <4> QED
        BY <3>1, <3>3, <4>1
    <3> QED
      BY <3>2, <3>3
  <2>2. ASSUME NEW s \in Ids
        PROVE  /\ ChildrenIn(records', s) = ChildrenIn(records, s)
               /\ FreshIn(records', sent', s) \subseteq FreshIn(records, sent, s)
               /\ RedrivingIn(proc', s) \subseteq RedrivingIn(proc, s)
    <3>1. ChildrenIn(records', s) = ChildrenIn(records, s) /\ ChildrenIn(records, s) \subseteq Ids
      BY <1>2 DEF ChildrenIn, Ids
    <3>2. FreshIn(records', sent', s) \subseteq FreshIn(records, sent, s)
      BY <2>1, <3>1 DEF FreshIn
    <3>3. RedrivingIn(proc', s) \subseteq RedrivingIn(proc, s)
      BY <1>3, <1>5 DEF RedrivingIn
    <3> QED
      BY <3>1, <3>2, <3>3
  <2> QED
    BY <1>2, <2>2, CountsShrink DEF BoundsInv
<1> QED
  BY <1>6, <1>7, <1>8, <1>9 DEF BoundsInv

(* The commit of an attempt makes a link only if it saw none, and then it  *)
(* is one of those that are counted.                                       *)
LEMMA CommitBounded ==
  ASSUME SyncInv, BoundsInv, NEW p \in Procs, Settle(p), ~Refused(p)
  PROVE  BoundsInv'
<1> DEFINE status == Outcome(proc[p].attempts + 1, proc[p].ok)
<1>1. PICK r \in Ids :
          /\ records' = [records EXCEPT ![r].attempts = proc[p].attempts + 1,
                                        ![r].status = IF status = proc[p].status THEN @ ELSE status]
          /\ links' = IF proc[p].ok THEN Linked(r, proc[p].link) ELSE links
          /\ Step(p, AfterSend(p, r))
  BY DEF Settle, Refused
<1>2. UNCHANGED <<job, external, sent>> /\ proc[p].pc = "settle"
  BY DEF Settle, At, outside
<1>t. target = "deleted" => target' = "deleted"
  BY DEF Settle, Refused
<1> HIDE DEF status
<1>3. AfterSend(p, r).pc \in {"send", "idle", "flush"}
  BY AfterSendTyped
<1> DEFINE c == AfterSend(p, r)
<1>4. proc'[p] = c /\ \A q \in Procs \ {p} : proc'[q] = proc[q]
  BY <1>1, Stepped
<1> HIDE DEF c
<1>c. c.pc \in {"send", "idle", "flush"}
  BY <1>3 DEF c
<1>5. Ids' = Ids /\ \A s \in Ids : records'[s].parent = records[s].parent
  <2>1. \A s \in Ids : records[s] \in Records
    BY DEF SyncInv, Typed, Ids
  <2> QED
    BY <1>1, <2>1 DEF Ids, Records
<1>6. WorldTyped' /\ ParentsOlder'
  BY <1>2, <1>5 DEF BoundsInv, WorldTyped, ParentsOlder
<1>7. Len(links) \in Nat /\ (Len(links) = 0 <=> links = <<>>) /\ proc[p].link \in BOOLEAN /\ proc[p].ok \in BOOLEAN
  <2>1. proc[p] \in Requests /\ links \in Seq(Nat)
    BY DEF SyncInv, Typed
  <2> QED
    BY <2>1 DEF Requests
<1>8. \/ links' = links
      \/ proc[p].link /\ links' = [links EXCEPT ![1] = r]
      \/ ~proc[p].link /\ links' = Append(links, r)
  BY <1>1 DEF Linked
<1>9. UnseeingIn(proc') = UnseeingIn(proc) \ {p}
  BY <1>c, <1>4 DEF UnseeingIn
<1> DEFINE Grown == LinksCounted' /\ (links # <<>> => links' # <<>>)
<1>10. ASSUME links' = links PROVE Grown
  BY <1>9, <1>10, LinksShrink DEF BoundsInv
<1>11. ASSUME proc[p].link, links' = [links EXCEPT ![1] = r] PROVE Grown
  <2>1. links # <<>>
    BY <1>2, <1>11 DEF BoundsInv, OneAtATime
  <2>2. Len(links') = Len(links) /\ links' # <<>>
    <3>1. DOMAIN links' = DOMAIN links /\ DOMAIN links = 1..Len(links) /\ 1 \in DOMAIN links
      BY <1>7, <1>11, <2>1 DEF SyncInv, Typed
    <3> QED
      BY <1>7, <1>11, <3>1 DEF SyncInv, Typed
  <2>3. Cardinality(UnseeingIn(proc')) <= Cardinality(UnseeingIn(proc)) /\ Cardinality(UnseeingIn(proc')) \in Nat
    BY <1>9, CountsAreNumbers, FS_Subset, FS_CardinalityType
  <2> QED
    BY <1>7, <2>1, <2>2, <2>3, CountsAreNumbers DEF BoundsInv, LinksCounted
<1>12. ASSUME ~proc[p].link, links' = Append(links, r) PROVE Grown
  <2>1. Len(links') = Len(links) + 1 /\ links' # <<>>
    BY <1>12, IdsAreNumbers DEF SyncInv, Typed
  <2>2. p \in UnseeingIn(proc)
    BY <1>2, <1>12 DEF UnseeingIn
  <2>3. Cardinality(UnseeingIn(proc')) = Cardinality(UnseeingIn(proc)) - 1
    <3>1. IsFiniteSet(UnseeingIn(proc))
      BY CountsAreNumbers
    <3>2. Cardinality(UnseeingIn(proc) \ {p}) = Cardinality(UnseeingIn(proc)) - 1
      BY <2>2, <3>1, FS_RemoveElement
    <3> QED
      BY <1>9, <3>2
  <2>4. Cardinality(UnseeingIn(proc)) <= Cardinality(Procs)
    <3>1. UnseeingIn(proc) \subseteq Procs
      BY DEF UnseeingIn
    <3> QED
      BY <3>1, CountsAreNumbers, FS_Subset
  <2>5. /\ Cardinality(UnseeingIn(proc)) \in Nat /\ Cardinality(Procs) \in Nat
        /\ links # <<>> => Len(links) + Cardinality(UnseeingIn(proc)) <= Cardinality(Procs)
    BY CountsAreNumbers DEF BoundsInv, LinksCounted
  <2>6. Len(links') + Cardinality(UnseeingIn(proc')) <= Cardinality(Procs)
    BY <1>7, <2>1, <2>3, <2>4, <2>5
  <2> QED
    BY <2>1, <2>6 DEF LinksCounted
<1>13. Grown
  BY <1>8, <1>10, <1>11, <1>12
<1>14. OneAtATime'
  <2> SUFFICES ASSUME NEW q \in Procs
               PROVE  /\ proc'[q].pc \in {"check", "redrive"} => \E s \in Ids : proc'[q].todo = {s}
                      /\ proc'[q].pc = "settle" /\ proc'[q].link => links' # <<>>
    BY <1>5 DEF OneAtATime
  <2> QED
    BY <1>c, <1>4, <1>13 DEF BoundsInv, OneAtATime
<1>15. RedrivesCounted'
  <2>1. ASSUME NEW s \in Ids
        PROVE  /\ ChildrenIn(records', s) = ChildrenIn(records, s)
               /\ FreshIn(records', sent', s) \subseteq FreshIn(records, sent, s)
               /\ RedrivingIn(proc', s) \subseteq RedrivingIn(proc, s)
    <3>1. ChildrenIn(records', s) = ChildrenIn(records, s)
      BY <1>5 DEF ChildrenIn, Ids
    <3>2. FreshIn(records', sent', s) \subseteq FreshIn(records, sent, s)
      BY <1>2, <3>1 DEF FreshIn
    <3>3. RedrivingIn(proc', s) \subseteq RedrivingIn(proc, s)
      BY <1>c, <1>4 DEF RedrivingIn
    <3> QED
      BY <3>1, <3>2, <3>3
  <2> QED
    BY <1>t, <1>5, <2>1, CountsShrink DEF BoundsInv
<1> QED
  BY <1>6, <1>13, <1>14, <1>15 DEF BoundsInv

LEMMA SettleBounded ==
  ASSUME SyncInv, BoundsInv, NEW p \in Procs, Settle(p)
  PROVE  BoundsInv'
<1>1. UNCHANGED <<job, external>> /\ job \in Job
  BY DEF Settle, BoundsInv, WorldTyped
<1> QED
  BY <1>1, RefusedIsQuiet, QuietlyBounded, CommitBounded

(* Nothing is counted of what is given up without a target.                *)
LEMMA GiveUpBounded ==
  ASSUME SyncInv, BoundsInv, NEW p \in Procs, GiveUp(p)
  PROVE  BoundsInv'
<1>1. PICK r \in Ids : records' = [records EXCEPT ![r].status = "failed"] /\ Step(p, AfterSend(p, r))
  BY DEF GiveUp
<1>2. UNCHANGED <<job, target, links, external, sent>>
  BY DEF GiveUp, outside
<1> DEFINE c == AfterSend(p, r)
<1>3. c.pc \in {"send", "idle", "flush"}
  BY AfterSendTyped
<1>4. proc'[p] = c /\ \A q \in Procs \ {p} : proc'[q] = proc[q]
  BY <1>1, Stepped
<1> HIDE DEF c
<1>5. Ids' = Ids /\ \A s \in Ids : records'[s].parent = records[s].parent
  <2>1. \A s \in Ids : records[s] \in Records
    BY DEF SyncInv, Typed, Ids
  <2> QED
    BY <1>1, <2>1 DEF Ids, Records
<1>6. WorldTyped' /\ ParentsOlder'
  BY <1>2, <1>5 DEF BoundsInv, WorldTyped, ParentsOlder
<1>7. OneAtATime'
  <2> SUFFICES ASSUME NEW q \in Procs
               PROVE  /\ proc'[q].pc \in {"check", "redrive"} => \E s \in Ids : proc'[q].todo = {s}
                      /\ proc'[q].pc = "settle" /\ proc'[q].link => links # <<>>
    BY <1>2, <1>5 DEF OneAtATime
  <2> QED
    BY <1>3, <1>4 DEF BoundsInv, OneAtATime
<1>8. UnseeingIn(proc') \subseteq UnseeingIn(proc)
  BY <1>3, <1>4 DEF UnseeingIn
<1>9. ASSUME NEW s \in Ids
      PROVE  /\ ChildrenIn(records', s) = ChildrenIn(records, s)
             /\ FreshIn(records', sent', s) \subseteq FreshIn(records, sent, s)
             /\ RedrivingIn(proc', s) \subseteq RedrivingIn(proc, s)
  <2>1. ChildrenIn(records', s) = ChildrenIn(records, s)
    BY <1>5 DEF ChildrenIn, Ids
  <2>2. FreshIn(records', sent', s) \subseteq FreshIn(records, sent, s)
    BY <1>2, <2>1 DEF FreshIn
  <2>3. RedrivingIn(proc', s) \subseteq RedrivingIn(proc, s)
    BY <1>3, <1>4 DEF RedrivingIn
  <2> QED
    BY <2>1, <2>2, <2>3
<1>10. RedrivesCounted'
  BY <1>2, <1>5, <1>9, CountsShrink DEF BoundsInv
<1>11. LinksCounted'
  BY <1>2, <1>8, LinksShrink DEF BoundsInv
<1> QED
  BY <1>6, <1>7, <1>10, <1>11 DEF BoundsInv

LEMMA ChangesTyped ==
  ASSUME NEW j \in Job, NEW k \in Changes(j)
  PROVE  k \in Job
<1> DEFINE Every == Unfinished \cup Finished
           written == CASE j.status = "queued" -> {"running", "cancel_requested", "canceled"}
                        [] j.status \in {"completed", "failed"} -> {"cancel_requested", "canceled"}
                        [] OTHER -> Every \ {j.status}
<1>1. \A st \in Every : [j EXCEPT !.status = st, !.late = FALSE] \in Job
  BY DEF Job
<1>2. [[j EXCEPT !.status = "failed", !.late = FALSE] EXCEPT !.spent = TRUE] \in Job
  BY DEF Job, Finished
<1>3. [j EXCEPT !.late = TRUE] \in Job
  BY DEF Job
<1>4. \A cs \in ChildStatus : [j EXCEPT !.children = (@ \ {"active"}) \cup {cs}] \in Job
  BY DEF Job
<1>5. Finished \subseteq ChildStatus /\ "active" \in ChildStatus
  BY DEF ChildStatus
<1>6. written \subseteq Every
  BY DEF Finished, Unfinished
<1>7. \/ \E st \in written : k = [j EXCEPT !.status = st, !.late = FALSE]
      \/ k = [[j EXCEPT !.status = "failed", !.late = FALSE] EXCEPT !.spent = TRUE]
      \/ k = [j EXCEPT !.late = TRUE]
      \/ \E cs \in Finished \cup {"active"} : k = [j EXCEPT !.children = (@ \ {"active"}) \cup {cs}]
  BY Zenon DEF Changes, FollowedUp
<1> HIDE DEF Every, written
<1> QED
  BY <1>1, <1>2, <1>3, <1>4, <1>5, <1>6, <1>7

LEMMA InitBounded == Init => BoundsInv
<1> SUFFICES ASSUME Init PROVE BoundsInv
  OBVIOUS
<1>1. Ids = {} /\ links = <<>> /\ external = "none"
  BY DEF Init, Ids
<1>2. job \in Job
  BY DEF Init
<1>3. \A p \in Procs : proc[p].pc = "idle"
  BY DEF Init, Idle
<1> QED
  BY <1>1, <1>2, <1>3 DEF BoundsInv, WorldTyped, ParentsOlder, OneAtATime, LinksCounted, RedrivesCounted

LEMMA NextBounded ==
  ASSUME SyncInv, BoundsInv, [Next]_vars
  PROVE  BoundsInv'
<1>1. ASSUME NEW p \in Procs,
             \/ StartSweep(p) \/ Observe(p) \/ Recover(p) \/ Flush(p) \/ List(p) \/ SkipSynced(p)
             \/ (\E op \in Ops : Call(p, op)) \/ Apply(p) \/ Crash(p)
      PROVE  BoundsInv'
  <2>1. Quietly(p)
    BY <1>1, SweepIsQuiet, CallsAreQuiet, SkipIsQuiet
  <2>2. UNCHANGED <<job, external>>
    BY <1>1 DEF StartSweep, Observe, Recover, Flush, List, SkipSynced, Call, Apply, Crash, outside
  <2>3. job \in Job
    BY DEF BoundsInv, WorldTyped
  <2> QED
    BY <2>1, <2>2, <2>3, QuietlyBounded
<1>2. CASE \E p \in Procs : Export(p) \/ Redrive(p) \/ GiveUp(p) \/ Send(p) \/ Settle(p) \/ RedriveLatest(p) \/ RedriveCheck(p)
  BY <1>2, NewRecordBounded, GiveUpBounded, SendBounded, SettleBounded, RedriveCallsBounded
<1>3. CASE JobChanges \/ SilenceRunsOut \/ UNCHANGED vars
  <2>1. UNCHANGED <<records, links, target, sent, proc, external>>
    BY <1>3 DEF JobChanges, SilenceRunsOut, vars, outside
  <2>2. job' \in Job
    BY <1>3, ChangesTyped DEF JobChanges, SilenceRunsOut, vars, outside, BoundsInv, WorldTyped
  <2> QED
    BY <2>1, <2>2 DEF BoundsInv, WorldTyped, ParentsOlder, OneAtATime, LinksCounted, RedrivesCounted, Ids
<1>4. CASE delete_target
  <2>1. UNCHANGED <<job, records, links, sent, proc, external>> /\ target' = "deleted"
    BY <1>4 DEF delete_target
  <2> QED
    BY <2>1 DEF BoundsInv, WorldTyped, ParentsOlder, OneAtATime, LinksCounted, RedrivesCounted, Ids
<1> QED
  BY <1>1, <1>2, <1>3, <1>4 DEF Next, Work

(* The bounds of the mirroring hold for any number of processes: as long   *)
(* as the target exists a transition is given up only after the whole      *)
(* budget of POSTs; a record has at most incident_sync_max_redrives        *)
(* redrives and, with its target, one with attempts left, up to the calls  *)
(* that race (redrive); and an incident has one link row, up to the first  *)
(* successes that race (_upsert_link).                                     *)
THEOREM BudgetsAreKept == Spec => []BudgetsKept
<1>1. SyncInv /\ BoundsInv => BudgetsKept
  <2> SUFFICES ASSUME SyncInv, BoundsInv PROVE BudgetsKept
    OBVIOUS
  <2>1. NotGivenUpEarly
    BY DEF SyncInv, RecordsBacked, NotGivenUpEarly, Spent
  <2>2. RedrivesBounded
    <3> SUFFICES ASSUME NEW r \in Ids
                 PROVE  /\ Cardinality(Children(r)) <= MaxRedrives + (Cardinality(Procs) - 1)
                        /\ target # "deleted" =>
                               Cardinality({c \in Children(r) : sent[c].posts < MaxAttempts}) <= 1 + (Cardinality(Procs) - 1)
      BY DEF RedrivesBounded
    <3>1. Children(r) = ChildrenIn(records, r)
      BY DEF Children, ChildrenIn, Ids
    <3>2. {c \in Children(r) : sent[c].posts < MaxAttempts} = FreshIn(records, sent, r)
      BY <3>1 DEF FreshIn
    <3>3. /\ Cardinality(ChildrenIn(records, r)) + Cardinality(RedrivingIn(proc, r)) <= MaxRedrives + Cardinality(Procs) - 1
          /\ target # "deleted" =>
                 Cardinality(FreshIn(records, sent, r)) + Cardinality(RedrivingIn(proc, r)) <= Cardinality(Procs)
      BY DEF BoundsInv, RedrivesCounted
    <3>4. /\ Cardinality(ChildrenIn(records, r)) \in Nat /\ Cardinality(RedrivingIn(proc, r)) \in Nat
          /\ Cardinality(FreshIn(records, sent, r)) \in Nat /\ Cardinality(Procs) \in Nat
      BY CountsAreNumbers
    <3>5. Cardinality(ChildrenIn(records, r)) <= MaxRedrives + (Cardinality(Procs) - 1)
      BY <3>3, <3>4
    <3>6. target # "deleted" => Cardinality(FreshIn(records, sent, r)) <= 1 + (Cardinality(Procs) - 1)
      BY <3>3, <3>4
    <3> QED
      BY <3>1, <3>2, <3>5, <3>6
  <2>3. LinksBounded
    <3>1. Len(links) \in Nat /\ (links = <<>> => Len(links) = 0)
      BY DEF SyncInv, Typed
    <3> QED
      BY <3>1, CountsAreNumbers DEF BoundsInv, LinksCounted, LinksBounded
  <2>4. TypeOK
    <3>1. row.state \in Active \cup {"none", "recovered"} /\ row.ack \in BOOLEAN /\ row.until \in {"null", "running", "over"}
      BY DEF SyncInv, Typed, Rows
    <3>2. \A r \in Ids : records[r].status \in {"pending", "synced", "failed"} /\ records[r].parent \in 0..(r - 1)
      <4>1. \A r \in Ids : records[r] \in Records
        BY DEF SyncInv, Typed, Ids
      <4> QED
        BY <4>1 DEF Records, Statuses, BoundsInv, ParentsOlder
    <3>3. links \in Seq(Ids) /\ DOMAIN sent = Ids
      <4>1. Len(links) \in Nat /\ DOMAIN links = 1..Len(links) /\ links \in [1..Len(links) -> Nat]
        BY DEF SyncInv, Typed
      <4>2. links \in [1..Len(links) -> Ids]
        BY <4>1 DEF SyncInv, LinksBacked
      <4>3. \A m \in Nat : [1..m -> Ids] \subseteq Seq(Ids)
        OBVIOUS
      <4>4. DOMAIN sent = Ids
        BY DEF SyncInv, Typed, Ids
      <4> QED
        BY <4>1, <4>2, <4>3, <4>4
    <3>4. ASSUME NEW p \in Procs
          PROVE  /\ DOMAIN proc[p] = DOMAIN Idle
                 /\ proc[p].pc \in {"idle", "observe", "recover", "flush", "apply",
                                    "export", "send", "settle", "check", "redrive"}
                 /\ proc[p].todo \subseteq Ids
      <4>1. proc[p] \in Requests /\ proc[p].todo \subseteq Ids
        BY DEF SyncInv, Typed, RequestsBacked, Backed
      <4>2. \A q \in Requests : /\ DOMAIN q = {"pc", "seen", "act", "next", "todo", "attempts", "status", "ok", "link", "target"}
                               /\ q.pc \in {"idle", "observe", "recover", "flush", "apply",
                                            "export", "send", "settle", "check", "redrive"}
        BY DEF Requests
      <4>3. Idle \in Requests
        BY IdleTyped
      <4> QED
        BY <4>1, <4>2, <4>3
    <3>5. /\ job \in Job /\ external \in {"none", "triggered", "acknowledged", "resolved"}
          /\ target \in {"healthy", "failing", "deleted"}
      BY DEF BoundsInv, WorldTyped, SyncInv, Typed, Targets
    <3> QED
      BY <3>1, <3>2, <3>3, <3>4, <3>5 DEF TypeOK
  <2> QED
    BY <2>1, <2>2, <2>3, <2>4 DEF BudgetsKept
<1> QED
  BY <1>1, InitHolds, NextKeeps, InitBounded, NextBounded, PTL DEF Spec

-----------------------------------------------------------------------------
(***************************************************************************)
(* The link of an incident to its external object, ExternalLinks.          *)
(* ObservedOnly is inductive: what the link says of the vendor is carried  *)
(* from the answer through the request that holds it to the row, and no    *)
(* failing request makes anything up on the way.                           *)
(***************************************************************************)
USE LinkAssumption
USE DEF Calls, AskingAt, NoLink, States, history

LEMMA NoLinkTyped == NoLink \in Links
BY DEF Links, Refs

LEMMA IdleAskTyped == NotAsking \in LinkRequests
BY NoLinkTyped DEF NotAsking, LinkRequests, Refs

(* A commit leaves every attribute as it is or as the request wants it.    *)
LEMMA WrittenTyped ==
  ASSUME NEW l \in Links, NEW seen \in Links, NEW new \in Links
  PROVE  /\ Written(l, seen, new) \in Links
         /\ Written(l, seen, new).ref = IF new.ref = seen.ref THEN l.ref ELSE new.ref
         /\ Written(l, seen, new).detached = IF new.detached = seen.detached THEN l.detached ELSE new.detached
         /\ Written(l, seen, new).exists = IF new.exists = seen.exists THEN l.exists ELSE new.exists
         /\ Written(l, seen, new).status = IF new.status = seen.status THEN l.status ELSE new.status
<1> DEFINE w == Written(l, seen, new)
<1>1. DOMAIN l = {"ref", "detached", "exists", "status", "checked", "stale"}
  BY DEF Links
<1>2. /\ w.ref = IF new.ref = seen.ref THEN l.ref ELSE new.ref
      /\ w.detached = IF new.detached = seen.detached THEN l.detached ELSE new.detached
      /\ w.exists = IF new.exists = seen.exists THEN l.exists ELSE new.exists
      /\ w.status = IF new.status = seen.status THEN l.status ELSE new.status
      /\ w.checked = IF new.checked = seen.checked THEN l.checked ELSE new.checked
      /\ w.stale = IF new.stale = seen.stale THEN l.stale ELSE new.stale
  BY <1>1 DEF Written
<1>3. w = [ref |-> w.ref, detached |-> w.detached, exists |-> w.exists, status |-> w.status,
           checked |-> w.checked, stale |-> w.stale]
  BY <1>1 DEF Written
<1> HIDE DEF w
<1>4. /\ w.ref \in {l.ref, new.ref} /\ w.detached \in {l.detached, new.detached} /\ w.exists \in {l.exists, new.exists}
      /\ w.status \in {l.status, new.status} /\ w.checked \in {l.checked, new.checked} /\ w.stale \in {l.stale, new.stale}
  BY <1>2
<1>5. w \in Links
  BY <1>3, <1>4 DEF Links
<1> QED
  BY <1>2, <1>5 DEF w

(* A process that moves to a well-formed request, with all else of the     *)
(* history kept or grown and the link left alone, keeps the invariant.     *)
LEMMA LinkMoveKeeps ==
  ASSUME ObservedOnly, NEW p \in Askers, NEW c \in LinkRequests, Move(p, c),
         local' \in {"open", "recovered"}, UNCHANGED <<link, held>>, vendor' \in [Refs -> States],
         found' \in [Refs -> SUBSET (States \cup {"unknown", "denied"})],
         \A r \in Refs : found[r] \subseteq found'[r],
         c.pc = "apply" => link # NoLink,
         c.pc \in {"renew", "detach", "relink"} => link # NoLink /\ c.seen.ref \in held,
         c.pc \in {"fetch", "store", "relink"} =>
            c.ref \in Refs /\ c.act \in {"none", "relink"} /\ (c.act = "none" => link # NoLink /\ c.ref \in held),
         c.pc \in {"store", "relink"} => c.snap = "error" \/ c.snap \in found'[c.ref],
         c.pc = "relink" => Confirmed(c.snap) /\ c.act = "relink"
  PROVE  ObservedOnly'
<1>1. LinkTypeOK'
  BY DEF ObservedOnly, LinkTypeOK, Move
<1>2. AnswersOnly'
  <2> SUFFICES ASSUME NEW r \in held
               PROVE  /\ found[r] \subseteq found'[r]
    BY DEF ObservedOnly, AnswersOnly
  <2> QED
    BY DEF ObservedOnly, LinkTypeOK
<1>3. \A q \in Askers : asking'[q] = IF q = p THEN c ELSE asking[q]
  BY DEF ObservedOnly, LinkTypeOK, Move
<1>4. LinkRequestsBacked'
  <2>1. link'.ref # "none" => link'.ref \in held'
    BY DEF ObservedOnly, LinkRequestsBacked
  <2>2. link'.ref = "none" => link' = NoLink
    BY DEF ObservedOnly, LinkRequestsBacked
  <2>3. ASSUME NEW q \in Askers
        PROVE  /\ asking'[q].pc = "apply" => link' # NoLink
               /\ asking'[q].pc \in {"renew", "detach", "relink"} => link' # NoLink /\ asking'[q].seen.ref \in held'
               /\ asking'[q].pc \in {"fetch", "store", "relink"} =>
                    /\ asking'[q].ref \in Refs /\ asking'[q].act \in {"none", "relink"}
                    /\ asking'[q].act = "none" => link' # NoLink /\ asking'[q].ref \in held'
               /\ asking'[q].pc \in {"store", "relink"} =>
                    asking'[q].snap = "error" \/ asking'[q].snap \in found'[asking'[q].ref]
               /\ asking'[q].pc = "relink" => Confirmed(asking'[q].snap) /\ asking'[q].act = "relink"
    <3>1. CASE q = p
      BY <1>3, <3>1
    <3>2. CASE q # p
      BY <1>3, <3>2 DEF ObservedOnly, LinkRequestsBacked
    <3> QED
      BY <3>1, <3>2
  <2> QED
    BY <2>1, <2>2, <2>3 DEF LinkRequestsBacked, Confirmed
<1> QED
  BY <1>1, <1>2, <1>4 DEF ObservedOnly

(* A process that ends and may write the link keeps it: the new row has a  *)
(* reference it has had and says what the vendor has answered.             *)
LEMMA LinkWriteKeeps ==
  ASSUME ObservedOnly, NEW p \in Askers, asking' = asking \/ Move(p, NotAsking),
         UNCHANGED <<local, vendor, found>>,
         link' \in Links, held \subseteq held', held' \subseteq Refs,
         link'.ref \in held', AnswersOnly'
  PROVE  ObservedOnly'
<1>1. asking' \in [Askers -> LinkRequests]
  BY IdleAskTyped DEF ObservedOnly, LinkTypeOK, Move
<1>2. LinkTypeOK'
  BY <1>1 DEF ObservedOnly, LinkTypeOK
<1>3. \A q \in Askers : asking'[q] = asking[q] \/ asking'[q] = NotAsking
  BY DEF ObservedOnly, LinkTypeOK, Move
<1>4. LinkRequestsBacked'
  <2>1. link'.ref # "none" /\ link' # NoLink
    BY DEF Refs
  <2>2. NotAsking.pc = "idle"
    BY DEF NotAsking
  <2> QED
    BY <1>3, <2>1, <2>2 DEF ObservedOnly, LinkRequestsBacked, LinkTypeOK, Confirmed
<1> QED
  BY <1>2, <1>4 DEF ObservedOnly

(* A link that is renewed, detached or aged says what it said before.      *)
LEMMA SameAnswers ==
  ASSUME ObservedOnly, held \subseteq held', UNCHANGED found,
         link'.exists = link.exists, link'.status = link.status
  PROVE  AnswersOnly'
BY DEF ObservedOnly, AnswersOnly

(* A link that exists has a reference that it has had.                     *)
LEMMA LinkIsHeld ==
  ASSUME ObservedOnly, link # NoLink
  PROVE  link.ref \in held /\ link.ref \in Refs
BY DEF ObservedOnly, LinkRequestsBacked, LinkTypeOK

(* What a refresh writes is an answer it holds, or nothing.                *)
LEMMA RefreshedAnswers ==
  ASSUME ObservedOnly, NEW p \in Askers, Store(p)
  PROVE  link' \in Links /\ link'.ref = link.ref /\ link'.detached = link.detached /\ AnswersOnly'
<1> DEFINE snap == asking[p].snap
           seen == asking[p].seen
           obs == Observed(snap)
           new == IF snap = "error" /\ obs.exists # "no" THEN seen
                  ELSE [seen EXCEPT !.exists = obs.exists, !.status = obs.status]
           w == Written(link, seen, new)
<1>1. asking[p] \in LinkRequests /\ seen \in Links /\ link \in Links
  BY DEF ObservedOnly, LinkTypeOK, LinkRequests
<1>2. asking[p].ref \in held /\ (snap = "error" \/ snap \in found[asking[p].ref])
  BY DEF ObservedOnly, LinkRequestsBacked, Store
<1>3. snap \in States \cup {"unknown", "denied", "error"}
  BY <1>1, <1>2 DEF ObservedOnly, LinkTypeOK
<1>4. link' = [w EXCEPT !.checked = "lately"] /\ UNCHANGED <<held, found>>
  BY DEF Store, Refreshed
<1>5. /\ obs.exists \in {"yes", "no"} /\ obs.status \in {"open", "acknowledged", "resolved", "unknown", "missing", "error"}
      /\ snap # "error" => obs.status # "error"
      /\ snap = "error" => obs.exists # "no"
      /\ obs.exists = "no" => snap \in {"gone", "denied"}
      /\ obs.status \in States => obs.status = snap
  BY <1>3 DEF Observed
<1> HIDE DEF obs
<1>6. /\ new \in Links /\ new.ref = seen.ref /\ new.detached = seen.detached
      /\ new.exists = seen.exists \/ new.exists = obs.exists
      /\ new.status = seen.status \/ new.status = obs.status
  <2>1. CASE snap = "error"
    BY <1>1, <1>5, <2>1
  <2>2. CASE snap # "error"
    <3>1. new = [seen EXCEPT !.exists = obs.exists, !.status = obs.status]
      BY <2>2
    <3>2. obs.exists \in {"yes", "no"} /\ obs.status \in {"open", "acknowledged", "resolved", "unknown", "missing"}
      BY <1>5, <2>2
    <3> HIDE DEF new, seen, snap
    <3> QED
      BY <1>1, <3>1, <3>2 DEF Links
  <2> QED
    BY <2>1, <2>2
<1> HIDE DEF new
<1>7. /\ w \in Links /\ w.ref = link.ref /\ w.detached = link.detached
      /\ w.exists = link.exists \/ w.exists = obs.exists
      /\ w.status = link.status \/ w.status = obs.status
  BY <1>1, <1>6, WrittenTyped
<1> HIDE DEF w
<1>8. /\ link' \in Links /\ link'.ref = w.ref /\ link'.detached = w.detached
      /\ link'.exists = w.exists /\ link'.status = w.status
  BY <1>4, <1>7 DEF Links
<1>9. AnswersOnly'
  <2>1. ASSUME link'.exists = "no" PROVE \E r \in held : found[r] \cap {"gone", "denied"} # {}
    <3>1. CASE link.exists = "no"
      BY <3>1 DEF ObservedOnly, AnswersOnly
    <3>2. CASE link.exists # "no"
      <4>1. snap \in {"gone", "denied"}
        BY <1>5, <1>7, <1>8, <2>1, <3>2
      <4>2. snap \in found[asking[p].ref]
        BY <1>2, <4>1
      <4> QED
        BY <1>2, <4>1, <4>2
    <3> QED
      BY <3>1, <3>2
  <2>2. ASSUME link'.status \in States PROVE \E r \in held : link'.status \in found[r]
    <3>1. CASE link'.status = link.status
      BY <2>2, <3>1 DEF ObservedOnly, AnswersOnly
    <3>2. CASE link'.status = obs.status
      <4>1. link'.status = snap /\ snap # "error"
        BY <1>5, <2>2, <3>2
      <4> QED
        BY <1>2, <4>1
    <3> QED
      BY <1>7, <1>8, <3>1, <3>2
  <2> QED
    BY <1>4, <2>1, <2>2 DEF AnswersOnly
<1> QED
  BY <1>7, <1>8, <1>9

LEMMA LinkInitHolds ==
  ASSUME LinkInit
  PROVE  ObservedOnly
<1>1. LinkTypeOK
  BY NoLinkTyped, IdleAskTyped DEF LinkInit, LinkTypeOK, Refs
<1>2. AnswersOnly
  BY DEF LinkInit, AnswersOnly
<1>3. LinkRequestsBacked
  BY DEF LinkInit, LinkRequestsBacked, NotAsking
<1> QED
  BY <1>1, <1>2, <1>3 DEF ObservedOnly

(* The commits.                                                            *)
LEMMA RenewKeeps ==
  ASSUME ObservedOnly, NEW p \in Askers, Renew(p)
  PROVE  ObservedOnly' /\ (link.detached => link'.detached)
<1> DEFINE seen == asking[p].seen
           w == Written(link, seen, Upserted(seen))
<1>1. /\ link' = [w EXCEPT !.stale = FALSE] /\ held' = held \cup {link'.ref} /\ Move(p, NotAsking)
      /\ UNCHANGED <<local, vendor, found>>
  BY DEF Renew
<1>2. link \in Links /\ seen \in Links /\ held \subseteq Refs /\ link # NoLink
  BY DEF ObservedOnly, LinkTypeOK, LinkRequests, LinkRequestsBacked, Renew
<1>3. link.ref \in Refs
  BY <1>2, LinkIsHeld
<1>4. /\ Upserted(seen) \in Links /\ Upserted(seen).ref = Own /\ Upserted(seen).detached = seen.detached
      /\ Upserted(seen).exists = seen.exists /\ Upserted(seen).status = seen.status
  BY <1>2 DEF Upserted, Links, Refs
<1>5. w \in Links /\ w.ref \in {link.ref, Own} /\ w.detached = link.detached /\ w.exists = link.exists /\ w.status = link.status
  BY <1>2, <1>4, WrittenTyped
<1> HIDE DEF seen, w
<1>6. /\ link' \in Links /\ link'.ref \in Refs /\ link'.detached = link.detached
      /\ link'.exists = link.exists /\ link'.status = link.status
  BY <1>1, <1>3, <1>5 DEF Links, Refs
<1>7. AnswersOnly'
  BY <1>1, <1>6, SameAnswers
<1>8. held \subseteq held' /\ held' \subseteq Refs /\ link'.ref \in held'
  BY <1>1, <1>2, <1>6
<1>9. ObservedOnly'
  BY <1>1, <1>6, <1>7, <1>8, LinkWriteKeeps
<1> QED
  BY <1>6, <1>9

LEMMA DetachStoreKeeps ==
  ASSUME ObservedOnly, NEW p \in Askers, DetachStore(p)
  PROVE  ObservedOnly' /\ (link.detached => link'.detached)
<1> DEFINE seen == asking[p].seen
           new == [seen EXCEPT !.detached = TRUE]
<1>1. link' = Written(link, seen, new) /\ Move(p, NotAsking) /\ UNCHANGED <<local, vendor, held, found>>
  BY DEF DetachStore
<1>2. link \in Links /\ seen \in Links /\ held \subseteq Refs /\ link # NoLink
  BY DEF ObservedOnly, LinkTypeOK, LinkRequests, LinkRequestsBacked, DetachStore
<1>3. link.ref \in held
  BY <1>2, LinkIsHeld
<1>4. /\ new \in Links /\ new.ref = seen.ref /\ new.detached = TRUE
      /\ new.exists = seen.exists /\ new.status = seen.status
  BY <1>2 DEF Links
<1> HIDE DEF seen, new
<1>5. /\ link' \in Links /\ link'.ref = link.ref /\ (link.detached => link'.detached)
      /\ link'.exists = link.exists /\ link'.status = link.status
  BY <1>1, <1>2, <1>4, WrittenTyped
<1>6. AnswersOnly'
  BY <1>1, <1>5, SameAnswers
<1> QED
  BY <1>1, <1>2, <1>3, <1>5, <1>6, LinkWriteKeeps

(* The commit of a relink may leave the reference, the existence or the    *)
(* status to another request: each of them was answered.                   *)
LEMMA RelinkStoreKeeps ==
  ASSUME ObservedOnly, NEW p \in Askers, RelinkStore(p)
  PROVE  ObservedOnly'
<1> DEFINE seen == asking[p].seen
           ref == asking[p].ref
           snap == asking[p].snap
           new == Relinked(seen, ref, snap)
           w == Written(link, seen, new)
<1>1. /\ link' = [w EXCEPT !.checked = "lately"] /\ held' = held \cup {link'.ref} /\ Move(p, NotAsking)
      /\ UNCHANGED <<local, vendor, found>>
  BY DEF RelinkStore
<1>2. /\ link \in Links /\ seen \in Links /\ held \subseteq Refs /\ link # NoLink
      /\ found \in [Refs -> SUBSET (States \cup {"unknown", "denied"})]
  BY DEF ObservedOnly, LinkTypeOK, LinkRequests, LinkRequestsBacked, RelinkStore
<1>3. link.ref \in Refs
  BY <1>2, LinkIsHeld
<1>4. seen.ref \in held /\ ref \in Refs /\ snap \in found[ref] /\ snap \in {"open", "acknowledged", "resolved", "unknown"}
  <2>1. /\ seen.ref \in held /\ ref \in Refs /\ Confirmed(snap)
        /\ snap = "error" \/ snap \in found[ref]
    BY DEF ObservedOnly, LinkRequestsBacked, RelinkStore
  <2> QED
    BY <1>2, <2>1 DEF Confirmed
<1> HIDE DEF seen, ref, snap
<1>5. new \in Links /\ new.ref = ref /\ new.exists = "yes" /\ new.status = snap
  BY <1>2, <1>4 DEF Relinked, Links
<1> HIDE DEF new
<1>6. /\ w \in Links /\ w.ref = (IF ref = seen.ref THEN link.ref ELSE ref)
      /\ w.exists \in {link.exists, "yes"} /\ w.status \in {link.status, snap}
  BY <1>2, <1>5, WrittenTyped
<1> HIDE DEF w
<1>7. link' \in Links /\ link'.ref = w.ref /\ link'.exists = w.exists /\ link'.status = w.status
  BY <1>1, <1>6 DEF Links
<1>8. link'.ref \in Refs /\ ref \in held'
  BY <1>1, <1>3, <1>4, <1>6, <1>7
<1>9. AnswersOnly'
  <2>1. ASSUME link'.exists = "no" PROVE \E r \in held' : found[r] \cap {"gone", "denied"} # {}
    BY <1>1, <1>6, <1>7, <2>1 DEF ObservedOnly, AnswersOnly
  <2>2. ASSUME link'.status \in States PROVE \E r \in held' : link'.status \in found[r]
    <3>1. CASE link'.status = link.status
      BY <1>1, <2>2, <3>1 DEF ObservedOnly, AnswersOnly
    <3>2. CASE link'.status = snap
      BY <1>4, <1>8, <3>2
    <3> QED
      BY <1>6, <1>7, <3>1, <3>2
  <2> QED
    BY <1>1, <2>1, <2>2 DEF AnswersOnly
<1> QED
  BY <1>1, <1>2, <1>7, <1>8, <1>9, LinkWriteKeeps

(* The look-ups of a sync and of a relink: the row is read, or inserted.   *)
LEMMA UpsertKeeps ==
  ASSUME ObservedOnly, NEW p \in Askers, Upsert(p)
  PROVE  ObservedOnly'
<1>t. /\ link \in Links /\ held \subseteq Refs /\ local \in {"open", "recovered"} /\ vendor \in [Refs -> States]
      /\ found \in [Refs -> SUBSET (States \cup {"unknown", "denied"})]
  BY DEF ObservedOnly, LinkTypeOK
<1>w. UNCHANGED <<local, vendor, found>>
  BY DEF Upsert
<1>1. CASE link = NoLink
  <2>1. link' = Upserted(NoLink) /\ held' = held \cup {Own} /\ Move(p, NotAsking)
    BY <1>1 DEF Upsert
  <2>2. /\ link' \in Links /\ link'.ref = Own
        /\ link'.exists = link.exists /\ link'.status = link.status
    BY <1>1, <1>t, <2>1 DEF Upserted, Links, Refs
  <2>3. AnswersOnly'
    BY <1>w, <2>1, <2>2, SameAnswers
  <2> QED
    BY <1>t, <1>w, <2>1, <2>2, <2>3, LinkWriteKeeps DEF Refs
<1>2. CASE link # NoLink
  <2> DEFINE c == [NotAsking EXCEPT !.pc = "renew", !.seen = link]
  <2>1. Move(p, c) /\ UNCHANGED <<link, held>>
    BY <1>2 DEF Upsert
  <2>2. c \in LinkRequests /\ c.pc = "renew" /\ c.seen = link
    BY <1>t, NoLinkTyped DEF LinkRequests, NotAsking, Refs
  <2> HIDE DEF c
  <2> QED
    BY <1>2, <1>t, <1>w, <2>1, <2>2, LinkIsHeld, LinkMoveKeeps
<1> QED
  BY <1>1, <1>2

LEMMA RelinkFindKeeps ==
  ASSUME ObservedOnly, NEW p \in Askers, RelinkFind(p)
  PROVE  ObservedOnly'
<1> DEFINE snap == asking[p].snap
           ref == asking[p].ref
<1>t. /\ link \in Links /\ held \subseteq Refs /\ local \in {"open", "recovered"} /\ vendor \in [Refs -> States]
      /\ found \in [Refs -> SUBSET (States \cup {"unknown", "denied"})] /\ asking[p] \in LinkRequests
  BY DEF ObservedOnly, LinkTypeOK
<1>w. UNCHANGED <<local, vendor, found>>
  BY DEF RelinkFind
<1>1. ref \in Refs /\ (snap = "error" \/ snap \in found[ref]) /\ asking[p].act = "relink"
  BY DEF RelinkFind, ObservedOnly, LinkRequestsBacked
<1>2. CASE ~Confirmed(snap)
  <2>1. UNCHANGED <<link, held>> /\ Move(p, NotAsking)
    BY <1>2 DEF RelinkFind
  <2> QED
    BY <1>t, <1>w, <2>1, IdleAskTyped, LinkMoveKeeps DEF NotAsking
<1>3. CASE Confirmed(snap) /\ link = NoLink
  <2>1. link' = Relinked(NoLink, ref, snap) /\ held' = held \cup {ref} /\ Move(p, NotAsking)
    BY <1>3 DEF RelinkFind
  <2>2. snap \in found[ref] /\ snap \in {"open", "acknowledged", "resolved", "unknown"}
    BY <1>1, <1>3, <1>t DEF Confirmed
  <2>3. link' \in Links /\ link'.ref = ref /\ link'.exists = "yes" /\ link'.status = snap
    BY <1>1, <2>1, <2>2, NoLinkTyped DEF Relinked, Links
  <2>4. AnswersOnly'
    BY <1>w, <2>1, <2>2, <2>3 DEF AnswersOnly
  <2> QED
    BY <1>1, <1>t, <1>w, <2>1, <2>3, <2>4, LinkWriteKeeps
<1>4. CASE Confirmed(snap) /\ link # NoLink
  <2> DEFINE c == [asking[p] EXCEPT !.pc = "relink", !.seen = link]
  <2>1. Move(p, c) /\ UNCHANGED <<link, held>>
    BY <1>4 DEF RelinkFind
  <2>2. c \in LinkRequests /\ c.pc = "relink" /\ c.seen = link /\ c.ref = ref /\ c.snap = snap /\ c.act = "relink"
    BY <1>1, <1>t DEF LinkRequests
  <2> HIDE DEF c, snap, ref
  <2> QED
    BY <1>1, <1>4, <1>t, <1>w, <2>1, <2>2, LinkIsHeld, LinkMoveKeeps
<1> QED
  BY <1>2, <1>3, <1>4

(* One step per action; what only moves a process is LinkMoveKeeps.        *)
LEMMA LinkNextKeeps ==
  ASSUME ObservedOnly, [LinkNext]_linkVars
  PROVE  ObservedOnly'
<1>t. /\ link \in Links /\ local \in {"open", "recovered"} /\ vendor \in [Refs -> States]
      /\ asking \in [Askers -> LinkRequests] /\ held \subseteq Refs
      /\ found \in [Refs -> SUBSET (States \cup {"unknown", "denied"})]
  BY DEF ObservedOnly, LinkTypeOK
<1>a. Attached(link) => link # NoLink /\ link.ref \in held /\ link.ref \in Refs
  BY <1>t DEF Attached, ObservedOnly, LinkRequestsBacked, Links
<1>1. ASSUME NEW p \in Askers, Transition(p) PROVE ObservedOnly'
  <2> DEFINE c == [NotAsking EXCEPT !.pc = "mirror", !.act = local']
  <2>1. local' \in {"open", "recovered"} /\ Move(p, c) /\ UNCHANGED <<link, vendor, held, found>>
    BY <1>1 DEF Transition
  <2>2. c \in LinkRequests /\ c.pc = "mirror"
    BY <2>1, NoLinkTyped DEF LinkRequests, NotAsking
  <2> HIDE DEF c
  <2> QED
    BY <1>t, <2>1, <2>2, LinkMoveKeeps
<1>2. ASSUME NEW p \in Askers, Push(p) \/ ExternalAction(p) \/ ApplyOffer(p) PROVE ObservedOnly'
  <2>1. PICK c \in LinkRequests : Move(p, c) /\ c.pc \in {"mirror", "apply"} /\ (c.pc = "apply" => link # NoLink)
    <3>1. CASE Push(p)
      <4>1. [NotAsking EXCEPT !.pc = "mirror", !.act = local] \in LinkRequests
        BY <1>t, NoLinkTyped DEF LinkRequests, NotAsking
      <4> QED
        BY <3>1, <4>1 DEF Push, NotAsking
    <3>2. CASE ExternalAction(p)
      <4>1. /\ [NotAsking EXCEPT !.pc = "mirror", !.act = "recovered"] \in LinkRequests
            /\ [NotAsking EXCEPT !.pc = "mirror", !.act = "open"] \in LinkRequests
            /\ [NotAsking EXCEPT !.pc = "mirror", !.act = "acknowledged"] \in LinkRequests
        BY NoLinkTyped DEF LinkRequests, NotAsking
      <4> QED
        BY <3>2, <4>1 DEF ExternalAction, NotAsking
    <3>3. CASE ApplyOffer(p)
      <4>1. Offered \in {"accept_missing", "accept_resolved"} /\ Attached(link)
        BY <3>3 DEF ApplyOffer, Offered
      <4>2. [NotAsking EXCEPT !.pc = "apply", !.act = Offered] \in LinkRequests
        BY <4>1, NoLinkTyped DEF LinkRequests, NotAsking
      <4> QED
        BY <1>a, <3>3, <4>1, <4>2 DEF ApplyOffer, NotAsking
    <3> QED
      BY <1>2, <3>1, <3>2, <3>3
  <2>2. UNCHANGED <<local, link, vendor, held, found>>
    BY <1>2 DEF Push, ExternalAction, ApplyOffer
  <2> QED
    BY <1>t, <2>1, <2>2, LinkMoveKeeps
<1>3. ASSUME NEW p \in Askers, Refresh(p) \/ Reconcile(p) PROVE ObservedOnly'
  <2> DEFINE c == [NotAsking EXCEPT !.pc = "fetch", !.seen = link, !.ref = link.ref]
  <2>1. Move(p, c) /\ Attached(link) /\ UNCHANGED <<local, link, vendor, held, found>>
    BY <1>3 DEF Refresh, Reconcile
  <2>2. c \in LinkRequests /\ c.pc = "fetch" /\ c.ref = link.ref /\ c.act = "none"
    BY <1>t DEF LinkRequests, NotAsking, Links
  <2> HIDE DEF c
  <2> QED
    BY <1>a, <1>t, <2>1, <2>2, LinkMoveKeeps
<1>4. ASSUME NEW p \in Askers, Relink(p) PROVE ObservedOnly'
  <2>1. PICK r \in Refs : Move(p, [NotAsking EXCEPT !.pc = "fetch", !.ref = r, !.act = "relink"])
    BY <1>4 DEF Relink
  <2> DEFINE c == [NotAsking EXCEPT !.pc = "fetch", !.ref = r, !.act = "relink"]
  <2>2. c \in LinkRequests /\ c.pc = "fetch" /\ c.ref = r /\ c.act = "relink"
    BY NoLinkTyped DEF LinkRequests, NotAsking
  <2>3. Move(p, c) /\ UNCHANGED <<local, link, vendor, held, found>>
    BY <1>4, <2>1 DEF Relink
  <2> HIDE DEF c
  <2> QED
    BY <1>t, <2>2, <2>3, LinkMoveKeeps
<1>5. ASSUME NEW p \in Askers, Fetch(p) PROVE ObservedOnly'
  <2>1. PICK snap \in States \cup {"unknown", "denied", "error"} : Answer(p, snap)
    BY <1>t, <1>5 DEF Fetch, ObservedOnly, LinkRequestsBacked
  <2> DEFINE c == [asking[p] EXCEPT !.pc = "store", !.snap = snap]
  <2>2. /\ asking[p] \in LinkRequests /\ asking[p].ref \in Refs /\ asking[p].act \in {"none", "relink"}
        /\ asking[p].act = "none" => link # NoLink /\ asking[p].ref \in held
    BY <1>t, <1>5 DEF Fetch, ObservedOnly, LinkRequestsBacked
  <2>3. /\ c \in LinkRequests /\ c.pc = "store" /\ c.snap = snap /\ c.ref = asking[p].ref /\ c.act = asking[p].act
    BY <2>2 DEF LinkRequests
  <2>4. /\ Move(p, c) /\ UNCHANGED <<local, link, vendor, held>>
        /\ found' = IF snap = "error" THEN found ELSE [found EXCEPT ![asking[p].ref] = @ \cup {snap}]
    BY <1>5, <2>1 DEF Fetch, Answer
  <2>5. /\ found' \in [Refs -> SUBSET (States \cup {"unknown", "denied"})]
        /\ \A r \in Refs : found[r] \subseteq found'[r]
        /\ snap = "error" \/ snap \in found'[c.ref]
    BY <1>t, <2>2, <2>3, <2>4
  <2> HIDE DEF c
  <2> QED
    BY <1>t, <2>2, <2>3, <2>4, <2>5, LinkMoveKeeps
<1>6. ASSUME NEW p \in Askers, Mirror(p) PROVE ObservedOnly'
  <2>1. PICK c \in LinkRequests : Move(p, c) /\ c.pc \in {"idle", "upsert"}
    <3>1. NotAsking \in LinkRequests /\ [NotAsking EXCEPT !.pc = "upsert"] \in LinkRequests
      BY NoLinkTyped, IdleAskTyped DEF LinkRequests, NotAsking
    <3> QED
      BY <1>6, <3>1 DEF Mirror, NotAsking
  <2>2. vendor' \in [Refs -> States]
    <3>1. \A was \in States : \A act : Taken(was, act) \in States
      BY DEF Taken
    <3>2. vendor' = vendor \/ vendor' = [vendor EXCEPT ![Own] = Taken(@, asking[p].act)]
      BY <1>6 DEF Mirror
    <3> QED
      BY <1>t, <3>1, <3>2
  <2>3. UNCHANGED <<local, link, held, found>>
    BY <1>6 DEF Mirror
  <2> QED
    BY <1>t, <2>1, <2>2, <2>3, LinkMoveKeeps
<1>7. ASSUME NEW p \in Askers, Store(p) PROVE ObservedOnly'
  <2>1. link # NoLink /\ UNCHANGED <<local, vendor, held, found>> /\ Move(p, NotAsking)
    BY <1>7 DEF Store, ObservedOnly, LinkRequestsBacked
  <2>2. link' \in Links /\ link'.ref = link.ref /\ AnswersOnly'
    BY <1>7, RefreshedAnswers
  <2> QED
    BY <1>t, <2>1, <2>2, LinkIsHeld, LinkWriteKeeps
<1>8. ASSUME NEW p \in Askers, Detach(p) \/ AcceptMissing(p) PROVE ObservedOnly'
  <2> DEFINE c == [NotAsking EXCEPT !.pc = "detach", !.seen = link]
  <2>1. link # NoLink /\ Move(p, c) /\ UNCHANGED <<local, link, vendor, held, found>>
    BY <1>8 DEF Detach, AcceptMissing, ObservedOnly, LinkRequestsBacked
  <2>2. c \in LinkRequests /\ c.pc = "detach" /\ c.seen = link
    BY <1>t DEF LinkRequests, NotAsking
  <2> HIDE DEF c
  <2> QED
    BY <1>t, <2>1, <2>2, LinkIsHeld, LinkMoveKeeps
<1>9. ASSUME NEW p \in Askers, Upsert(p) \/ Renew(p) \/ DetachStore(p) \/ RelinkFind(p) \/ RelinkStore(p) PROVE ObservedOnly'
  BY <1>9, UpsertKeeps, RenewKeeps, DetachStoreKeeps, RelinkFindKeeps, RelinkStoreKeeps
<1>10. ASSUME NEW p \in Askers, AcceptResolved(p) PROVE ObservedOnly'
  <2>1. PICK c \in LinkRequests : Move(p, c) /\ c.pc \in {"idle", "mirror"}
    <3>1. NotAsking \in LinkRequests /\ [NotAsking EXCEPT !.pc = "mirror", !.act = "recovered"] \in LinkRequests
      BY NoLinkTyped, IdleAskTyped DEF LinkRequests, NotAsking
    <3> QED
      BY <1>10, <3>1 DEF AcceptResolved, NotAsking
  <2>2. local' = "recovered" /\ UNCHANGED <<link, vendor, held, found>>
    BY <1>10 DEF AcceptResolved
  <2> QED
    BY <1>t, <2>1, <2>2, LinkMoveKeeps
<1>11. CASE Turn
  <2>1. UNCHANGED <<local, link, asking, held, found>>
    BY <1>11 DEF Turn
  <2>2. vendor' \in [Refs -> States]
    BY <1>t, <1>11 DEF Turn
  <2> QED
    <3>1. LinkTypeOK'
      BY <1>t, <2>1, <2>2 DEF LinkTypeOK
    <3>2. AnswersOnly'
      BY <2>1 DEF ObservedOnly, AnswersOnly
    <3>3. LinkRequestsBacked'
      BY <2>1 DEF ObservedOnly, LinkRequestsBacked, Confirmed
    <3> QED
      BY <3>1, <3>2, <3>3 DEF ObservedOnly
<1>12. CASE Age \/ GoStale
  <2>1. /\ link # NoLink /\ UNCHANGED <<local, vendor, asking, held, found>>
        /\ link' = [link EXCEPT !.checked = "aged"] \/ link' = [link EXCEPT !.stale = TRUE]
    BY <1>12 DEF Age, GoStale
  <2>2. link' \in Links /\ link'.ref = link.ref /\ link'.exists = link.exists /\ link'.status = link.status
    <3>1. CASE link' = [link EXCEPT !.checked = "aged"]
      BY <1>t, <3>1 DEF Links
    <3>2. CASE link' = [link EXCEPT !.stale = TRUE]
      BY <1>t, <3>2 DEF Links
    <3> QED
      BY <2>1, <3>1, <3>2
  <2>3. link.ref \in held
    BY <2>1, LinkIsHeld
  <2>4. AnswersOnly'
    BY <2>1, <2>2, SameAnswers
  <2>5. LinkTypeOK'
    BY <1>t, <2>1, <2>2 DEF LinkTypeOK
  <2>6. LinkRequestsBacked'
    <3>1. link'.ref # "none" /\ link' # NoLink /\ link'.ref \in held
      BY <2>2, <2>3, <1>t DEF Refs
    <3> QED
      BY <2>1, <3>1 DEF ObservedOnly, LinkRequestsBacked, Confirmed
  <2> QED
    BY <2>4, <2>5, <2>6 DEF ObservedOnly
<1>13. CASE UNCHANGED linkVars
  BY <1>13 DEF linkVars, ObservedOnly, LinkTypeOK, AnswersOnly, LinkRequestsBacked
<1> QED
  BY <1>1, <1>2, <1>3, <1>4, <1>5, <1>6, <1>7, <1>8, <1>9, <1>10, <1>11, <1>12, <1>13 DEF LinkNext, Proceeds

(* What a link says of the vendor was answered by the vendor, for any      *)
(* number of processes, references, calls and failing requests.            *)
THEOREM LinksObservedOnly == LinkSpec => []ObservedOnly
<1>1. LinkInit => ObservedOnly
  BY LinkInitHolds
<1>2. ObservedOnly /\ [LinkNext]_linkVars => ObservedOnly'
  BY LinkNextKeeps
<1> QED
  BY <1>1, <1>2, PTL DEF LinkSpec

(* Only the commit of a relink takes up a detached link, to a reference   *)
(* that the vendor has confirmed; every other step leaves it detached.     *)
THEOREM LinksDetachedStay == LinkSpec => DetachedStays
<1>1. ASSUME ObservedOnly, [LinkNext]_linkVars, link.detached, ~link'.detached
      PROVE  \E p \in Askers : /\ AskingAt(p, "relink") /\ asking'[p] = NotAsking
                               /\ \E snap \in found[asking[p].ref] : Confirmed(snap)
  <2>1. link \in Links /\ link # NoLink
    BY <1>1 DEF ObservedOnly, LinkTypeOK
  <2>2. PICK p \in Askers : RelinkStore(p)
    <3>1. ~UNCHANGED link
      BY <1>1
    <3>2. ASSUME NEW p \in Askers PROVE ~Renew(p) /\ ~DetachStore(p) /\ ~Store(p)
      BY <1>1, RenewKeeps, DetachStoreKeeps, RefreshedAnswers
    <3>3. ASSUME NEW p \in Askers PROVE ~Upsert(p) /\ ~RelinkFind(p)
      BY <2>1, <3>1 DEF Upsert, RelinkFind
    <3>4. ~Age /\ ~GoStale
      BY <1>1, <2>1 DEF Age, GoStale, Links
    <3>5. \A p \in Askers : ~(Transition(p) \/ Push(p) \/ ExternalAction(p) \/ Refresh(p) \/ Reconcile(p)
                            \/ Detach(p) \/ Relink(p) \/ ApplyOffer(p) \/ Mirror(p) \/ Fetch(p)
                            \/ AcceptMissing(p) \/ AcceptResolved(p))
      BY <3>1 DEF Transition, Push, ExternalAction, Refresh, Reconcile, Detach, Relink, ApplyOffer,
                  Mirror, Fetch, AcceptMissing, AcceptResolved
    <3>6. ~Turn /\ ~UNCHANGED linkVars
      BY <3>1 DEF Turn, linkVars
    <3> QED
      BY <1>1, <3>2, <3>3, <3>4, <3>5, <3>6 DEF LinkNext, Proceeds
  <2> DEFINE snap == asking[p].snap
             ref == asking[p].ref
  <2>3. AskingAt(p, "relink") /\ Move(p, NotAsking)
    BY <2>2 DEF RelinkStore
  <2>4. Confirmed(snap) /\ snap \in found[ref]
    BY <1>1, <2>3 DEF ObservedOnly, LinkRequestsBacked, Confirmed
  <2>5. asking'[p] = NotAsking
    BY <1>1, <2>3 DEF Move, ObservedOnly, LinkTypeOK
  <2> QED
    BY <2>3, <2>4, <2>5
<1> QED
  BY <1>1, LinksObservedOnly, PTL DEF LinkSpec, DetachedStays
=============================================================================
