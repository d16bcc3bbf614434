----------------------- MODULE IncidentTargetsProofs ------------------------
(***************************************************************************)
(* Proofs about IncidentTargets for any number of server processes and any *)
(* bounds of edits, checks and turns of the endpoint.                      *)
(*                                                                         *)
(* How far a target is trusted is computed from evidence that two columns  *)
(* of time stamps and two of flags hold, and a commit writes only what     *)
(* differs from the row it read.  The invariant says what such a commit    *)
(* can leave behind: unless a check and a change overtook each other, a    *)
(* process about to store a new secret has read every piece of evidence    *)
(* there is, and so takes all of it away.                                  *)
(***************************************************************************)
EXTENDS IncidentTargets, FiniteSetTheorems, TLAPS

USE TargetAssumption

-----------------------------------------------------------------------------
(* The invariant *)

Answers == {"ok", "auth", "other"}
Errors == {"none", "auth", "other"}
Checks == {"none", "config", "connectivity", "test"}
Rows == [kind : Kinds, profile : Profiles \cup {"null"}, tuned : Actions \cup Fields,
         override : {"unset", "on", "off"}, enabled : BOOLEAN, secret : Nat, validated : BOOLEAN,
         tested : BOOLEAN, success : Nat, failure : Nat, error : Errors, check : Checks, aged : BOOLEAN]
Seens == [validated : BOOLEAN, tested : BOOLEAN, success : Nat, failure : Nat, error : Errors, check : Checks]
Calls == [pc : {"idle", "validate", "probe", "test", "post", "reload", "store", "edit"}, seen : Seens, now : Nat,
          change : Changes \cup {<<"none", "none">>}, result : Answers \cup {"none"}, check : Checks, secret : Nat]
Bounds == [edits : Nat, changes : SUBSET Changes, calls : Nat, turns : Nat,
           created : SUBSET ((Profiles \cup {"null"}) \X BOOLEAN \X (Actions \cup Fields))]

(* A check that has its answer has a stamp for it; an edit has a change.   *)
Ready(c) ==
    /\ c.pc \in {"probe", "reload", "store"} => c.now # 0
    /\ c.pc = "edit" => c.change \in Changes

Typed ==
    /\ target \in Rows /\ deleted \in BOOLEAN /\ endpoint \in Answers
    /\ proc \in [Procs -> Calls] /\ \A q \in Procs : Ready(proc[q])
    /\ trust \in [secret : Nat, raced : BOOLEAN] /\ budget \in Bounds

(* The stamps in use, and their order. *)
Stamps(t, ps) == ({t.success, t.failure} \cup {ps[q].now : q \in Procs}) \ {0}
Rank(used, v) == Cardinality({u \in used : u <= v})

Dense(t, ps) == \A v \in Stamps(t, ps) : v <= Cardinality(Stamps(t, ps))

(* Every piece of evidence was obtained with the secret the row has, and   *)
(* a check that left a flag left a stamp.                                  *)
Supported(t, secret) ==
    /\ t.success # 0 => secret = t.secret
    /\ t.validated \/ t.tested => t.success # 0 \/ t.failure # 0

(* Whoever is about to store a new secret has read the evidence there is.  *)
Rotating(c) == c.pc = "edit" /\ c.change[1] = "secret"
Aware(t, c) ==
    Rotating(c) => /\ t.validated => c.seen.validated
                   /\ t.tested => c.seen.tested
                   /\ t.success # 0 => c.seen.success # 0

Backed == ~trust.raced => Supported(target, trust.secret) /\ \A q \in Procs : Aware(target, proc[q])

TargetInv == Typed /\ Dense(target, proc) /\ Backed

-----------------------------------------------------------------------------
(* The stamps *)

(* Finitely many stamps are in use. *)
LEMMA StampsFinite ==
  ASSUME NEW t \in Rows, NEW ps \in [Procs -> Calls]
  PROVE  /\ Stamps(t, ps) \in SUBSET (Nat \ {0})
         /\ IsFiniteSet(Stamps(t, ps))
<1> DEFINE held == {ps[q].now : q \in Procs}
           now == [q \in Procs |-> ps[q].now]
<1>1. t.success \in Nat /\ t.failure \in Nat
  BY DEF Rows
<1>2. \A q \in Procs : ps[q].now \in Nat
  BY DEF Calls
<1>3. now \in Surjection(Procs, held)
  BY DEF Surjection
<1>4. IsFiniteSet(held)
  BY <1>3, FS_Surjection
<1>5. IsFiniteSet({t.success, t.failure})
  <2>1. IsFiniteSet({t.success} \cup {t.failure})
    BY FS_Singleton, FS_AddElement
  <2>2. {t.success} \cup {t.failure} = {t.success, t.failure}
    OBVIOUS
  <2> QED
    BY <2>1, <2>2
<1>6. IsFiniteSet({t.success, t.failure} \cup held)
  BY <1>4, <1>5, FS_Union
<1> QED
  BY <1>1, <1>2, <1>6, FS_RemoveElement DEF Stamps

(* A stamp is renumbered by its place in the order: no stamp stays no      *)
(* stamp, and no two stamps become one.                                    *)
LEMMA RankType ==
  ASSUME NEW used \in SUBSET (Nat \ {0}), IsFiniteSet(used), NEW v \in Nat
  PROVE  /\ Rank(used, v) \in Nat
         /\ Rank(used, v) <= Cardinality(used)
         /\ v = 0 => Rank(used, v) = 0
         /\ v \in used => Rank(used, v) # 0
<1> DEFINE below == {u \in used : u <= v}
<1>1. below \in SUBSET used
  OBVIOUS
<1>2. IsFiniteSet(below) /\ Cardinality(below) <= Cardinality(used)
  BY <1>1, FS_Subset
<1>3. Cardinality(below) \in Nat
  BY <1>2, FS_CardinalityType
<1>4. v = 0 => below = {}
  <2>1. \A u \in used : u \in Nat /\ u # 0
    OBVIOUS
  <2>2. v = 0 => \A u \in used : ~(u <= v)
    BY <2>1
  <2> QED
    BY <2>2
<1>5. v \in used => below # {}
  OBVIOUS
<1>6. Cardinality(below) = 0 <=> below = {}
  BY <1>2, FS_EmptySet
<1> QED
  BY <1>2, <1>3, <1>4, <1>5, <1>6 DEF Rank

LEMMA RankStrict ==
  ASSUME NEW used \in SUBSET (Nat \ {0}), IsFiniteSet(used), NEW v \in used, NEW w \in used, v < w
  PROVE  Rank(used, v) # Rank(used, w)
<1> DEFINE below == {u \in used : u <= v}
           upto == {u \in used : u <= w}
<1>1. IsFiniteSet(upto)
  BY FS_Subset
<1>2. below \in SUBSET upto
  <2>1. \A u \in used : u \in Nat
    OBVIOUS
  <2>2. \A u \in used : u <= v => u <= w
    BY <2>1
  <2> QED
    BY <2>2
<1>3. w \in upto /\ w \notin below
  OBVIOUS
<1>4. Cardinality(below) # Cardinality(upto)
  BY <1>1, <1>2, <1>3, FS_Subset
<1> QED
  BY <1>4 DEF Rank

(* As many stamps as before, so their numbers have no gap. *)
LEMMA RankImage ==
  ASSUME NEW used \in SUBSET (Nat \ {0}), IsFiniteSet(used)
  PROVE  Cardinality({Rank(used, v) : v \in used}) = Cardinality(used)
<1> DEFINE ranks == {Rank(used, v) : v \in used}
           f == [v \in used |-> Rank(used, v)]
<1>1. f \in [used -> ranks]
  OBVIOUS
<1>2. \A v, w \in used : f[v] = f[w] => v = w
  <2> SUFFICES ASSUME NEW v \in used, NEW w \in used, Rank(used, v) = Rank(used, w)
               PROVE  v = w
    OBVIOUS
  <2>1. ~(v < w)
    BY RankStrict
  <2>2. ~(w < v)
    BY RankStrict
  <2> QED
    BY <2>1, <2>2
<1>3. \A r \in ranks : \E v \in used : f[v] = r
  OBVIOUS
<1>4. f \in Bijection(used, ranks)
  BY <1>1, <1>2, <1>3 DEF Bijection, Injection, Surjection, IsInjective
<1>5. ExistsBijection(used, ranks)
  BY <1>4 DEF ExistsBijection
<1> QED
  BY <1>5, FS_Bijection

-----------------------------------------------------------------------------
(* Writing the row and the processes *)

RowRenumbered(n, t) ==
    /\ n \in Rows
    /\ n.kind = t.kind /\ n.profile = t.profile /\ n.tuned = t.tuned /\ n.override = t.override
    /\ n.enabled = t.enabled /\ n.secret = t.secret /\ n.validated = t.validated /\ n.tested = t.tested
    /\ n.error = t.error /\ n.check = t.check /\ n.aged = t.aged
    /\ (n.success = 0) = (t.success = 0) /\ (n.failure = 0) = (t.failure = 0)

CallRenumbered(n, c) ==
    /\ n \in Calls
    /\ n.pc = c.pc /\ n.seen = c.seen /\ n.change = c.change /\ n.result = c.result
    /\ n.check = c.check /\ n.secret = c.secret
    /\ (n.now = 0) = (c.now = 0)

IsFcnOn(f, S) == f = [x \in S |-> f[x]]
Ranked(c, used) == [c EXCEPT !.now = Rank(used, c.now)]

(* A commit, and every step of a process, writes all stamps anew ...       *)
LEMMA WriteRanks ==
  ASSUME NEW t, NEW ps, Write(t, ps)
  PROVE  /\ target' = [t EXCEPT !.success = Rank(Stamps(t, ps), t.success),
                                !.failure = Rank(Stamps(t, ps), t.failure)]
         /\ IsFcnOn(proc', Procs) /\ \A q \in Procs : proc'[q] = Ranked(ps[q], Stamps(t, ps))
<1> DEFINE used == Stamps(t, ps)
<1>1. target' = [t EXCEPT !.success = Rank(used, @), !.failure = Rank(used, @)]
  BY Zenon DEF Write, Rank, Stamps
<1>2. proc' = [q \in Procs |-> [ps[q] EXCEPT !.now = Rank(used, @)]]
  BY Zenon DEF Write, Rank, Stamps
<1>3. proc' = [q \in Procs |-> Ranked(ps[q], used)]
  BY <1>2, Zenon DEF Ranked
<1>4. IsFcnOn(proc', Procs) /\ \A q \in Procs : proc'[q] = Ranked(ps[q], used)
  BY <1>3 DEF IsFcnOn
<1> QED
  BY <1>1, <1>4, Zenon

(* ... and leaves everything else as it is, with the stamps in order.      *)
LEMMA WriteRenumbers ==
  ASSUME NEW t \in Rows, NEW ps \in [Procs -> Calls], Write(t, ps)
  PROVE  /\ RowRenumbered(target', t)
         /\ proc' \in [Procs -> Calls] /\ \A q \in Procs : CallRenumbered(proc'[q], ps[q])
         /\ Dense(target', proc')
<1> DEFINE used == Stamps(t, ps)
           s == Rank(used, t.success)
           f == Rank(used, t.failure)
<1>1. used \in SUBSET (Nat \ {0}) /\ IsFiniteSet(used)
  BY StampsFinite
<1>2. \A v \in Nat : /\ Rank(used, v) \in Nat /\ Rank(used, v) <= Cardinality(used)
                     /\ v = 0 => Rank(used, v) = 0
                     /\ v \in used => Rank(used, v) # 0
  BY <1>1, RankType
<1>3. t.success \in Nat /\ t.failure \in Nat /\ \A q \in Procs : ps[q].now \in Nat
  BY DEF Rows, Calls
<1>4. /\ t.success # 0 => t.success \in used
      /\ t.failure # 0 => t.failure \in used
      /\ \A q \in Procs : ps[q].now # 0 => ps[q].now \in used
  BY <1>3 DEF Stamps
<1>5. /\ target' = [t EXCEPT !.success = s, !.failure = f]
      /\ IsFcnOn(proc', Procs) /\ \A q \in Procs : proc'[q] = Ranked(ps[q], used)
  <2>1. target' = [t EXCEPT !.success = s, !.failure = f]
    BY WriteRanks
  <2>2. IsFcnOn(proc', Procs) /\ \A q \in Procs : proc'[q] = Ranked(ps[q], used)
    BY WriteRanks
  <2> QED
    BY <2>1, <2>2 DEF IsFcnOn
<1>6. /\ s \in Nat /\ f \in Nat /\ (s = 0) = (t.success = 0) /\ (f = 0) = (t.failure = 0)
  BY <1>2, <1>3, <1>4
<1>7. RowRenumbered(target', t) /\ target'.success = s /\ target'.failure = f
  <2> HIDE DEF used, s, f
  <2>1. target' \in Rows
    BY <1>5, <1>6 DEF Rows
  <2>2. /\ target'.kind = t.kind /\ target'.profile = t.profile /\ target'.tuned = t.tuned
        /\ target'.override = t.override /\ target'.enabled = t.enabled /\ target'.secret = t.secret
        /\ target'.validated = t.validated /\ target'.tested = t.tested /\ target'.error = t.error
        /\ target'.check = t.check /\ target'.aged = t.aged /\ target'.success = s /\ target'.failure = f
    BY <1>5 DEF Rows
  <2> QED
    BY <1>6, <2>1, <2>2 DEF RowRenumbered
<1>8. \A q \in Procs : CallRenumbered(proc'[q], ps[q]) /\ proc'[q].now = Rank(used, ps[q].now)
  <2> SUFFICES ASSUME NEW q \in Procs
               PROVE  CallRenumbered(proc'[q], ps[q]) /\ proc'[q].now = Rank(used, ps[q].now)
    OBVIOUS
  <2> DEFINE r == Rank(used, ps[q].now)
  <2>1. r \in Nat /\ (r = 0) = (ps[q].now = 0)
    BY <1>2, <1>3, <1>4
  <2>2. proc'[q] = [ps[q] EXCEPT !.now = r] /\ ps[q] \in Calls
    BY <1>5 DEF Ranked
  <2> HIDE DEF used, r
  <2>3. proc'[q] \in Calls
    BY <2>1, <2>2 DEF Calls
  <2>4. /\ proc'[q].pc = ps[q].pc /\ proc'[q].seen = ps[q].seen /\ proc'[q].change = ps[q].change
        /\ proc'[q].result = ps[q].result /\ proc'[q].check = ps[q].check /\ proc'[q].secret = ps[q].secret
        /\ proc'[q].now = r
    BY <2>2 DEF Calls
  <2> QED
    BY <2>1, <2>3, <2>4 DEF CallRenumbered, r
<1>9. proc' \in [Procs -> Calls]
  <2>1. \A q \in Procs : proc'[q] \in Calls
    BY <1>8 DEF CallRenumbered
  <2>2. proc' = [q \in Procs |-> proc'[q]]
    BY <1>5 DEF IsFcnOn
  <2> QED
    BY <2>1, <2>2
<1>10. Stamps(target', proc') = {Rank(used, v) : v \in used}
  <2>1. /\ target'.success = Rank(used, t.success) /\ target'.failure = Rank(used, t.failure)
        /\ \A q \in Procs : proc'[q].now = Rank(used, ps[q].now)
    BY <1>7, <1>8
  <2>2. used = ({t.success, t.failure} \cup {ps[q].now : q \in Procs}) \ {0}
    BY DEF Stamps
  <2>3. \A v \in {t.success, t.failure} \cup {ps[q].now : q \in Procs} : Rank(used, v) # 0 <=> v # 0
    BY <1>2, <1>3, <1>4
  <2>4. Stamps(target', proc') = ({Rank(used, t.success), Rank(used, t.failure)}
                                    \cup {Rank(used, ps[q].now) : q \in Procs}) \ {0}
    BY <2>1 DEF Stamps
  <2>5. ASSUME NEW w \in Stamps(target', proc')
        PROVE  \E v \in used : w = Rank(used, v)
    <3>1. w # 0 /\ (w = Rank(used, t.success) \/ w = Rank(used, t.failure) \/ \E q \in Procs : w = Rank(used, ps[q].now))
      BY <2>4
    <3> QED
      BY <1>2, <1>3, <1>4, <3>1
  <2>6. ASSUME NEW v \in used
        PROVE  Rank(used, v) \in Stamps(target', proc')
    <3>1. v \in {t.success, t.failure} \cup {ps[q].now : q \in Procs} /\ v # 0
      BY <2>2
    <3>2. Rank(used, v) # 0
      BY <2>3, <3>1
    <3> QED
      BY <2>4, <3>1, <3>2
  <2> HIDE DEF used
  <2> QED
    BY <2>5, <2>6
<1>11. Dense(target', proc')
  <2>1. Cardinality(Stamps(target', proc')) = Cardinality(used)
    BY <1>1, <1>10, RankImage
  <2>2. \A v \in used : v \in Nat /\ Rank(used, v) <= Cardinality(used)
    BY <1>1, <1>2
  <2>3. \A w \in Stamps(target', proc') : w <= Cardinality(used)
    BY <1>10, <2>2
  <2> QED
    BY <2>1, <2>3 DEF Dense
<1> QED
  BY <1>7, <1>8, <1>9, <1>11

(* Renumbering keeps what the invariant says.                              *)
LEMMA WriteKeeps ==
  ASSUME NEW t \in Rows, NEW ps \in [Procs -> Calls], Write(t, ps),
         \A q \in Procs : Ready(ps[q]),
         deleted' \in BOOLEAN, endpoint' \in Answers, budget' \in Bounds,
         trust' \in [secret : Nat, raced : BOOLEAN],
         ~trust'.raced => Supported(t, trust'.secret) /\ \A q \in Procs : Aware(t, ps[q])
  PROVE  TargetInv'
<1>1. /\ RowRenumbered(target', t)
      /\ proc' \in [Procs -> Calls] /\ \A q \in Procs : CallRenumbered(proc'[q], ps[q])
      /\ Dense(target', proc')
  BY WriteRenumbers
<1>2. \A q \in Procs : Ready(proc'[q])
  BY <1>1 DEF CallRenumbered, Ready
<1>3. target' \in Rows
  BY <1>1 DEF RowRenumbered
<1>4. Supported(t, trust'.secret) => Supported(target', trust'.secret)
  BY <1>1 DEF RowRenumbered, Supported
<1>5. \A q \in Procs : Aware(t, ps[q]) => Aware(target', proc'[q])
  BY <1>1 DEF RowRenumbered, CallRenumbered, Aware, Rotating
<1>6. Typed'
  BY <1>1, <1>2, <1>3 DEF Typed
<1>7. Backed'
  BY <1>4, <1>5 DEF Backed
<1> QED
  BY <1>1, <1>6, <1>7 DEF TargetInv

(* A step of a process that does not write the row.                        *)
LEMMA MoveKeeps ==
  ASSUME TargetInv, NEW p \in Procs, NEW c \in Calls, Ready(c), Aware(target, c), Move(p, c),
         UNCHANGED <<deleted, endpoint, trust>>, budget' \in Bounds
  PROVE  TargetInv'
<1> DEFINE ps == [proc EXCEPT ![p] = c]
<1>1. /\ Typed /\ Backed
      /\ proc \in [Procs -> Calls] /\ \A q \in Procs : Ready(proc[q])
      /\ target \in Rows /\ deleted' \in BOOLEAN /\ endpoint' \in Answers
      /\ trust' \in [secret : Nat, raced : BOOLEAN] /\ trust' = trust
  BY DEF TargetInv, Typed
<1>2. ps \in [Procs -> Calls] /\ \A q \in Procs : ps[q] = IF q = p THEN c ELSE proc[q]
  BY <1>1
<1>3. Write(target, ps)
  BY DEF Move
<1> HIDE DEF ps
<1>4. \A q \in Procs : Ready(ps[q])
  BY <1>1, <1>2
<1>5. ~trust'.raced => Supported(target, trust'.secret) /\ \A q \in Procs : Aware(target, ps[q])
  BY <1>1, <1>2 DEF Backed
<1> QED
  BY <1>1, <1>2, <1>3, <1>4, <1>5, WriteKeeps

-----------------------------------------------------------------------------
(* What a process holds *)

LEMMA IdleTyped ==
  Idle \in Calls /\ Idle.pc = "idle"
BY DEF Idle, Calls, NoEvidence, Seens, Checks, Answers, Errors

(* What is loaded of a row is its evidence. *)
LEMMA LoadedTyped ==
  ASSUME NEW t \in Rows
  PROVE  /\ Loaded(t) \in Seens
         /\ Loaded(t).validated = t.validated /\ Loaded(t).tested = t.tested /\ Loaded(t).success = t.success
         /\ Loaded(t).failure = t.failure /\ Loaded(t).error = t.error /\ Loaded(t).check = t.check
<1>1. Evidence = {"validated", "tested", "success", "failure", "error", "check"}
  BY DEF Evidence, NoEvidence
<1> QED
  BY <1>1 DEF Loaded, Seens, Rows

LEMMA NowTyped ==
  ASSUME TargetInv
  PROVE  Now \in Nat /\ Now # 0 /\ \A v \in Stamps(target, proc) : v < Now
<1>1. target \in Rows /\ proc \in [Procs -> Calls] /\ Dense(target, proc)
  BY DEF TargetInv, Typed
<1>2. Stamps(target, proc) \in SUBSET (Nat \ {0}) /\ IsFiniteSet(Stamps(target, proc))
  BY <1>1, StampsFinite
<1>3. Cardinality(Stamps(target, proc)) \in Nat
  BY <1>2, FS_CardinalityType
<1>4. Now = 1 + Cardinality(Stamps(target, proc))
  BY DEF Now, Stamps
<1>5. \A v \in Stamps(target, proc) : v \in Nat /\ v <= Cardinality(Stamps(target, proc))
  BY <1>1, <1>2 DEF Dense
<1> QED
  BY <1>3, <1>4, <1>5

(* A request that begins, a check that goes on, an edit that has read.     *)
Started(pc) == [Idle EXCEPT !.pc = pc]
Probing ==
    [[Idle EXCEPT !.seen = Loaded(target), !.now = Now, !.secret = target.secret]
        EXCEPT !.pc = "probe", !.check = "connectivity"]
Preflight(result) ==
    [[Idle EXCEPT !.seen = Loaded(target), !.now = Now, !.secret = target.secret]
        EXCEPT !.pc = "store", !.check = "config", !.result = result]
Posting == [Idle EXCEPT !.pc = "post", !.check = "test", !.secret = target.secret]
Editing(c) == [Idle EXCEPT !.pc = "edit", !.seen = Loaded(target), !.change = c]

LEMMA StartedTyped ==
  ASSUME NEW pc \in {"idle", "validate", "test"}
  PROVE  Started(pc) \in Calls /\ Started(pc).pc = pc
BY IdleTyped DEF Started, Calls

LEMMA ReadingTyped ==
  ASSUME target \in Rows, Now \in Nat
  PROVE  /\ Probing \in Calls /\ Probing.pc = "probe" /\ Probing.now = Now
         /\ \A result \in Answers :
                /\ Preflight(result) \in Calls
                /\ Preflight(result).pc = "store" /\ Preflight(result).now = Now
<1>1. Loaded(target) \in Seens /\ target.secret \in Nat
  BY LoadedTyped DEF Rows
<1> HIDE DEF Now
<1> QED
  BY <1>1, IdleTyped DEF Probing, Preflight, Calls, Checks

LEMMA PostingTyped ==
  ASSUME target \in Rows
  PROVE  Posting \in Calls /\ Posting.pc = "post"
<1>1. target.secret \in Nat
  BY DEF Rows
<1> QED
  BY <1>1, IdleTyped DEF Posting, Calls, Checks

LEMMA EditingTyped ==
  ASSUME target \in Rows, NEW c \in Changes
  PROVE  /\ Editing(c) \in Calls
         /\ Editing(c).pc = "edit" /\ Editing(c).seen = Loaded(target) /\ Editing(c).change = c
<1>1. Loaded(target) \in Seens
  BY LoadedTyped
<1> QED
  BY <1>1, IdleTyped DEF Editing, Calls

(* A process that edits nothing moves on. *)
LEMMA OtherMoves ==
  ASSUME TargetInv, NEW p \in Procs, NEW c \in Calls, c.pc # "edit",
         c.pc \in {"probe", "reload", "store"} => c.now # 0,
         Move(p, c), UNCHANGED <<deleted, endpoint, trust>>, budget' \in Bounds
  PROVE  TargetInv'
<1>1. Ready(c) /\ Aware(target, c)
  BY DEF Ready, Aware, Rotating
<1> QED
  BY <1>1, MoveKeeps

-----------------------------------------------------------------------------
(* The steps *)

LEMMA CallKeeps ==
  ASSUME TargetInv, NEW p \in Procs, Call(p)
  PROVE  TargetInv'
<1>1. PICK pc \in {"validate", "test"} : Move(p, Started(pc))
  BY DEF Call, Started
<1>2. Started(pc) \in Calls /\ Started(pc).pc = pc
  BY StartedTyped
<1>3. budget' \in Bounds
  BY DEF Call, Bounds, TargetInv, Typed
<1>4. UNCHANGED <<deleted, endpoint, trust>>
  BY DEF Call
<1> QED
  BY <1>1, <1>2, <1>3, <1>4, OtherMoves

LEMMA SweepKeeps ==
  ASSUME TargetInv, NEW p \in Procs, Sweep(p)
  PROVE  TargetInv'
<1>1. Move(p, Started("validate"))
  BY DEF Sweep, Started
<1>2. Started("validate") \in Calls /\ Started("validate").pc = "validate"
  BY StartedTyped
<1>3. UNCHANGED <<deleted, endpoint, trust>> /\ budget' \in Bounds
  BY DEF Sweep, TargetInv, Typed
<1> QED
  BY <1>1, <1>2, <1>3, OtherMoves

LEMMA ValidateKeeps ==
  ASSUME TargetInv, NEW p \in Procs, Validate(p)
  PROVE  TargetInv'
<1>1. target \in Rows /\ Now \in Nat /\ Now # 0
  BY NowTyped DEF TargetInv, Typed
<1>2. UNCHANGED <<deleted, endpoint, trust>> /\ budget' \in Bounds
  BY DEF Validate, TargetInv, Typed
<1>3. CASE Move(p, Probing)
  <2>1. Probing \in Calls /\ Probing.pc = "probe" /\ Probing.now = Now
    BY <1>1, ReadingTyped
  <2> QED
    BY <1>1, <1>3, <1>2, <2>1, OtherMoves
<1>4. ASSUME NEW result \in {"ok", "other"}, Move(p, Preflight(result))
      PROVE  TargetInv'
  <2>1. Preflight(result) \in Calls /\ Preflight(result).pc = "store" /\ Preflight(result).now = Now
    BY <1>1, ReadingTyped DEF Answers
  <2> QED
    BY <1>1, <1>4, <1>2, <2>1, OtherMoves
<1>5. Move(p, Probing) \/ \E result \in {"ok", "other"} : Move(p, Preflight(result))
  BY DEF Validate, Probing, Preflight
<1> QED
  BY <1>3, <1>4, <1>5

LEMMA ProbeKeeps ==
  ASSUME TargetInv, NEW p \in Procs, Probe(p)
  PROVE  TargetInv'
<1> DEFINE c == [proc[p] EXCEPT !.pc = "store", !.result = endpoint]
<1>1. proc[p] \in Calls /\ Ready(proc[p]) /\ endpoint \in Answers /\ proc[p].pc = "probe"
  BY DEF TargetInv, Typed, Probe, At
<1>2. c \in Calls /\ c.pc = "store" /\ c.now = proc[p].now
  BY <1>1 DEF Calls
<1>3. Move(p, c) /\ UNCHANGED <<deleted, endpoint, trust>> /\ budget' \in Bounds
  BY DEF Probe, TargetInv, Typed
<1> HIDE DEF c
<1> QED
  BY <1>1, <1>2, <1>3, OtherMoves DEF Ready

LEMMA TestKeeps ==
  ASSUME TargetInv, NEW p \in Procs, Test(p)
  PROVE  TargetInv'
<1>1. Posting \in Calls /\ Posting.pc = "post" /\ Idle \in Calls /\ Idle.pc = "idle"
  BY PostingTyped, IdleTyped DEF TargetInv, Typed
<1>2. Move(p, Posting) \/ Move(p, Idle)
  BY DEF Test, Posting
<1>3. UNCHANGED <<deleted, endpoint, trust>> /\ budget' \in Bounds
  BY DEF Test, TargetInv, Typed
<1> QED
  BY <1>1, <1>2, <1>3, OtherMoves

LEMMA PostKeeps ==
  ASSUME TargetInv, NEW p \in Procs, Post(p)
  PROVE  TargetInv'
<1> DEFINE c == [proc[p] EXCEPT !.pc = "reload", !.result = endpoint, !.now = Now]
<1>1. proc[p] \in Calls /\ endpoint \in Answers /\ Now \in Nat /\ Now # 0
  BY NowTyped DEF TargetInv, Typed
<1>2. c \in Calls /\ c.pc = "reload" /\ c.now = Now
  BY <1>1 DEF Calls
<1>3. Move(p, c) /\ UNCHANGED <<deleted, endpoint, trust>> /\ budget' \in Bounds
  BY DEF Post, TargetInv, Typed
<1> HIDE DEF c
<1> QED
  BY <1>1, <1>2, <1>3, OtherMoves

LEMMA ReloadKeeps ==
  ASSUME TargetInv, NEW p \in Procs, Reload(p)
  PROVE  TargetInv'
<1> DEFINE c == [proc[p] EXCEPT !.pc = "store", !.seen = Loaded(target)]
<1>1. proc[p] \in Calls /\ Ready(proc[p]) /\ Loaded(target) \in Seens /\ proc[p].pc = "reload"
  BY LoadedTyped DEF TargetInv, Typed, Reload, Finds, At
<1>2. c \in Calls /\ c.pc = "store" /\ c.now = proc[p].now
  BY <1>1 DEF Calls
<1>3. Move(p, c) /\ UNCHANGED <<deleted, endpoint, trust>> /\ budget' \in Bounds
  BY DEF Reload, TargetInv, Typed
<1> HIDE DEF c
<1> QED
  BY <1>1, <1>2, <1>3, OtherMoves DEF Ready

LEMMA NotFoundKeeps ==
  ASSUME TargetInv, NEW p \in Procs, NotFound(p)
  PROVE  TargetInv'
<1>1. Move(p, Idle) /\ UNCHANGED <<deleted, endpoint, trust>> /\ budget' \in Bounds
  BY DEF NotFound, TargetInv, Typed
<1> QED
  BY <1>1, IdleTyped, OtherMoves

(* An edit that has just read knows of all the evidence. *)
LEMMA EditKeeps ==
  ASSUME TargetInv, NEW p \in Procs, Edit(p)
  PROVE  TargetInv'
<1>1. target \in Rows /\ budget \in Bounds
  BY DEF TargetInv, Typed
<1>2. PICK c \in budget.changes : Move(p, Editing(c))
  BY DEF Edit, Editing
<1>3. c \in Changes
  BY <1>1 DEF Bounds
<1>4. /\ Editing(c) \in Calls
      /\ Editing(c).pc = "edit" /\ Editing(c).seen = Loaded(target) /\ Editing(c).change = c
  BY <1>1, <1>3, EditingTyped
<1>5. Ready(Editing(c)) /\ Aware(target, Editing(c))
  BY <1>1, <1>3, <1>4, LoadedTyped DEF Ready, Aware
<1>6. UNCHANGED <<deleted, endpoint, trust>>
  BY DEF Edit
<1>7. budget' \in Bounds
  BY <1>1 DEF Edit, Bounds
<1> QED
  BY <1>2, <1>4, <1>5, <1>6, <1>7, MoveKeeps

(* The evidence of a check, and nothing else of the row, is written.       *)
JudgedSo(n, t, c) ==
    /\ n \in Rows
    /\ n.kind = t.kind /\ n.profile = t.profile /\ n.enabled = t.enabled /\ n.secret = t.secret
    /\ n.validated = (t.validated \/ c.check # "test") /\ n.tested = (t.tested \/ c.check = "test")
    /\ c.result = "ok" => n.success = c.now /\ n.failure = t.failure /\ ~n.aged
    /\ c.result # "ok" => n.success = t.success /\ n.failure = c.now /\ n.aged = t.aged

LEMMA JudgedTyped ==
  ASSUME NEW t \in Rows, NEW c \in Calls
  PROVE  JudgedSo(Judged(t, c), t, c)
<1> DEFINE error == IF c.result = "ok" THEN "none" ELSE c.result
           n == Judged(t, c)
<1>1. /\ c.now \in Nat /\ c.check \in Checks /\ error \in Errors
      /\ t.validated \in BOOLEAN /\ t.tested \in BOOLEAN /\ t.aged \in BOOLEAN
      /\ t.success \in Nat /\ t.failure \in Nat /\ t.error \in Errors /\ t.check \in Checks
  BY DEF Calls, Rows, Answers, Errors
<1>2. n \in Rows
  <2> DEFINE flagged == [t EXCEPT !.validated = t.validated \/ c.check # "test",
                                 !.tested = t.tested \/ c.check = "test"]
             stamped(m) == [m EXCEPT !.success = IF c.result = "ok" THEN c.now ELSE t.success,
                                     !.failure = IF c.result = "ok" THEN t.failure ELSE c.now]
             aged(m) == [m EXCEPT !.aged = t.aged /\ ~(c.result = "ok")]
             told(m) == [m EXCEPT !.error = IF error = c.seen.error THEN t.error ELSE error,
                                  !.check = IF c.check = c.seen.check THEN t.check ELSE c.check]
  <2>1. flagged \in Rows
    BY <1>1 DEF Rows
  <2>2. ASSUME NEW m \in Rows
        PROVE  stamped(m) \in Rows
    BY <1>1 DEF Rows
  <2>3. ASSUME NEW m \in Rows
        PROVE  told(m) \in Rows
    BY <1>1, ZenonT(30) DEF Rows
  <2>4. ASSUME NEW m \in Rows
        PROVE  aged(m) \in Rows
    <3>1. ASSUME NEW b \in BOOLEAN
          PROVE  [m EXCEPT !.aged = b] \in Rows
      BY DEF Rows
    <3>2. (t.aged /\ ~(c.result = "ok")) \in BOOLEAN
      OBVIOUS
    <3> QED
      BY <3>1, <3>2, Zenon
  <2>5. n = told(aged(stamped(flagged)))
    BY <1>1 DEF Judged, Rows
  <2> HIDE DEF n, told, aged, stamped, flagged
  <2> QED
    BY <2>1, <2>2, <2>3, <2>4, <2>5
<1>3. /\ n.kind = t.kind /\ n.profile = t.profile /\ n.enabled = t.enabled /\ n.secret = t.secret
      /\ n.validated = (t.validated \/ c.check # "test") /\ n.tested = (t.tested \/ c.check = "test")
  BY <1>1 DEF Judged, Rows
<1>4. /\ c.result = "ok" => n.success = c.now /\ n.failure = t.failure /\ ~n.aged
      /\ c.result # "ok" => n.success = t.success /\ n.failure = c.now /\ n.aged = t.aged
  BY <1>1 DEF Judged, Rows
<1> QED
  BY <1>2, <1>3, <1>4 DEF JudgedSo

(* A check's commit.  Evidence it leaves is of the present secret, or the  *)
(* check and a change overtook each other.                                 *)
LEMMA StoreKeeps ==
  ASSUME TargetInv, NEW p \in Procs, Store(p)
  PROVE  TargetInv'
<1> DEFINE c == proc[p]
           n == Judged(target, c)
           ps == [proc EXCEPT ![p] = Idle]
           editing == \E q \in Procs : At(q, "edit") /\ proc[q].change[1] = "secret"
           late == c.secret # target.secret \/ editing
<1>1. /\ target \in Rows /\ c \in Calls /\ proc \in [Procs -> Calls] /\ \A q \in Procs : Ready(proc[q])
      /\ trust \in [secret : Nat, raced : BOOLEAN] /\ Backed
      /\ c.now # 0 /\ c.secret \in Nat
  BY DEF TargetInv, Typed, Ready, Store, Finds, At, Calls
<1>2. JudgedSo(n, target, c)
  BY <1>1, JudgedTyped
<1>3. ps \in [Procs -> Calls] /\ \A q \in Procs : ps[q] = IF q = p THEN Idle ELSE proc[q]
  BY <1>1, IdleTyped
<1>4. \A q \in Procs : Ready(ps[q])
  BY <1>1, <1>3, IdleTyped DEF Ready
<1>5. /\ Write(n, ps) /\ deleted' \in BOOLEAN /\ endpoint' \in Answers /\ budget' \in Bounds
      /\ trust' = IF c.result # "ok" THEN [trust EXCEPT !.raced = @ \/ late]
                  ELSE [secret |-> c.secret, raced |-> late]
  BY DEF Store, TargetInv, Typed
<1>6. /\ trust' \in [secret : Nat, raced : BOOLEAN]
      /\ ~trust'.raced => ~late
      /\ c.result # "ok" => trust'.secret = trust.secret /\ (~trust'.raced => ~trust.raced)
      /\ c.result = "ok" => trust'.secret = c.secret
  <2> DEFINE found == late
  <2>1. found \in BOOLEAN
    OBVIOUS
  <2>2. trust' = IF c.result # "ok" THEN [trust EXCEPT !.raced = @ \/ found]
                 ELSE [secret |-> c.secret, raced |-> found]
    BY <1>5
  <2> HIDE DEF found
  <2>3. /\ trust' \in [secret : Nat, raced : BOOLEAN]
        /\ ~trust'.raced => ~found
        /\ c.result # "ok" => trust'.secret = trust.secret /\ (~trust'.raced => ~trust.raced)
        /\ c.result = "ok" => trust'.secret = c.secret
    BY <1>1, <2>1, <2>2
  <2> QED
    BY <2>3 DEF found
<1>7. ASSUME ~trust'.raced
      PROVE  Supported(n, trust'.secret)
  <2>1. c.secret = target.secret /\ (c.result # "ok" => ~trust.raced)
    BY <1>6, <1>7
  <2>2. CASE c.result = "ok"
    BY <1>1, <1>2, <1>6, <2>1, <2>2 DEF JudgedSo, Supported
  <2>3. CASE c.result # "ok"
    <3>1. Supported(target, trust.secret)
      BY <1>1, <2>1, <2>3 DEF Backed
    <3> QED
      BY <1>1, <1>2, <1>6, <2>3, <3>1 DEF JudgedSo, Supported
  <2> QED
    BY <2>2, <2>3
<1>8. ASSUME ~trust'.raced, NEW q \in Procs
      PROVE  Aware(n, ps[q])
  BY <1>3, <1>6, <1>8, IdleTyped DEF Aware, Rotating, At
<1>9. n \in Rows
  BY <1>2 DEF JudgedSo
<1> HIDE DEF n, ps
<1> QED
  BY <1>3, <1>4, <1>5, <1>6, <1>7, <1>8, <1>9, WriteKeeps

(* A new secret takes away the evidence that was read, if it was any.      *)
InvalidatedSo(n, t, seen) ==
    /\ n \in Rows
    /\ n.kind = t.kind /\ n.profile = t.profile /\ n.enabled = t.enabled /\ n.secret = t.secret
    /\ n.validated = (t.validated /\ ~seen.validated) /\ n.tested = (t.tested /\ ~seen.tested)
    /\ n.success = IF seen.success # 0 THEN 0 ELSE t.success
    /\ n.failure = IF seen.failure # 0 THEN 0 ELSE t.failure

LEMMA InvalidatedTyped ==
  ASSUME NEW t \in Rows, NEW seen \in Seens
  PROVE  InvalidatedSo(Invalidated(t, seen), t, seen)
<1> DEFINE n == Invalidated(t, seen)
           kept(f) == IF f \in Evidence /\ seen[f] # NoEvidence[f] THEN NoEvidence[f] ELSE t[f]
<1>1. /\ Evidence = {"validated", "tested", "success", "failure", "error", "check"}
      /\ NoEvidence.validated = FALSE /\ NoEvidence.tested = FALSE /\ NoEvidence.success = 0
      /\ NoEvidence.failure = 0 /\ NoEvidence.error = "none" /\ NoEvidence.check = "none"
  BY DEF Evidence, NoEvidence
<1>2. DOMAIN t = {"kind", "profile", "tuned", "override", "enabled", "secret", "validated", "tested",
                  "success", "failure", "error", "check", "aged"}
  BY DEF Rows
<1>3. n = [f \in DOMAIN t |-> kept(f)]
  BY DEF Invalidated
<1> HIDE DEF n, kept
<1>4. DOMAIN n = DOMAIN t /\ \A f \in DOMAIN t : n[f] = kept(f)
  BY <1>3
<1>5. /\ n.kind = t.kind /\ n.profile = t.profile /\ n.tuned = t.tuned /\ n.override = t.override
      /\ n.enabled = t.enabled /\ n.secret = t.secret /\ n.aged = t.aged
  BY <1>1, <1>2, <1>4 DEF kept
<1>6. /\ seen.validated \in BOOLEAN /\ seen.tested \in BOOLEAN
      /\ t.validated \in BOOLEAN /\ t.tested \in BOOLEAN
  BY DEF Seens, Rows
<1>7. n.validated = (t.validated /\ ~seen.validated) /\ n.tested = (t.tested /\ ~seen.tested)
  <2>1. /\ n.validated = IF seen.validated # FALSE THEN FALSE ELSE t.validated
        /\ n.tested = IF seen.tested # FALSE THEN FALSE ELSE t.tested
    BY <1>1, <1>2, <1>4 DEF kept
  <2> QED
    BY <1>6, <2>1
<1>8. /\ n.success = IF seen.success # 0 THEN 0 ELSE t.success
      /\ n.failure = IF seen.failure # 0 THEN 0 ELSE t.failure
  BY <1>1, <1>2, <1>4 DEF kept
<1>9. n.error \in {"none", t.error} /\ n.check \in {"none", t.check}
  BY <1>1, <1>2, <1>4 DEF kept
<1>10. n \in Rows
  <2>1. /\ n.validated \in BOOLEAN /\ n.tested \in BOOLEAN /\ n.success \in Nat /\ n.failure \in Nat
        /\ n.error \in Errors /\ n.check \in Checks
    BY <1>6, <1>7, <1>8, <1>9 DEF Rows, Errors, Checks
  <2>2. n = [f \in DOMAIN t |-> n[f]]
    BY <1>3, <1>4
  <2> QED
    BY <1>2, <1>5, <2>1, <2>2 DEF Rows
<1> QED
  BY <1>5, <1>7, <1>8, <1>10 DEF InvalidatedSo, n

LEMMA ChangesKnown ==
  ASSUME NEW c \in Changes
  PROVE  \/ c[1] = "secret" \/ c[1] = "row"
         \/ c[1] = "enabled"
         \/ c[1] = "override" /\ c[2] \in {"on", "off"}
         \/ c[1] = "profile" /\ c[2] \in Profiles
         \/ c[1] = "kind" /\ c[2] \in Kinds
BY DEF Changes

LEMMA ProfileKindTyped ==
  ASSUME NEW profile \in Profiles
  PROVE  ProfileKind(profile) \in Kinds
<1>1. CASE profile = "pagerduty-readonly"
  BY <1>1 DEF ProfileKind, Kinds
<1>2. CASE profile = "jira-outbound"
  BY <1>2 DEF ProfileKind, Kinds
<1>3. CASE profile # "pagerduty-readonly" /\ profile # "jira-outbound"
  BY <1>3 DEF ProfileKind, Kinds, Profiles
<1> QED
  BY <1>1, <1>2, <1>3

(* What an edit writes: a new secret with the evidence taken away, or some *)
(* of the configuration and no evidence.                                   *)
Rotated(n, t, seen) ==
    /\ n \in Rows /\ n.secret = t.secret + 1
    /\ n.kind = t.kind /\ n.profile = t.profile /\ n.enabled = t.enabled
    /\ n.validated = (t.validated /\ ~seen.validated) /\ n.tested = (t.tested /\ ~seen.tested)
    /\ n.success = IF seen.success # 0 THEN 0 ELSE t.success
    /\ n.failure = IF seen.failure # 0 THEN 0 ELSE t.failure
Configured(n, t) ==
    /\ n \in Rows /\ n.secret = t.secret
    /\ n.validated = t.validated /\ n.tested = t.tested
    /\ n.success = t.success /\ n.failure = t.failure

LEMMA RotatedTyped ==
  ASSUME NEW t \in Rows, NEW seen \in Seens, NEW value
  PROVE  Rotated(Edited(t, seen, "secret", value), t, seen)
<1>1. PICK m : m = Invalidated(t, seen)
  OBVIOUS
<1>2. InvalidatedSo(m, t, seen)
  BY <1>1, InvalidatedTyped
<1>3. PICK n : n = Edited(t, seen, "secret", value)
  OBVIOUS
<1>4. n = [m EXCEPT !.secret = m.secret + 1]
  BY <1>1, <1>3, Zenon DEF Edited
<1>5. m \in Rows
  BY <1>2 DEF InvalidatedSo
<1>6. n \in Rows
  BY <1>4, <1>5 DEF Rows
<1>7. /\ n.secret = m.secret + 1 /\ n.kind = m.kind /\ n.profile = m.profile /\ n.enabled = m.enabled
      /\ n.validated = m.validated /\ n.tested = m.tested /\ n.success = m.success /\ n.failure = m.failure
  BY <1>4, <1>5 DEF Rows
<1>8. Rotated(n, t, seen)
  BY <1>2, <1>6, <1>7 DEF Rotated, InvalidatedSo
<1> QED
  BY <1>3, <1>8

LEMMA ConfiguredTyped ==
  ASSUME NEW t \in Rows, NEW seen, NEW c \in Changes, c[1] # "secret"
  PROVE  Configured(Edited(t, seen, c[1], c[2]), t)
<1>1. PICK n : n = Edited(t, seen, c[1], c[2])
  OBVIOUS
<1>2. CASE c[1] = "row"
  <2>1. n = t
    BY <1>1, <1>2, Zenon DEF Edited
  <2> QED
    BY <1>1, <2>1 DEF Configured
<1>3. CASE c[1] = "enabled"
  <2>1. n = [t EXCEPT !.enabled = (c[2] = "on")]
    BY <1>1, <1>3, Zenon DEF Edited
  <2>2. Configured([t EXCEPT !.enabled = (c[2] = "on")], t)
    <3>1. (c[2] = "on") \in BOOLEAN
      OBVIOUS
    <3>2. ASSUME NEW b \in BOOLEAN
          PROVE  Configured([t EXCEPT !.enabled = b], t)
      BY DEF Configured, Rows
    <3> QED
      BY <3>1, <3>2, Zenon
  <2> QED
    BY <1>1, <2>1, <2>2, Zenon
<1>4. CASE c[1] = "override" /\ c[2] \in {"on", "off"}
  <2>1. n = [t EXCEPT !.override = c[2]]
    BY <1>1, <1>4, Zenon DEF Edited
  <2>2. Configured([t EXCEPT !.override = c[2]], t)
    BY <1>4 DEF Configured, Rows
  <2> QED
    BY <1>1, <2>1, <2>2, Zenon
<1>5. CASE c[1] = "profile" /\ c[2] \in Profiles
  <2>1. PICK k \in Kinds : k = ProfileKind(c[2])
    BY <1>5, ProfileKindTyped
  <2>2. n = [t EXCEPT !.profile = c[2], !.kind = k]
    BY <1>1, <1>5, <2>1, Zenon DEF Edited
  <2>3. Configured([t EXCEPT !.profile = c[2], !.kind = k], t)
    BY <1>5 DEF Configured, Rows
  <2> QED
    BY <1>1, <2>2, <2>3, Zenon
<1>6. CASE c[1] = "kind" /\ c[2] \in Kinds
  <2>1. n = [t EXCEPT !.kind = c[2]]
    BY <1>1, <1>6, Zenon DEF Edited
  <2>2. Configured([t EXCEPT !.kind = c[2]], t)
    BY <1>6 DEF Configured, Rows
  <2> QED
    BY <1>1, <2>1, <2>2, Zenon
<1> QED
  BY <1>2, <1>3, <1>4, <1>5, <1>6, ChangesKnown

(* A change's commit.  The new secret starts without evidence, unless a    *)
(* check was under way.                                                    *)
LEMMA EditStoreKeeps ==
  ASSUME TargetInv, NEW p \in Procs, EditStore(p)
  PROVE  TargetInv'
<1> DEFINE c == proc[p].change
           n == Edited(target, proc[p].seen, c[1], c[2])
           ps == [proc EXCEPT ![p] = Idle]
<1>1. /\ target \in Rows /\ proc \in [Procs -> Calls] /\ \A q \in Procs : Ready(proc[q])
      /\ trust \in [secret : Nat, raced : BOOLEAN] /\ Backed
      /\ c \in Changes /\ proc[p].seen \in Seens /\ proc[p].pc = "edit"
  BY DEF TargetInv, Typed, Ready, EditStore, Finds, At, Calls
<1>2. ps \in [Procs -> Calls] /\ \A q \in Procs : ps[q] = IF q = p THEN Idle ELSE proc[q]
  BY <1>1, IdleTyped
<1>3. \A q \in Procs : Ready(ps[q])
  BY <1>1, <1>2, IdleTyped DEF Ready
<1>4. Write(n, ps)
  BY DEF EditStore
<1>5. deleted' \in BOOLEAN /\ endpoint' \in Answers /\ budget' \in Bounds
  BY DEF EditStore, TargetInv, Typed
<1>6. CASE c[1] = "secret"
  <2>1. Rotated(n, target, proc[p].seen)
    BY <1>1, <1>6, RotatedTyped
  <2> DEFINE busy == \E q \in Procs : Checking(q) \/ trust.raced
  <2>2. trust' = [trust EXCEPT !.raced = busy]
    BY <1>6 DEF EditStore
  <2>3. busy \in BOOLEAN /\ (trust.raced => busy)
    OBVIOUS
  <2> HIDE DEF n, ps, busy
  <2>4. trust' \in [secret : Nat, raced : BOOLEAN] /\ (~trust'.raced => ~trust.raced)
    BY <1>1, <2>2, <2>3
  <2>5. ASSUME ~trust'.raced
        PROVE  Supported(n, trust'.secret) /\ \A q \in Procs : Aware(n, ps[q])
    <3>1. Aware(target, proc[p]) /\ Rotating(proc[p])
      BY <1>1, <1>6, <2>4, <2>5 DEF Backed, Rotating
    <3>2. ~n.validated /\ ~n.tested /\ n.success = 0
      BY <1>1, <2>1, <3>1 DEF Rotated, Aware, Rows, Seens
    <3> QED
      BY <3>2 DEF Supported, Aware
  <2>6. n \in Rows
    BY <2>1 DEF Rotated
  <2> QED
    BY <1>2, <1>3, <1>4, <1>5, <2>4, <2>5, <2>6, WriteKeeps
<1>7. CASE c[1] # "secret"
  <2>1. Configured(n, target)
    BY <1>1, <1>7, ConfiguredTyped
  <2>2. trust' = trust
    BY <1>7 DEF EditStore
  <2> HIDE DEF n, ps
  <2>3. ASSUME ~trust'.raced
        PROVE  Supported(n, trust'.secret) /\ \A q \in Procs : Aware(n, ps[q])
    <3>1. Supported(target, trust.secret) /\ \A q \in Procs : Aware(target, proc[q])
      BY <1>1, <2>2, <2>3 DEF Backed
    <3>2. Supported(n, trust'.secret)
      BY <2>1, <2>2, <3>1 DEF Configured, Supported
    <3>3. \A q \in Procs : Aware(n, ps[q])
      BY <1>2, <2>1, <3>1, IdleTyped DEF Configured, Aware, Rotating
    <3> QED
      BY <3>2, <3>3
  <2>4. n \in Rows /\ trust' \in [secret : Nat, raced : BOOLEAN]
    BY <1>1, <2>1, <2>2 DEF Configured
  <2> QED
    BY <1>2, <1>3, <1>4, <1>5, <2>3, <2>4, WriteKeeps
<1> QED
  BY <1>6, <1>7

LEMMA TurnKeeps ==
  ASSUME TargetInv, Turn
  PROVE  TargetInv'
<1>1. /\ target' = target /\ deleted' = deleted /\ proc' = proc /\ trust' = trust
      /\ endpoint' \in Answers
  BY DEF Turn, Answers
<1>2. budget' \in Bounds
  BY DEF Turn, TargetInv, Typed, Bounds
<1>3. Typed'
  BY <1>1, <1>2 DEF TargetInv, Typed, Ready
<1>4. Dense(target', proc')
  BY <1>1 DEF TargetInv
<1>5. Backed'
  BY <1>1 DEF TargetInv, Backed
<1> QED
  BY <1>3, <1>4, <1>5 DEF TargetInv

LEMMA AgeKeeps ==
  ASSUME TargetInv, Age
  PROVE  TargetInv'
<1>1. target \in Rows /\ target' = [target EXCEPT !.aged = TRUE]
  BY DEF Age, TargetInv, Typed
<1>2. UNCHANGED <<deleted, proc, endpoint, trust, budget>>
  BY DEF Age
<1>3. /\ target' \in Rows
      /\ target'.secret = target.secret /\ target'.validated = target.validated /\ target'.tested = target.tested
      /\ target'.success = target.success /\ target'.failure = target.failure
  BY <1>1 DEF Rows
<1>4. Typed'
  BY <1>2, <1>3 DEF TargetInv, Typed, Ready
<1>5. Stamps(target', proc') = Stamps(target, proc)
  BY <1>2, <1>3 DEF Stamps
<1>6. Dense(target', proc')
  BY <1>5 DEF TargetInv, Dense
<1>7. Backed'
  <2>1. Supported(target, trust.secret) => Supported(target', trust'.secret)
    BY <1>2, <1>3 DEF Supported
  <2>2. \A q \in Procs : Aware(target, proc[q]) => Aware(target', proc'[q])
    BY <1>2, <1>3 DEF Aware
  <2> QED
    BY <1>2, <2>1, <2>2 DEF TargetInv, Backed
<1> QED
  BY <1>4, <1>6, <1>7 DEF TargetInv

LEMMA NextKeeps ==
  ASSUME TargetInv, Next
  PROVE  TargetInv'
<1>1. ASSUME NEW p \in Procs, Work(p)
      PROVE  TargetInv'
  BY <1>1, ValidateKeeps, ProbeKeeps, TestKeeps, PostKeeps, ReloadKeeps, StoreKeeps, EditStoreKeeps, NotFoundKeeps
     DEF Work
<1>2. ASSUME NEW p \in Procs, Call(p) \/ Sweep(p) \/ Edit(p)
      PROVE  TargetInv'
  BY <1>2, CallKeeps, SweepKeeps, EditKeeps
<1> QED
  BY <1>1, <1>2, TurnKeeps, AgeKeeps DEF Next

LEMMA StutterKeeps ==
  ASSUME TargetInv, UNCHANGED vars
  PROVE  TargetInv'
BY DEF vars, TargetInv, Typed, Ready, Dense, Stamps, Backed, Supported, Aware, Rotating

(* A created target has no evidence. *)
LEMMA CreatedTyped ==
  ASSUME NEW profile \in Profiles \cup {"null"}, NEW enabled \in BOOLEAN, NEW tuned \in Actions \cup Fields
  PROVE  /\ Created(profile, enabled, tuned) \in Rows
         /\ Created(profile, enabled, tuned).success = 0 /\ Created(profile, enabled, tuned).failure = 0
         /\ ~Created(profile, enabled, tuned).validated /\ ~Created(profile, enabled, tuned).tested
<1> DEFINE kind == IF profile = "null" THEN "pagerduty" ELSE ProfileKind(profile)
<1>1. kind \in Kinds
  BY ProfileKindTyped DEF Kinds
<1>2. Created(profile, enabled, tuned) =
        [kind |-> kind, profile |-> profile, tuned |-> tuned,
         override |-> "unset", enabled |-> enabled, secret |-> 0, validated |-> FALSE, tested |-> FALSE, success |-> 0,
         failure |-> 0, error |-> "none", check |-> "none", aged |-> FALSE]
  BY Zenon DEF Created
<1> HIDE DEF kind
<1> QED
  BY <1>1, <1>2 DEF Rows, Errors, Checks

LEMMA InitHolds ==
  ASSUME Init
  PROVE  TargetInv
<1>1. budget \in Bounds
  BY DEF Init, Bounds
<1>2. PICK c \in budget.created : target = Created(c[1], c[2], c[3])
  BY DEF Init
<1>3. c[1] \in Profiles \cup {"null"} /\ c[2] \in BOOLEAN /\ c[3] \in Actions \cup Fields
  BY <1>1, <1>2 DEF Bounds
<1>4. /\ target \in Rows /\ target.success = 0 /\ target.failure = 0
      /\ ~target.validated /\ ~target.tested
  BY <1>2, <1>3, CreatedTyped
<1>5. /\ proc \in [Procs -> Calls] /\ \A q \in Procs : proc[q] = Idle
      /\ deleted \in BOOLEAN /\ endpoint \in Answers
  BY IdleTyped DEF Init, Answers
<1>6. trust \in [secret : Nat, raced : BOOLEAN] /\ ~trust.raced
  BY DEF Init
<1>7. Typed
  BY <1>1, <1>4, <1>5, <1>6, IdleTyped DEF Typed, Ready
<1>8. Backed
  BY <1>4, <1>5, IdleTyped DEF Backed, Supported, Aware, Rotating
<1>9. Dense(target, proc)
  <2>1. Idle.now = 0
    BY DEF Idle
  <2>2. Stamps(target, proc) = {}
    BY <1>4, <1>5, <2>1 DEF Stamps
  <2> QED
    BY <2>2 DEF Dense
<1> QED
  BY <1>7, <1>8, <1>9 DEF TargetInv

(* The invariant holds for any number of processes and any bounds: what is *)
(* stored of a target is typed, its stamps are in order, and its evidence  *)
(* is of its present secret unless a check and a change overtook each      *)
(* other.                                                                  *)
THEOREM TargetInvariant == Spec => []TargetInv
<1>1. TargetInv /\ [Next]_vars => TargetInv'
  BY NextKeeps, StutterKeeps
<1> QED
  BY InitHolds, <1>1, PTL DEF Spec

-----------------------------------------------------------------------------
(* Readiness *)

LEMMA TypesHold ==
  ASSUME TargetInv
  PROVE  TypeOK
<1>1. Typed
  BY DEF TargetInv
<1>2. /\ target.kind \in Kinds /\ target.profile \in Profiles \cup {"null"}
      /\ target.tuned \in Actions \cup Fields /\ target.override \in {"unset", "on", "off"}
      /\ target.secret \in Nat /\ {target.success, target.failure} \subseteq Nat
      /\ \A f \in {"enabled", "validated", "tested", "aged"} : target[f] \in BOOLEAN
      /\ target.error \in {"none", "auth", "other"}
      /\ target.check \in {"none", "config", "connectivity", "test"}
  BY <1>1 DEF Typed, Rows, Errors, Checks
<1>3. ASSUME NEW p \in Procs
      PROVE  /\ DOMAIN proc[p] = DOMAIN Idle /\ DOMAIN proc[p].seen = Evidence
             /\ proc[p].pc \in {"idle", "validate", "probe", "test", "post", "reload", "store", "edit"}
  <2>1. proc[p] \in Calls /\ proc[p].seen \in Seens
    BY <1>1 DEF Typed, Calls
  <2>2. DOMAIN proc[p] = {"pc", "seen", "now", "change", "result", "check", "secret"}
    BY <2>1 DEF Calls
  <2>3. DOMAIN Idle = {"pc", "seen", "now", "change", "result", "check", "secret"}
    BY DEF Idle
  <2>4. DOMAIN proc[p].seen = {"validated", "tested", "success", "failure", "error", "check"}
    BY <2>1 DEF Seens
  <2>5. Evidence = {"validated", "tested", "success", "failure", "error", "check"}
    BY DEF Evidence, NoEvidence
  <2>6. proc[p].pc \in {"idle", "validate", "probe", "test", "post", "reload", "store", "edit"}
    BY <2>1 DEF Calls
  <2> QED
    BY <2>2, <2>3, <2>4, <2>5, <2>6
<1>4. deleted \in BOOLEAN /\ endpoint \in {"ok", "auth", "other"}
  BY <1>1 DEF Typed, Answers
<1> QED
  BY <1>2, <1>3, <1>4 DEF TypeOK

(* What each state that a target may read as says of it. *)
LEMMA ReadinessMeans ==
  ASSUME NEW t \in Rows
  PROVE  /\ Readiness(t) \in {"disabled", "ready"} \cup Attention
         /\ Readiness(t) = "disabled" <=> ~t.enabled
         /\ Readiness(t) = "invalid_config" <=> t.enabled /\ ~ConfigOk(t)
         /\ Readiness(t) = "unverified" <=> t.enabled /\ ConfigOk(t) /\ ~t.validated /\ ~t.tested
         /\ Readiness(t) = "ready" <=>
                /\ t.enabled /\ ConfigOk(t) /\ (t.validated \/ t.tested)
                /\ t.failure <= t.success /\ ~(t.success # 0 /\ t.aged)
<1>1. t.failure \in Nat /\ t.success \in Nat
  BY DEF Rows
<1> QED
  BY <1>1 DEF Readiness, Attention

(* A target that reads ready has a success, and with the secret it has.    *)
LEMMA ReadyHasSuccess ==
  ASSUME TargetInv
  PROVE  ReadyIsBacked
<1>1. target \in Rows /\ Backed
  BY DEF TargetInv, Typed
<1>2. ASSUME Readiness(target) = "ready", ~trust.raced
      PROVE  target.success # 0 /\ trust.secret = target.secret
  <2>1. (target.validated \/ target.tested) /\ target.failure <= target.success
    BY <1>1, <1>2, ReadinessMeans
  <2>2. Supported(target, trust.secret)
    BY <1>1, <1>2 DEF Backed
  <2>3. target.success \in Nat /\ target.failure \in Nat
    BY <1>1 DEF Rows
  <2> QED
    BY <2>1, <2>2, <2>3 DEF Supported
<1> QED
  BY <1>2 DEF ReadyIsBacked

LEMMA RecommendedFor ==
  /\ \A state \in {"unverified", "stale", "degraded"} : recommended_action(state) = "validate"
  /\ recommended_action("auth_failed") = "rotate_secret"
  /\ recommended_action("invalid_config") = "fix_config"
  /\ recommended_action("test_failed") = "test"
  /\ recommended_action("disabled") = "enable"
  /\ recommended_action("ready") = "none"
BY Zenon DEF recommended_action

(* The record of a check of the present target that has just passed.       *)
Passed(check) == [Idle EXCEPT !.result = "ok", !.now = Now, !.seen = Loaded(target), !.check = check]

(* A check that passes now is later than every failure. *)
LEMMA PassMakesReady ==
  ASSUME TargetInv, NEW check \in {"config", "connectivity", "test"}, target.enabled, ConfigOk(target)
  PROVE  Readiness(Judged(target, Passed(check))) = "ready"
<1>1. /\ target \in Rows /\ Now \in Nat /\ Now # 0
      /\ \A v \in Stamps(target, proc) : v < Now
  BY NowTyped DEF TargetInv, Typed
<1>2. Loaded(target) \in Seens
  BY <1>1, LoadedTyped
<1>3. PICK now \in Nat : now = Now
  BY <1>1
<1>4. PICK c : c = Passed(check)
  OBVIOUS
<1>5. c \in Calls /\ c.result = "ok" /\ c.now = now /\ c.check = check
  <2>1. c = [Idle EXCEPT !.result = "ok", !.now = now, !.seen = Loaded(target), !.check = check]
    BY <1>3, <1>4, Zenon DEF Passed
  <2> QED
    BY <1>2, <2>1, IdleTyped DEF Calls, Answers, Checks
<1>6. PICK n : n = Judged(target, c)
  OBVIOUS
<1>7. JudgedSo(n, target, c)
  BY <1>1, <1>5, <1>6, JudgedTyped
<1>8. target.failure <= now
  <2>1. target.failure \in Nat
    BY <1>1 DEF Rows
  <2>2. target.failure # 0 => target.failure \in Stamps(target, proc)
    BY DEF Stamps
  <2> QED
    BY <1>1, <1>3, <2>1, <2>2
<1>9. /\ n \in Rows /\ n.enabled /\ n.kind = target.kind /\ n.profile = target.profile
      /\ (n.validated \/ n.tested) /\ n.failure <= n.success /\ ~n.aged
  BY <1>5, <1>7, <1>8 DEF JudgedSo
<1>10. ConfigOk(n)
  BY <1>9 DEF ConfigOk, Resolved
<1>11. Readiness(n) = "ready"
  BY <1>9, <1>10, ReadinessMeans
<1> QED
  BY <1>4, <1>6, <1>11

(* A new secret that nothing overtakes leaves the target unverified.       *)
LEMMA RotationAsksValidation ==
  ASSUME TargetInv, target.enabled, ConfigOk(target)
  PROVE  Readiness(Edited(target, Loaded(target), "secret", "new")) = "unverified"
<1>1. target \in Rows
  BY DEF TargetInv, Typed
<1>2. PICK seen \in Seens : /\ seen = Loaded(target) /\ seen.validated = target.validated
                            /\ seen.tested = target.tested
  BY <1>1, LoadedTyped
<1>3. PICK n : n = Edited(target, seen, "secret", "new")
  OBVIOUS
<1>4. Rotated(n, target, seen)
  BY <1>1, <1>3, RotatedTyped
<1>5. n \in Rows /\ n.enabled /\ ~n.validated /\ ~n.tested /\ n.kind = target.kind /\ n.profile = target.profile
  BY <1>2, <1>4 DEF Rotated
<1>6. ConfigOk(n)
  BY <1>5 DEF ConfigOk, Resolved
<1>7. Readiness(n) = "unverified"
  BY <1>5, <1>6, ReadinessMeans
<1> QED
  BY <1>2, <1>3, <1>7

(* A target that is switched on is not disabled.                           *)
LEMMA EnablingEnables ==
  ASSUME TargetInv
  PROVE  Readiness(Edited(target, Loaded(target), "enabled", "on")) # "disabled"
<1>1. target \in Rows
  BY DEF TargetInv, Typed
<1>2. PICK n : n = Edited(target, Loaded(target), "enabled", "on")
  OBVIOUS
<1>3. n = [target EXCEPT !.enabled = ("on" = "on")]
  BY <1>2, Zenon DEF Edited
<1>4. PICK b \in BOOLEAN : b # FALSE
  OBVIOUS
<1>5. n = [target EXCEPT !.enabled = b]
  <2>1. ("on" = "on") = b
    BY <1>4
  <2> QED
    BY <1>3, <2>1, Zenon
<1>6. n \in Rows /\ n.enabled
  BY <1>1, <1>4, <1>5 DEF Rows
<1>7. Readiness(n) # "disabled"
  BY <1>6, ReadinessMeans
<1> QED
  BY <1>2, <1>7

(* The preset of a kind is of that kind.                                   *)
LEMMA DefaultProfileFits ==
  ASSUME NEW kind \in Kinds
  PROVE  DefaultProfile(kind) \in Profiles /\ ProfileKind(DefaultProfile(kind)) = kind /\ DefaultProfile(kind) # "null"
<1>1. CASE kind = "jira"
  BY <1>1 DEF DefaultProfile, ProfileKind, Profiles
<1>2. CASE kind # "jira"
  BY <1>2 DEF DefaultProfile, ProfileKind, Profiles, Kinds
<1> QED
  BY <1>1, <1>2

(* Pointing the target at a preset makes its configuration consistent.     *)
LEMMA PresetFixes ==
  ASSUME TargetInv
  PROVE  Readiness(Edited(target, Loaded(target), "profile", DefaultProfile(target.kind))) # "invalid_config"
<1>1. target \in Rows /\ target.kind \in Kinds
  BY DEF TargetInv, Typed, Rows
<1>2. PICK preset \in Profiles : /\ preset = DefaultProfile(target.kind)
                                 /\ ProfileKind(preset) = target.kind /\ preset # "null"
  BY <1>1, DefaultProfileFits
<1>3. PICK n : n = Edited(target, Loaded(target), "profile", preset)
  OBVIOUS
<1>4. n = [target EXCEPT !.profile = preset, !.kind = ProfileKind(preset)]
  BY <1>3, Zenon DEF Edited
<1>5. PICK kind \in Kinds : kind = ProfileKind(preset)
  BY <1>1, <1>2
<1>6. n = [target EXCEPT !.profile = preset, !.kind = kind]
  BY <1>4, <1>5
<1>7. n \in Rows /\ n.profile = preset /\ n.kind = kind
  BY <1>1, <1>6 DEF Rows
<1>8. ConfigOk(n)
  BY <1>2, <1>5, <1>7 DEF ConfigOk, Resolved
<1>9. Readiness(n) # "invalid_config"
  BY <1>7, <1>8, ReadinessMeans
<1> QED
  BY <1>2, <1>3, <1>9

LEMMA EditsTyped ==
  ASSUME target \in Rows
  PROVE  /\ Edited(target, Loaded(target), "enabled", "on") \in Rows
         /\ Edited(target, Loaded(target), "profile", DefaultProfile(target.kind)) \in Rows
<1>1. <<"enabled", "on">> \in Changes
  BY DEF Changes
<1>2. target.kind \in Kinds
  BY DEF Rows
<1>3. <<"profile", DefaultProfile(target.kind)>> \in Changes
  BY <1>2, DefaultProfileFits DEF Changes
<1>4. Configured(Edited(target, Loaded(target), "enabled", "on"), target)
  <2>1. PICK c \in Changes : c = <<"enabled", "on">>
    BY <1>1
  <2>2. c[1] = "enabled" /\ c[2] = "on"
    BY <2>1
  <2> QED
    BY <2>2, ConfiguredTyped
<1>5. Configured(Edited(target, Loaded(target), "profile", DefaultProfile(target.kind)), target)
  <2>1. PICK c \in Changes : c = <<"profile", DefaultProfile(target.kind)>>
    BY <1>3
  <2>2. c[1] = "profile" /\ c[2] = DefaultProfile(target.kind)
    BY <2>1
  <2> QED
    BY <2>2, ConfiguredTyped
<1> QED
  BY <1>4, <1>5 DEF Configured

(* The button offered for a state leads out of it.                         *)
LEMMA GuidanceWorks ==
  ASSUME TargetInv
  PROVE  GuidanceHelps
<1> DEFINE state == Readiness(target)
           does == recommended_action(state)
           after(t) == recommended_action(Readiness(t))
           rotated == Edited(target, Loaded(target), "secret", "new")
           enabled == Edited(target, Loaded(target), "enabled", "on")
           fixed == Edited(target, Loaded(target), "profile", DefaultProfile(target.kind))
<1>1. target \in Rows
  BY DEF TargetInv, Typed
<1>2. /\ state \in {"disabled", "ready"} \cup Attention
      /\ state = "disabled" <=> ~target.enabled
      /\ state = "invalid_config" <=> target.enabled /\ ~ConfigOk(target)
  BY <1>1, ReadinessMeans
<1>3. state \in {"disabled", "ready", "unverified", "degraded", "invalid_config", "auth_failed", "test_failed", "stale"}
  BY <1>2 DEF Attention
<1>4. (rollup(state) = "ready") = (does = "none")
  BY <1>3, RecommendedFor DEF rollup, Attention
<1>5. does \in {"validate", "test"} => \A check \in {"config", "connectivity", "test"} :
                                          Readiness(Judged(target, Passed(check))) = "ready"
  <2> SUFFICES ASSUME does \in {"validate", "test"}, NEW check \in {"config", "connectivity", "test"}
               PROVE  Readiness(Judged(target, Passed(check))) = "ready"
    OBVIOUS
  <2>1. state # "disabled" /\ state # "invalid_config"
    BY RecommendedFor
  <2>2. target.enabled /\ ConfigOk(target)
    BY <1>2, <2>1
  <2> QED
    BY <2>2, PassMakesReady
<1>6. does = "rotate_secret" => after(rotated) = "validate"
  <2> SUFFICES ASSUME does = "rotate_secret"
               PROVE  after(rotated) = "validate"
    OBVIOUS
  <2>1. state # "disabled" /\ state # "invalid_config"
    BY RecommendedFor
  <2>2. Readiness(rotated) = "unverified"
    BY <1>2, <2>1, RotationAsksValidation
  <2> QED
    BY <2>2, RecommendedFor
<1>7. ASSUME NEW t \in Rows, Readiness(t) # "disabled"
      PROVE  after(t) # "enable"
  <2>1. Readiness(t) \in {"ready", "unverified", "degraded", "invalid_config", "auth_failed", "test_failed", "stale"}
    BY <1>7, ReadinessMeans DEF Attention
  <2> QED
    BY <2>1, RecommendedFor
<1>8. ASSUME NEW t \in Rows, Readiness(t) # "invalid_config"
      PROVE  after(t) # "fix_config"
  <2>1. Readiness(t) \in {"ready", "unverified", "degraded", "disabled", "auth_failed", "test_failed", "stale"}
    BY <1>8, ReadinessMeans DEF Attention
  <2> QED
    BY <2>1, RecommendedFor
<1>9. after(enabled) # "enable"
  BY <1>1, <1>7, EnablingEnables, EditsTyped
<1>10. after(fixed) # "fix_config"
  BY <1>1, <1>8, PresetFixes, EditsTyped
<1> HIDE DEF state, does, after, rotated, enabled, fixed
<1>11. CASE does = "validate"
  <2>1. \A check \in {"config", "connectivity"} : Readiness(Judged(target, Passed(check))) = "ready"
    BY <1>5, <1>11
  <2> QED
    BY <1>4, <1>11, <2>1, Zenon DEF GuidanceHelps, Passed, state, does
<1>12. CASE does = "test"
  <2>1. Readiness(Judged(target, Passed("test"))) = "ready"
    BY <1>5, <1>12
  <2> QED
    BY <1>4, <1>12, <2>1, Zenon DEF GuidanceHelps, Passed, state, does
<1>13. CASE does = "rotate_secret"
  BY <1>4, <1>6, <1>13, Zenon DEF GuidanceHelps, state, does, after, rotated
<1>14. CASE does = "enable"
  BY <1>4, <1>9, <1>14, Zenon DEF GuidanceHelps, state, does, after, enabled
<1>15. CASE does = "fix_config"
  BY <1>4, <1>10, <1>15, Zenon DEF GuidanceHelps, state, does, after, fixed
<1>16. CASE does = "none"
  BY <1>4, <1>16, Zenon DEF GuidanceHelps, state, does
<1>17. does \in {"validate", "test", "rotate_secret", "enable", "fix_config", "none"}
  BY <1>3, RecommendedFor DEF does
<1> QED
  BY <1>11, <1>12, <1>13, <1>14, <1>15, <1>16, <1>17

(* A target is trusted on a success obtained with its present url and      *)
(* secret, or a check and a change overtook each other; and the button its *)
(* state offers leads out of it: for any number of processes and bounds.   *)
THEOREM TrustStaysBacked == Spec => []TrustIsBacked
<1>1. TargetInv => TrustIsBacked
  BY TypesHold, ReadyHasSuccess, GuidanceWorks DEF TrustIsBacked
<1> QED
  BY <1>1, TargetInvariant, PTL

-----------------------------------------------------------------------------
(* The policy of a target *)

(* Which preset silences what goes outwards: only the one that was chosen. *)
LEMMA SilencedByChoice ==
  ASSUME NEW t \in Rows, NEW w
  PROVE  ProfileDisables(Resolved(t), w) <=> t.profile = "pagerduty-readonly" /\ w \in Outbound
<1>1. t.kind \in Kinds
  BY DEF Rows
<1>2. DefaultProfile(t.kind) # "pagerduty-readonly"
  BY <1>1 DEF DefaultProfile, Kinds
<1> QED
  BY <1>2 DEF ProfileDisables, Resolved

(* The three layers: what the adapter can do, less what the operator has   *)
(* switched off, less what the preset silences and nobody has switched on. *)
LEMMA PolicyOfRow ==
  ASSUME target \in Rows
  PROVE  PolicyIsLayered
<1> DEFINE override(w) == IF w = target.tuned THEN target.override ELSE "unset"
           all == Actions \cup Fields
           allowed == {w \in all : Verdict(target.kind, Resolved(target), override(w), w) = "allowed"}
           capable == {w \in all : Capable(target.kind, w)}
           silenced == IF target.profile = "pagerduty-readonly" THEN Outbound ELSE {}
           tuned(value) == IF target.override = value THEN {target.tuned} ELSE {}
           disabled(w) == ProfileDisables(Resolved(target), w)
<1>1. target.tuned \in all /\ target.override \in {"unset", "on", "off"}
  BY DEF Rows
<1>2. \A w : disabled(w) <=> w \in silenced
  BY SilencedByChoice
<1>3. \A w \in all : Verdict(target.kind, Resolved(target), override(w), w) = "allowed" <=>
                        /\ Capable(target.kind, w) /\ override(w) # "off"
                        /\ ~(override(w) = "unset" /\ disabled(w))
  BY DEF Verdict
<1>4. \A w \in all : /\ override(w) = "off" <=> w \in tuned("off")
                     /\ override(w) = "on" <=> w \in tuned("on")
                     /\ override(w) \in {"unset", "on", "off"}
  BY <1>1
<1>5. allowed = capable \ (tuned("off") \cup (silenced \ tuned("on")))
  <2>1. ASSUME NEW w \in all
        PROVE  w \in allowed <=> w \in capable \ (tuned("off") \cup (silenced \ tuned("on")))
    <3>1. w \in allowed <=> Capable(target.kind, w) /\ override(w) # "off" /\ ~(override(w) = "unset" /\ disabled(w))
      BY <1>3
    <3>2. override(w) = "unset" <=> w \notin tuned("off") /\ w \notin tuned("on")
      BY <1>4
    <3>3. w \in capable <=> Capable(target.kind, w)
      OBVIOUS
    <3> HIDE DEF allowed, capable, override, silenced, tuned, disabled
    <3> QED
      BY <1>2, <1>4, <3>1, <3>2, <3>3
  <2> QED
    BY <2>1
<1>6. ASSUME NEW w \in capable \ allowed
      PROVE  Source(target.kind, Resolved(target), override(w), w) = IF w \in tuned("off") THEN "override" ELSE "profile"
  <2>1. Capable(target.kind, w) /\ (override(w) = "off" \/ (override(w) = "unset" /\ disabled(w)))
    BY <1>3
  <2>2. CASE override(w) = "off"
    <3>1. w \in tuned("off")
      BY <1>4, <2>2
    <3>2. Source(target.kind, Resolved(target), override(w), w) = "override"
      BY <2>1, <2>2 DEF Source
    <3> QED
      BY <3>1, <3>2
  <2>3. CASE override(w) = "unset" /\ disabled(w)
    <3>1. w \notin tuned("off")
      BY <1>4, <2>3
    <3>2. Source(target.kind, Resolved(target), override(w), w) = "profile"
      BY <2>1, <2>3 DEF Source, Verdict
    <3> QED
      BY <3>1, <3>2
  <2> QED
    BY <2>1, <2>2, <2>3
<1> QED
  BY <1>5, <1>6, Zenon DEF PolicyIsLayered

(* What a target may do is what its adapter can, less what its operator or *)
(* its preset took away, after every switch of preset, kind and override.  *)
THEOREM PolicyStaysLayered == Spec => []PolicyIsLayered
<1>1. TargetInv => target \in Rows
  BY DEF TargetInv, Typed
<1>2. TargetInv => PolicyIsLayered
  BY <1>1, PolicyOfRow
<1> QED
  BY <1>2, TargetInvariant, PTL
=============================================================================
