--------------------------- MODULE ExternalLinks ----------------------------
(***************************************************************************)
(* The link between an operator incident and a vendor's incident in        *)
(* app/incident_sync.py: a successful sync makes or renews it, a refresh   *)
(* or the sweep's reconciliation observes the vendor, an operator detaches *)
(* it, relinks it to a reference the vendor confirms, or applies what was  *)
(* observed to the local incident.                                         *)
(*                                                                         *)
(* One incident and one target whose adapter can read back and whose       *)
(* policy allows every action (IncidentTargets has the policies).  What    *)
(* the vendor does, the read of the row and the commit are steps of their  *)
(* own; a commit writes the attributes whose value differs from the one    *)
(* read.  Only the first look-up, which finds no row, and its insert are   *)
(* one step: IncidentSync has the race of two inserts, and the records and *)
(* their retries.  Here a transition is mirrored, or its mirroring is      *)
(* lost.  No name here is one of its names.                                *)
(***************************************************************************)
EXTENDS Integers, FiniteSets

CONSTANTS
    Askers,     \* server processes
    Own,        \* the reference the vendor gives to this incident's signal
    Others,     \* further references an operator may relink to
    Opportunities   \* bounds: records of how many local transitions, operator
                \* calls (and which), vendor changes and failing requests there are

Refs == {Own} \cup Others
States == {"open", "acknowledged", "resolved", "gone"}
Calls == {"refresh", "detach", "relink", "apply", "push",
          "external_resolve", "external_reopen", "external_acknowledge"}

ASSUME LinkAssumption ==
    /\ IsFiniteSet(Askers) /\ Askers # {} /\ Own \notin Others /\ "none" \notin Refs
    /\ Opportunities \subseteq [local : Nat, calls : Nat, ops : SUBSET Calls, turns : Nat, faults : Nat]

VARIABLES
    local,      \* the operator incident: open (in any of its open states) or recovered
    link,       \* the IncidentExternalLink row
    vendor,     \* the vendor's incidents by reference
    asking,     \* what each process is doing
    held,       \* history: the references the link has had
    found,      \* history: what the vendor was found to be, by reference
    left        \* what is left of the bounds

linkVars == <<local, link, vendor, asking, held, found, left>>
history == <<held, found>>

(* checked: whether the last check is older than a day; stale: whether the *)
(* last sync is.                                                           *)
NoLink == [ref |-> "none", detached |-> FALSE, status |-> "none", exists |-> "null",
           checked |-> "never", stale |-> FALSE]

NotAsking == [pc |-> "idle", seen |-> NoLink, ref |-> "none", snap |-> "none", act |-> "none"]

AskingAt(p, pc) == asking[p].pc = pc
Move(p, changed) == asking' = [asking EXCEPT ![p] = changed]

Attached(l) == l # NoLink /\ ~l.detached

(* A commit writes what differs from the row that was read. *)
Written(l, seen, new) == [f \in DOMAIN l |-> IF new[f] = seen[f] THEN l[f] ELSE new[f]]

ExtOpen == {"open", "acknowledged"}

(* classify_link_status, up to the difference of linked and refreshed. *)
LinkStatus(l) ==
    IF l.exists = "no" THEN "missing_external"
    ELSE IF \/ l.status = "resolved" /\ local = "open"
            \/ l.status \in ExtOpen /\ local = "recovered" THEN "drifted"
    ELSE IF l.stale THEN "stale" ELSE "aligned"

(* What incident_sync_status offers to apply. *)
Offered ==
    IF ~Attached(link) THEN "none"
    ELSE IF LinkStatus(link) = "missing_external" THEN "accept_missing"
    ELSE IF LinkStatus(link) = "drifted" /\ link.status = "resolved" THEN "accept_resolved"
    ELSE "none"

(* external_state_suggestions, without those on owner and severity: what   *)
(* the console says of the two sides, worked out apart from the verdict.   *)
suggestions ==
    IF ~Attached(link) THEN {}
    ELSE IF link.exists = "no" THEN {"external_missing"}
    ELSE CASE link.status = "resolved" /\ local = "open" -> {"external_resolved"}
           [] link.status = "acknowledged" /\ local = "open" -> {"external_acknowledged"}
           [] \/ link.status = "open" /\ local = "open"
              \/ link.status = "resolved" /\ local = "recovered" -> {"aligned"}
           [] OTHER -> {}

(* drifted, the drift backlog: an active link whose verdict is actionable. *)
drifted == Attached(link) /\ LinkStatus(link) \in {"drifted", "missing_external", "stale"}

Spend(what) == left[what] > 0 /\ left' = [left EXCEPT ![what] = @ - 1]
May(op) == op \in left.ops /\ Spend("calls")

-----------------------------------------------------------------------------
(* Transitions and their mirroring *)

(* The sweep recovers or reopens the incident; _emit_sync follows. *)
Transition(p) ==
    /\ AskingAt(p, "idle") /\ Spend("local")
    /\ local' = IF local = "open" THEN "recovered" ELSE "open"
    /\ Move(p, [NotAsking EXCEPT !.pc = "mirror", !.act = local'])
    /\ UNCHANGED <<link, vendor, history>>

(* push_outward sends the state the incident has. *)
Push(p) ==
    /\ AskingAt(p, "idle") /\ May("push")
    /\ Move(p, [NotAsking EXCEPT !.pc = "mirror", !.act = local])
    /\ UNCHANGED <<local, link, vendor, history>>

(* external_action sends a typed event for an active link. *)
ExternalAction(p) ==
    /\ AskingAt(p, "idle") /\ Attached(link)
    /\ \/ May("external_resolve") /\ Move(p, [NotAsking EXCEPT !.pc = "mirror", !.act = "recovered"])
       \/ May("external_reopen") /\ Move(p, [NotAsking EXCEPT !.pc = "mirror", !.act = "open"])
       \/ May("external_acknowledge") /\ Move(p, [NotAsking EXCEPT !.pc = "mirror", !.act = "acknowledged"])
    /\ UNCHANGED <<local, link, vendor, history>>

(* A trigger opens the incident of this signal anew; a resolve closes it,  *)
(* unless it is gone; what is open can be acknowledged.                    *)
Taken(was, act) ==
    CASE act = "open" -> "open"
      [] act = "recovered" -> IF was = "gone" THEN was ELSE "resolved"
      [] OTHER -> IF was = "open" THEN "acknowledged" ELSE was

(* The POST of _attempt: the vendor takes the event and answers, or the    *)
(* request fails, whether or not the vendor has taken it.                  *)
Mirror(p) ==
    LET after == [vendor EXCEPT ![Own] = Taken(@, asking[p].act)]
    IN  /\ AskingAt(p, "mirror")
        /\ \/ vendor' = after /\ Move(p, [NotAsking EXCEPT !.pc = "upsert"]) /\ UNCHANGED left
           \/ vendor' \in {vendor, after} /\ Move(p, NotAsking) /\ Spend("faults")
        /\ UNCHANGED <<local, link, history>>

(* Mutant of Upserted: a successful sync takes the link up again. *)
UpsertedActive(l) == [l EXCEPT !.ref = Own, !.stale = FALSE, !.detached = FALSE]

(* _upsert_link: the vendor's answer names the reference of the signal;    *)
(* whether the link is detached, and what was observed, is not touched.    *)
Upserted(l) == [l EXCEPT !.ref = Own, !.stale = FALSE]

(* The look-up of _upsert_link. *)
Upsert(p) ==
    /\ AskingAt(p, "upsert")
    /\ IF link = NoLink
       THEN /\ link' = Upserted(NoLink) /\ held' = held \cup {Own}
            /\ Move(p, NotAsking)
       ELSE /\ Move(p, [NotAsking EXCEPT !.pc = "renew", !.seen = link])
            /\ UNCHANGED <<link, held>>
    /\ UNCHANGED <<local, vendor, found, left>>

(* Its commit; the time of the sync is always written. *)
Renew(p) ==
    LET seen == asking[p].seen
    IN  /\ AskingAt(p, "renew")
        /\ link' = [Written(link, seen, Upserted(seen)) EXCEPT !.stale = FALSE]
        /\ held' = held \cup {link'.ref}
        /\ Move(p, NotAsking)
        /\ UNCHANGED <<local, vendor, found, left>>

-----------------------------------------------------------------------------
(* refresh, reconcile *)

Refresh(p) ==
    /\ AskingAt(p, "idle") /\ Attached(link) /\ May("refresh")
    /\ Move(p, [NotAsking EXCEPT !.pc = "fetch", !.seen = link, !.ref = link.ref])
    /\ UNCHANGED <<local, link, vendor, history>>

(* Mutant of Needs: a link that was checked once is left alone. *)
NeedsFirst(l) == l.checked = "never"

(* A link that was never checked, or whose last check or sync has aged. *)
Needs(l) == l.checked # "lately" \/ l.stale

Reconcile(p) ==
    /\ AskingAt(p, "idle") /\ Attached(link) /\ Needs(link)
    /\ Move(p, [NotAsking EXCEPT !.pc = "fetch", !.seen = link, !.ref = link.ref])
    /\ UNCHANGED <<local, link, vendor, history, left>>

(* What the vendor answers, or an error, is kept for the commit. *)
Answer(p, snap) ==
    /\ Move(p, [asking[p] EXCEPT !.pc = "store", !.snap = snap])
    /\ found' = IF snap = "error" THEN found ELSE [found EXCEPT ![asking[p].ref] = @ \cup {snap}]

(* _fetch: the vendor's state, an empty answer, an error, or an answer     *)
(* that is refused but whose body says that the incident does not exist.   *)
Fetch(p) ==
    /\ AskingAt(p, "fetch")
    /\ \/ Answer(p, vendor[asking[p].ref]) /\ UNCHANGED left
       \/ Spend("faults") /\ \E snap \in {"unknown", "error", "denied"} : Answer(p, snap)
    /\ UNCHANGED <<local, link, vendor, held>>

(* Mutant of Observed: an error reads as not found. *)
ObservedError(snap) ==
    CASE snap \in {"gone", "error"} -> [exists |-> "no", status |-> "missing"]
      [] snap = "denied" -> [exists |-> "no", status |-> "unknown"]
      [] OTHER -> [exists |-> "yes", status |-> snap]

(* What an answer says is kept, of a refused one only that there is no     *)
(* such incident.                                                          *)
Observed(snap) ==
    CASE snap = "gone" -> [exists |-> "no", status |-> "missing"]
      [] snap = "denied" -> [exists |-> "no", status |-> "unknown"]
      [] OTHER -> [exists |-> "yes", status |-> snap]

(* An error leaves what is known; the time of the check is always written. *)
Refreshed(l, seen, snap) ==
    LET obs == Observed(snap)
        new == IF snap = "error" /\ obs.exists # "no" THEN seen
               ELSE [seen EXCEPT !.exists = obs.exists, !.status = obs.status]
    IN  [Written(l, seen, new) EXCEPT !.checked = "lately"]

Store(p) ==
    /\ AskingAt(p, "store") /\ asking[p].act = "none"
    /\ link' = Refreshed(link, asking[p].seen, asking[p].snap)
    /\ Move(p, NotAsking)
    /\ UNCHANGED <<local, vendor, history, left>>

-----------------------------------------------------------------------------
(* detach, relink, apply_from_external *)

Detach(p) ==
    /\ AskingAt(p, "idle") /\ link # NoLink /\ May("detach")
    /\ Move(p, [NotAsking EXCEPT !.pc = "detach", !.seen = link])
    /\ UNCHANGED <<local, link, vendor, history>>

(* The commit of a detachment, an operator's or that of a missing object. *)
DetachStore(p) ==
    LET seen == asking[p].seen
    IN  /\ AskingAt(p, "detach")
        /\ link' = Written(link, seen, [seen EXCEPT !.detached = TRUE])
        /\ Move(p, NotAsking)
        /\ UNCHANGED <<local, vendor, history, left>>

Relink(p) ==
    /\ AskingAt(p, "idle") /\ May("relink")
    /\ \E r \in Refs : Move(p, [NotAsking EXCEPT !.pc = "fetch", !.ref = r, !.act = "relink"])
    /\ UNCHANGED <<local, link, vendor, history>>

Relinked(l, r, snap) ==
    [l EXCEPT !.ref = r, !.detached = FALSE, !.status = snap, !.exists = "yes", !.checked = "lately"]

Confirmed(snap) == snap \notin {"gone", "error", "denied"}

(* The row is looked up after the vendor has answered; a reference it does *)
(* not confirm is refused.                                                 *)
RelinkFind(p) ==
    LET r == asking[p].ref
        snap == asking[p].snap
    IN  /\ AskingAt(p, "store") /\ asking[p].act = "relink"
        /\ IF Confirmed(snap) /\ link = NoLink
           THEN link' = Relinked(NoLink, r, snap) /\ held' = held \cup {r}
           ELSE UNCHANGED <<link, held>>
        /\ Move(p, IF Confirmed(snap) /\ link # NoLink THEN [asking[p] EXCEPT !.pc = "relink", !.seen = link]
                                                      ELSE NotAsking)
        /\ UNCHANGED <<local, vendor, found, left>>

(* Its commit; the time of the check is always written. *)
RelinkStore(p) ==
    LET seen == asking[p].seen
    IN  /\ AskingAt(p, "relink")
        /\ link' = [Written(link, seen, Relinked(seen, asking[p].ref, asking[p].snap)) EXCEPT !.checked = "lately"]
        /\ held' = held \cup {link'.ref}
        /\ Move(p, NotAsking)
        /\ UNCHANGED <<local, vendor, found, left>>

(* The operator applies what the status offers; the status is read in      *)
(* sessions of its own.                                                    *)
ApplyOffer(p) ==
    /\ AskingAt(p, "idle") /\ Offered # "none" /\ May("apply")
    /\ Move(p, [NotAsking EXCEPT !.pc = "apply", !.act = Offered])
    /\ UNCHANGED <<local, link, vendor, history>>

AcceptMissing(p) ==
    /\ AskingAt(p, "apply") /\ asking[p].act = "accept_missing"
    /\ Move(p, [NotAsking EXCEPT !.pc = "detach", !.seen = link])
    /\ UNCHANGED <<local, link, vendor, history, left>>

(* mark_recovered: a recovered incident is left alone. *)
AcceptResolved(p) ==
    /\ AskingAt(p, "apply") /\ asking[p].act = "accept_resolved"
    /\ local' = "recovered"
    /\ Move(p, IF local = "recovered" THEN NotAsking ELSE [NotAsking EXCEPT !.pc = "mirror", !.act = "recovered"])
    /\ UNCHANGED <<link, vendor, history, left>>

-----------------------------------------------------------------------------
(* The world *)

Turn ==
    /\ Spend("turns")
    /\ \E r \in Refs : \E s \in States \ {vendor[r]} :
        vendor' = [vendor EXCEPT ![r] = s]
    /\ UNCHANGED <<local, link, asking, history>>

(* A day passes since the last check. *)
Age ==
    /\ link.checked = "lately"
    /\ link' = [link EXCEPT !.checked = "aged"]
    /\ UNCHANGED <<local, vendor, asking, history, left>>

(* A day passes since the last sync. *)
GoStale ==
    /\ link # NoLink /\ ~link.stale
    /\ link' = [link EXCEPT !.stale = TRUE]
    /\ UNCHANGED <<local, vendor, asking, history, left>>

LinkInit ==
    /\ local = "open" /\ link = NoLink
    /\ vendor \in [Refs -> {"open", "gone"}]
    /\ asking = [p \in Askers |-> NotAsking]
    /\ held = {} /\ found = [r \in Refs |-> {}]
    /\ left \in Opportunities

Proceeds(p) ==
    \/ Mirror(p) \/ Upsert(p) \/ Renew(p) \/ Fetch(p) \/ Store(p) \/ DetachStore(p)
    \/ RelinkFind(p) \/ RelinkStore(p) \/ AcceptMissing(p) \/ AcceptResolved(p)

LinkNext ==
    \/ \E p \in Askers :
        \/ Transition(p) \/ Push(p) \/ ExternalAction(p) \/ Refresh(p) \/ Reconcile(p)
        \/ Detach(p) \/ Relink(p) \/ ApplyOffer(p) \/ Proceeds(p)
    \/ Turn \/ Age \/ GoStale

LinkSpec == LinkInit /\ [][LinkNext]_linkVars

(* Started requests go on, the scheduler calls the sweep, time passes. *)
FairLinkSpec == LinkSpec /\ WF_linkVars(Age) /\ \A p \in Askers : WF_linkVars(Proceeds(p)) /\ WF_linkVars(Reconcile(p))

-----------------------------------------------------------------------------
(* Properties *)

Links == [ref : Refs \cup {"none"}, detached : BOOLEAN, exists : {"null", "yes", "no"},
          status : {"none", "open", "acknowledged", "resolved", "unknown", "missing"},
          checked : {"never", "lately", "aged"}, stale : BOOLEAN]
LinkRequests == [pc : {"idle", "mirror", "upsert", "renew", "fetch", "store", "relink", "detach", "apply"},
                 seen : Links, ref : Refs \cup {"none"}, snap : States \cup {"none", "unknown", "denied", "error"},
                 act : {"none", "open", "acknowledged", "recovered", "relink", "accept_missing", "accept_resolved"}]

(* The two incidents, the row between them and the requests under way have *)
(* their types.                                                            *)
LinkTypeOK ==
    /\ local \in {"open", "recovered"} /\ link \in Links
    /\ vendor \in [Refs -> States] /\ asking \in [Askers -> LinkRequests]
    /\ held \subseteq Refs /\ found \in [Refs -> SUBSET (States \cup {"unknown", "denied"})]

(* What a link says of the vendor, and so what an operator is offered to   *)
(* apply, was answered by the vendor for a reference this link has had: a  *)
(* request that fails never reads as missing or resolved.                  *)
AnswersOnly ==
    /\ link.exists = "no" => \E r \in held : found[r] \cap {"gone", "denied"} # {}
    /\ link.status \in States => \E r \in held : link.status \in found[r]

(* The reference of the link is one it has had; a request that commits has *)
(* read a link with such a reference; what it holds for the commit the     *)
(* vendor has answered, unless there was no answer, and a refresh asked    *)
(* for a reference the link has had.                                       *)
LinkRequestsBacked ==
    /\ link.ref # "none" => link.ref \in held
    /\ link.ref = "none" => link = NoLink
    /\ \A p \in Askers :
        /\ AskingAt(p, "apply") => link # NoLink
        /\ asking[p].pc \in {"renew", "detach", "relink"} => link # NoLink /\ asking[p].seen.ref \in held
        /\ asking[p].pc \in {"fetch", "store", "relink"} =>
            /\ asking[p].ref \in Refs /\ asking[p].act \in {"none", "relink"}
            /\ asking[p].act = "none" => link # NoLink /\ asking[p].ref \in held
        /\ asking[p].pc \in {"store", "relink"} =>
            asking[p].snap = "error" \/ asking[p].snap \in found[asking[p].ref]
        /\ AskingAt(p, "relink") => Confirmed(asking[p].snap) /\ asking[p].act = "relink"

(* What a link and the requests under way say of the vendor is what it has *)
(* answered (_apply_snapshot, relink, apply_from_external).                *)
ObservedOnly == LinkTypeOK /\ AnswersOnly /\ LinkRequestsBacked

(* A detached link stays detached through refreshes that are under way,    *)
(* later syncs and reconciliations, and detachments that overtake each     *)
(* other: only the commit of a relink takes it up again, to a reference    *)
(* that the vendor has confirmed.                                          *)
DetachedStays ==
    [][link.detached /\ ~link'.detached =>
        \E p \in Askers : /\ AskingAt(p, "relink") /\ asking'[p] = NotAsking
                          /\ \E snap \in found[asking[p].ref] : Confirmed(snap)]_linkVars

(* Drift is noticed and goes away by itself: when vendor and operators are *)
(* quiet, the verdict on an active link and what the console suggests      *)
(* become the comparison of the two sides as they are, with an aligned     *)
(* link stale a day after its last sync, and the backlog holds the link    *)
(* exactly when it has drifted, is missing or stale, whatever refreshes of *)
(* an older reference were late.                                           *)
VerdictSettles ==
    LET now == vendor[link.ref]
        agrees == (now = "resolved") = (local = "recovered")
    IN  <>[](Attached(link) =>
               /\ LinkStatus(link) = IF now = "gone" THEN "missing_external"
                                     ELSE IF ~agrees THEN "drifted" ELSE IF link.stale THEN "stale" ELSE "aligned"
               /\ drifted = (now = "gone" \/ ~agrees \/ link.stale)
               /\ suggestions = IF now = "gone" THEN {"external_missing"}
                                ELSE IF ~agrees THEN (IF now = "resolved" THEN {"external_resolved"} ELSE {})
                                ELSE {IF now = "acknowledged" THEN "external_acknowledged" ELSE "aligned"})
=============================================================================
