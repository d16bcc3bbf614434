--------------------------- MODULE MCDocumentStore --------------------------
(* Instances of DocumentStore for TLC. *)
EXTENDS DocumentStore, TLC

CONSTANTS p1, p2, a, b, c, d

Para(heading, body) == [heading |-> heading, body |-> body]

(* a has a section that overflows, a paragraph that is cut and a short     *)
(* end that is merged; b two pages; c one paragraph; d a heading.          *)
MCPages ==
    a :> <<<<Para({}, 1..2), Para({3}, 4..5), Para({}, 6..8), Para({}, 9..14), Para({}, {15})>>>>
    @@ b :> <<<<Para({1}, {2})>>, <<Para({}, 3..5)>>>>
    @@ c :> <<<<Para({}, {1})>>>>
    @@ d :> <<<<Para({1}, {})>>>>

Budget(db, uploads, deletes, faults, kills) ==
    [db |-> db, uploads |-> uploads, deletes |-> deletes, faults |-> faults, kills |-> kills]

(* Three uploads and two deletions that meet, with a step that fails or a  *)
(* kill, under either database.                                            *)
MCBudgets ==
    {Budget(db, {a, b, c}, 2, 0, 0) : db \in {"sqlite", "postgres"}}
        \cup {Budget(db, docs, 1, 1, 1) : docs \in {{a, b}, {d}}, db \in {"sqlite", "postgres"}}
=============================================================================
