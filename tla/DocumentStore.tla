--------------------------- MODULE DocumentStore ----------------------------
(***************************************************************************)
(* Uploaded documents: POST /upload and DELETE /documents/{id} of          *)
(* app/api/routes.py over four stores that no transaction spans: the file  *)
(* in upload_dir, the documents table, vectors.json of app/rag, which is   *)
(* read and written whole, and the Chroma collection behind                *)
(* app/services/document_qa_service.py.                                    *)
(*                                                                         *)
(* Requests run in any interleaving; a read of vectors.json, the emptying  *)
(* of the file by write_text, the write, and each step in another store    *)
(* are steps of their own.  A chunk is its document and its place in it.   *)
(***************************************************************************)
EXTENDS Chunker

CONSTANTS
    Procs,      \* requests served at once
    Docs,       \* documents somebody uploads
    Pages,      \* the pages of each, as Chunker reads them
    MaxId,      \* bound: document numbers given out
    Budgets     \* bounds: records of the database, the documents there are to upload,
                \* and how many deletions, failing steps and kills there are

Ids == 1..MaxId
None == "none"

ASSUME StoreAssumption ==
    /\ IsFiniteSet(Procs) /\ Procs # {} /\ IsFiniteSet(Docs)
    /\ None \notin Docs /\ None \notin Procs
    /\ \A d \in Docs : Document(Pages[d])
    /\ MaxId \in Nat
    /\ Budgets \subseteq [db : {"sqlite", "postgres"}, uploads : SUBSET Docs, deletes : Nat, faults : Nat, kills : Nat]

VARIABLES
    rows,       \* documents: [Ids -> document or None], as committed
    last,       \* the number the database gave last
    lock,       \* SQLite's write lock
    index,      \* vectors.json: a set of <<id, place, document>>
    torn,       \* vectors.json does not parse: emptied and not yet written, or garbled
    chroma,     \* the collection
    files,      \* upload_dir
    proc,       \* the requests
    given,      \* history: how often a number was given out
    raced,      \* history: documents whose rewrite of vectors.json overlapped another one
    broken,     \* history: requests that were killed, or could not remove their file
    budget      \* what is left of the bounds

vars == <<rows, last, lock, index, torn, chroma, files, proc, given, raced, broken, budget>>
history == <<given, raced, broken>>

Idle == [pc |-> "idle", op |-> "none", doc |-> None, id |-> 0, read |-> {}]

At(p, pc) == proc[p].pc = pc
GoTo(p, pc) == proc' = [proc EXCEPT ![p].pc = pc]
Spend(what) == budget[what] > 0 /\ budget' = [budget EXCEPT ![what] = @ - 1]

Sqlite == budget.db = "sqlite"
Free(p) == Sqlite => lock \in {None, p}

(* Mutant of Released: a failed request keeps its transaction open. *)
ReleasedNever(p) == lock

Released(p) == IF lock = p THEN None ELSE lock

Texts == [d \in Docs |-> ChunkPages(Pages[d])]

Entries(id, d) == {<<id, n, d>> : n \in DOMAIN Texts[d]}
Chunks == UNION {Entries(id, d) : id \in Ids, d \in Docs}

(* The texts of a number that the store does not have yet. *)
Unlisted(entries, there) == {e \in entries : ~ \E x \in there : x[1] = e[1] /\ x[2] = e[2]}

-----------------------------------------------------------------------------
(* POST /upload *)

(* save_upload_file; every upload has a file name of its own.  The files   *)
(* of a request are taken one after another, with a commit each and        *)
(* nothing passed on: it is as many uploads by one process, or, when one   *)
(* fails, the first of them.                                               *)
Upload(p, d) ==
    /\ At(p, "idle") /\ d \in budget.uploads
    /\ budget' = [budget EXCEPT !.uploads = @ \ {d}]
    /\ files' = files \cup {d}
    /\ proc' = [proc EXCEPT ![p] = [Idle EXCEPT !.pc = "parse", !.op = "upload", !.doc = d]]
    /\ UNCHANGED <<rows, last, lock, index, torn, chroma, history>>

(* extract_text and chunk_pages; a document of bare headings has no chunks. *)
Parse(p) ==
    /\ At(p, "parse") /\ Texts[proc[p].doc] # <<>>
    /\ GoTo(p, "insert")
    /\ UNCHANGED <<rows, last, lock, index, torn, chroma, files, history, budget>>

(* Mutant of NextId: the number after the rows there are. *)
NextIdCount == 1 + Cardinality({i \in Ids : rows[i] # None})

(* A sequence, or SQLite's rowid: one more than the largest row's. *)
NextId == IF Sqlite THEN 1 + Max({0} \cup {i \in Ids : rows[i] # None}) ELSE last + 1

(* The flush of the row and its chunks; it takes SQLite's write lock. *)
Insert(p) ==
    /\ At(p, "insert") /\ Free(p) /\ NextId <= MaxId
    /\ last' = NextId
    /\ given' = [given EXCEPT ![NextId] = @ + 1]
    /\ lock' = IF Sqlite THEN p ELSE lock
    /\ proc' = [proc EXCEPT ![p].pc = "load", ![p].id = NextId]
    /\ UNCHANGED <<rows, index, torn, chroma, files, raced, broken, budget>>

(* _load; what is torn does not parse.  Ghost: an overlap concerns both. *)
Rewriting(q) == proc[q].pc \in {"save", "torn"}

Load(p) ==
    LET others == {q \in Procs \ {p} : Rewriting(q)}
    IN  /\ At(p, "load") /\ ~torn
        /\ proc' = [proc EXCEPT ![p].pc = "save", ![p].read = index]
        /\ raced' = IF others = {} THEN raced ELSE raced \cup {proc[q].doc : q \in others \cup {p}}
        /\ UNCHANGED <<rows, last, lock, index, torn, chroma, files, given, broken, budget>>

(* write_text empties the file ... *)
Empty(p) ==
    /\ At(p, "save")
    /\ index' = {} /\ torn' = TRUE
    /\ GoTo(p, "torn")
    /\ UNCHANGED <<rows, last, lock, chroma, files, history, budget>>

(* Mutant of Kept: everything up to the document goes. *)
KeptLater(read, id) == {e \in read : e[1] > id}

(* What delete_document leaves. *)
Kept(read, id) == {e \in read : e[1] # id}

(* ... and writes what was read with the chunks added or left out; over    *)
(* what another request wrote in between it may leave a longer text's end. *)
Write(p) ==
    LET me == proc[p]
    IN  /\ At(p, "torn")
        /\ torn' \in IF torn THEN {FALSE} ELSE BOOLEAN
        /\ index' = IF torn' THEN {}
                    ELSE IF me.op = "upload" THEN me.read \cup Unlisted(Entries(me.id, me.doc), me.read)
                    ELSE Kept(me.read, me.id)
        /\ GoTo(p, IF me.op = "upload" THEN "ingest" ELSE "remove")
        /\ UNCHANGED <<rows, last, lock, chroma, files, history, budget>>

(* DocumentQnAService.ingest, best effort; the collection keeps what it    *)
(* has under an id.                                                        *)
Ingest(p) ==
    /\ At(p, "ingest")
    /\ \/ /\ chroma' = chroma \cup Unlisted(Entries(proc[p].id, proc[p].doc), chroma)
          /\ UNCHANGED budget
       \/ Spend("faults") /\ UNCHANGED chroma
    /\ GoTo(p, "commit")
    /\ UNCHANGED <<rows, last, lock, index, torn, files, history>>

Commit(p) ==
    /\ At(p, "commit")
    /\ rows' = [rows EXCEPT ![proc[p].id] = proc[p].doc]
    /\ lock' = Released(p)
    /\ proc' = [proc EXCEPT ![p] = Idle]
    /\ UNCHANGED <<last, index, torn, chroma, files, history, budget>>

(* A step that raises (no text, a lock not given in time, the database, a  *)
(* full disk): a rollback, and the file goes, unless its unlink raises as  *)
(* well; what is in the vector stores stays.                               *)
Breakable == {"parse", "insert", "load", "save", "torn", "commit"}

(* Mutant of Cleaned: the row is rolled back only. *)
CleanedNot(d) == files

Cleaned(d) == files \ {d}

Raises(p) ==
    \/ Spend("faults")
    \/ At(p, "load") /\ torn /\ UNCHANGED budget
    \/ At(p, "parse") /\ Texts[proc[p].doc] = <<>> /\ UNCHANGED budget

(* A write_text that raises after it has emptied the file leaves it so, or *)
(* garbles what another request has written there since.                   *)
Abandoned(p) ==
    /\ torn' \in IF At(p, "torn") THEN {torn, TRUE} ELSE {torn}
    /\ index' = IF torn' THEN {} ELSE index

UploadFails(p) ==
    /\ proc[p].op = "upload" /\ proc[p].pc \in Breakable /\ Raises(p)
    /\ \/ files' = Cleaned(proc[p].doc) /\ UNCHANGED broken
       \/ UNCHANGED files /\ broken' = broken + 1
    /\ Abandoned(p)
    /\ lock' = Released(p)
    /\ proc' = [proc EXCEPT ![p] = Idle]
    /\ UNCHANGED <<rows, last, chroma, given, raced>>

-----------------------------------------------------------------------------
(* DELETE /documents/{id} *)

Delete(p, id) ==
    /\ At(p, "idle") /\ rows[id] # None /\ Spend("deletes")
    /\ proc' = [proc EXCEPT ![p] = [Idle EXCEPT !.pc = "load", !.op = "delete", !.doc = rows[id], !.id = id]]
    /\ UNCHANGED <<rows, last, lock, index, torn, chroma, files, history>>

(* db.delete and commit; the collection is not told. *)
DropRow(p) ==
    /\ At(p, "remove") /\ Free(p)
    /\ rows' = [rows EXCEPT ![proc[p].id] = None]
    /\ GoTo(p, "unlink")
    /\ UNCHANGED <<last, lock, index, torn, chroma, files, history, budget>>

Unlink(p) ==
    /\ At(p, "unlink")
    /\ files' = files \ {proc[p].doc}
    /\ proc' = [proc EXCEPT ![p] = Idle]
    /\ UNCHANGED <<rows, last, lock, index, torn, chroma, history, budget>>

(* The row stays, whether or not its vectors are gone; after the commit    *)
(* the file stays, and nothing refers to it any more.                      *)
DeleteFails(p) ==
    /\ proc[p].op = "delete" /\ proc[p].pc \in {"load", "save", "torn", "remove", "unlink"} /\ Raises(p)
    /\ broken' = IF At(p, "unlink") THEN broken + 1 ELSE broken
    /\ Abandoned(p)
    /\ raced' = IF At(p, "load") THEN raced ELSE raced \cup {proc[p].doc}
    /\ proc' = [proc EXCEPT ![p] = Idle]
    /\ UNCHANGED <<rows, last, lock, chroma, files, given>>

-----------------------------------------------------------------------------
(* Questions *)

(* What VectorStore.search ranks for the legacy chat; torn, it raises. *)
Searched == IF torn THEN {} ELSE index

(* What DocumentQnAService.answer composes its answer from. *)
Retrieved == chroma

-----------------------------------------------------------------------------

(* The request's process is killed: its transaction is gone, nothing else. *)
Kill(p) ==
    /\ ~At(p, "idle") /\ Spend("kills")
    /\ broken' = broken + 1
    /\ lock' = Released(p)
    /\ raced' = IF proc[p].op = "delete" THEN raced \cup {proc[p].doc} ELSE raced
    /\ proc' = [proc EXCEPT ![p] = Idle]
    /\ UNCHANGED <<rows, last, index, torn, chroma, files, given>>

Init ==
    /\ rows = [i \in Ids |-> None] /\ last = 0 /\ lock = None
    /\ index = {} /\ torn = FALSE /\ chroma = {} /\ files = {}
    /\ proc = [p \in Procs |-> Idle]
    /\ given = [i \in Ids |-> 0] /\ raced = {} /\ broken = 0
    /\ budget \in Budgets

Work(p) ==
    \/ Parse(p) \/ Insert(p) \/ Load(p) \/ Empty(p) \/ Write(p) \/ Ingest(p) \/ Commit(p)
    \/ UploadFails(p) \/ DropRow(p) \/ Unlink(p) \/ DeleteFails(p)

Next ==
    \E p \in Procs :
        \/ Work(p) \/ Kill(p)
        \/ \E d \in Docs : Upload(p, d)
        \/ \E i \in Ids : Delete(p, i)

Spec == Init /\ [][Next]_vars

(* A request that was started goes on. *)
FairSpec == Spec /\ \A p \in Procs : WF_vars(Work(p))

-----------------------------------------------------------------------------
(* Properties *)

Reused == Sqlite /\ \E i \in Ids : given[i] > 1
Quiet == \A p \in Procs : At(p, "idle")
Deleting(id) == \E p \in Procs : proc[p].op = "delete" /\ proc[p].id = id

(* vectors.json "remains the source of truth" of what can be found: every  *)
(* word of a listed document's body is found in a chunk of it, unless its  *)
(* rewrite of the file overlapped another one, its deletion broke off, its *)
(* number had been given before, or the file is being written or was torn. *)
ListedIsFound ==
    \A id \in Ids :
        rows[id] # None /\ ~Deleting(id) /\ ~torn /\ rows[id] \notin raced /\ given[id] = 1
            => BodyOf(Pages[rows[id]])
                \subseteq UNION {Texts[e[3]][e[2]].text : e \in {x \in Searched : x[1] = id /\ x[3] = rows[id]}}

(* No document is answered from under another one's name: a text found     *)
(* under the number of a listed document is of that document, through any  *)
(* race, failure and kill, unless SQLite gave the number a second time.    *)
OwnText ==
    \A e \in Searched \cup Retrieved : rows[e[1]] \notin {None, e[3]} => Sqlite /\ given[e[1]] > 1

(* Uploads and deletions leave no file behind but by a kill or an unlink   *)
(* that raises, whatever other step failed, and a listed document has its  *)
(* file; unless SQLite gave a number again, which a deletion under way     *)
(* then takes for its own document.                                        *)
FilesAccounted ==
    LET listed == {rows[i] : i \in Ids} \ {None}
    IN  /\ listed \subseteq files
        /\ Quiet /\ ~Reused => Cardinality(files \ listed) <= broken

(* Types; a chunk that is stored, or was read, is one of its document.     *)
Requests == [pc : {"idle", "parse", "insert", "load", "save", "torn", "ingest", "commit", "remove", "unlink"},
             op : {"none", "upload", "delete"}, doc : Docs \cup {None}, id : Ids \cup {0}, read : SUBSET Chunks]

TypeOK ==
    /\ rows \in [Ids -> Docs \cup {None}] /\ last \in 0..MaxId /\ lock \in Procs \cup {None}
    /\ index \subseteq Chunks /\ chroma \subseteq Chunks /\ torn \in BOOLEAN
    /\ files \subseteq Docs /\ raced \subseteq Docs \cup {None} /\ broken \in Nat
    /\ given \in [Ids -> Nat]
    /\ proc \in [Procs -> Requests]

(* What is on disk and in the tables, with its type. *)
StoresAccounted == TypeOK /\ FilesAccounted

(* Requests that wait for SQLite's lock and for one another come to an end *)
(* (a request that meets a torn file ends with an error).                   *)
RequestsEnd == \A p \in Procs : ~At(p, "idle") ~> At(p, "idle")
=============================================================================
