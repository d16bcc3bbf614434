------------------------------ MODULE Chunker -------------------------------
(***************************************************************************)
(* chunk_pages of app/rag/chunker.py: the pieces that a document is found  *)
(* and quoted by.  The unit is a word, a number in reading order; a text   *)
(* is the set of its words.  A paragraph is its heading, {} when its first *)
(* line does not read as one, and its body; a page is a sequence of them   *)
(* and a document a sequence of pages.                                     *)
(***************************************************************************)
EXTENDS Integers, FiniteSets, Sequences, FiniteSetsExt, SequencesExt

CONSTANTS
    ChunkSize,  \* chunk_size of the settings
    Overlap,    \* chunk_overlap
    MinLen      \* min_len of _merge_tiny

ASSUME ChunkerAssumption == ChunkSize \in Nat \ {0} /\ Overlap \in Nat /\ MinLen \in Nat

(* The last words of a text, the overlap that the next chunk begins with. *)
LastWords(text) == {w \in text : Cardinality({v \in text : v > w}) < Overlap}

Chunk(section, body) == [section |-> section, text |-> section \cup body]

(* Mutant of Emit: what was gathered is dropped. *)
EmitNot(st) == st.out

(* emit: the gathered paragraphs become a chunk of their section. *)
Emit(st) == IF st.buffer = {} THEN st.out ELSE Append(st.out, Chunk(st.section, st.buffer))

(* _slice: an oversized paragraph is cut, each cut beginning Overlap words *)
(* before the end of the one before; the cuts from each of its words on.   *)
Cuts(lo, hi) ==
    LET cut[from \in lo..hi] ==
            LET to == Min({from + ChunkSize - 1, hi})
            IN  <<from..to>> \o (IF to = hi THEN <<>> ELSE cut[Max({to + 1 - Overlap, from + 1})])
    IN  cut

Slices(body) == Cuts(Min(body), Max(body))[Min(body)]

CutUp(section, body) == [i \in DOMAIN Slices(body) |-> Chunk(section, Slices(body)[i])]

(* _merge_tiny: a short last chunk joins the one before it. *)
Merged(out) ==
    LET n == Len(out)
        body == out[n].text \ out[n].section
    IN  IF n >= 2 /\ Cardinality(body) < MinLen /\ out[n - 1].section = out[n].section
        THEN Append(SubSeq(out, 1, n - 2), [out[n - 1] EXCEPT !.text = @ \cup body])
        ELSE out

(* One paragraph: a heading opens a section, whatever fits is gathered,    *)
(* and what does not begins a chunk of its own or is cut.                  *)
Paragraph(st, p) ==
    CASE p.heading # {} -> [out |-> Emit(st), section |-> p.heading, buffer |-> p.body]
      [] p.heading = {} /\ Cardinality(st.buffer) + Cardinality(p.body) <= ChunkSize ->
            [st EXCEPT !.buffer = @ \cup p.body]
      [] OTHER ->
            IF Cardinality(p.body) > ChunkSize
            THEN [st EXCEPT !.out = Emit(st) \o CutUp(st.section, p.body), !.buffer = {}]
            ELSE [st EXCEPT !.out = Emit(st), !.buffer = LastWords(st.buffer) \cup p.body]

Start == [out |-> <<>>, section |-> {}, buffer |-> {}]

(* What the paragraphs of a page come to, one after the other. *)
After(page) ==
    LET after[n \in 0..Len(page)] == IF n = 0 THEN Start ELSE Paragraph(after[n - 1], page[n])
    IN  after

PageChunks(page) == Merged(Emit(After(page)[Len(page)]))

ChunkPages(pages) == FlattenSeq([i \in DOMAIN pages |-> PageChunks(pages[i])])

Paragraphs(pages) == UNION {Range(pages[i]) : i \in DOMAIN pages}

(* What is parsed: the words of a body follow one another. *)
Document(pages) ==
    /\ pages \in Seq(Seq([heading : SUBSET Nat, body : SUBSET Nat]))
    /\ \A p \in Paragraphs(pages) : p.body = {} \/ \E from, to \in p.body : p.body = from..to

(* The words under a heading: a heading followed by another one, or by the *)
(* end of its page, is left out of every chunk.                            *)
BodyOf(pages) == UNION {p.body : p \in Paragraphs(pages)}
=============================================================================
