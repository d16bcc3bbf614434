------------------------ MODULE DocumentStoreProofs -------------------------
(***************************************************************************)
(* Proofs about DocumentStore and Chunker, for any number of requests and  *)
(* documents, any pages and chunk sizes, and any bounds.                   *)
(*                                                                         *)
(* No word is lost between the pages and the chunks.  What Chunker defines *)
(* by recursive functions is shown by the least natural number at which it *)
(* would fail.                                                             *)
(*                                                                         *)
(* None of the store's properties is inductive.  The invariant says whose  *)
(* each file is while a request deals with it (DocsHeld), that a number    *)
(* names one document in the rows, in both vector stores, in the requests  *)
(* and in what they have read (OneName), how many files nobody accounts    *)
(* for (OrphansBroken), and that a rewrite nobody overlapped starts from   *)
(* all that is in vectors.json (IndexComplete).                            *)
(***************************************************************************)
EXTENDS DocumentStore, FiniteSetTheorems, WellFoundedInduction, TLAPS

-----------------------------------------------------------------------------
(* Natural numbers *)

LEMMA Least ==
  ASSUME NEW S \in SUBSET Nat, S # {}
  PROVE  \E n \in S : \A m \in S : n <= m
<1>1. IsWellFoundedOn(OpToRel(<, Nat), Nat)
  BY NatLessThanWellFounded
<1>2. PICK n \in S : \A m \in S : ~(<<m, n>> \in OpToRel(<, Nat))
  BY <1>1, WFMin
<1>3. \A m \in S : ~(m < n)
  BY <1>2 DEF OpToRel
<1> QED
  BY <1>3

LEMMA Greatest ==
  ASSUME NEW S \in SUBSET Nat, S # {}, NEW b \in Nat, \A m \in S : m <= b
  PROVE  Max(S) \in S /\ \A m \in S : m <= Max(S)
<1>1. PICK n \in {k \in Nat : \A m \in S : m <= k} : \A k \in {k \in Nat : \A m \in S : m <= k} : n <= k
  <2>1. {k \in Nat : \A m \in S : m <= k} \in SUBSET Nat /\ b \in {k \in Nat : \A m \in S : m <= k}
    OBVIOUS
  <2> QED
    BY <2>1, Least
<1>2. n \in S
  <2>1. CASE n = 0
    <3>1. PICK m \in S : m \in Nat /\ m <= 0
      BY <1>1, <2>1
    <3> QED
      BY <2>1, <3>1
  <2>2. CASE n # 0 /\ n \notin S
    <3>1. n - 1 \in Nat /\ \A m \in S : m <= n - 1
      BY <1>1, <2>2
    <3> QED
      BY <1>1, <3>1
  <2>3. CASE n # 0 /\ n \in S
    BY <2>3
  <2> QED
    BY <2>1, <2>2, <2>3
<1>3. \E x \in S : \A y \in S : x >= y
  BY <1>1, <1>2
<1> QED
  BY <1>3 DEF Max

(* What holds of 0 and passes from each number to the next holds of all.   *)
LEMMA Upto ==
  ASSUME NEW S, 0 \in S, \A n \in Nat : n \in S => n + 1 \in S
  PROVE  Nat \subseteq S
<1> SUFFICES ASSUME ~(Nat \subseteq S) PROVE FALSE
  OBVIOUS
<1>1. PICK n \in Nat \ S : \A m \in Nat \ S : n <= m
  BY Least
<1>2. n # 0 /\ n - 1 \in Nat /\ n - 1 \in S
  BY <1>1
<1> QED
  BY <1>1, <1>2

-----------------------------------------------------------------------------
(* The chunks of a document *)

(* The function that Paragraphs compute up to k, written out.              *)
IsAfter(f, page, k) == f = [n \in 0..k |-> IF n = 0 THEN Start ELSE Paragraph(f[n - 1], page[n])]

LEMMA AfterGrows ==
  ASSUME NEW page, NEW k \in Nat, NEW f, IsAfter(f, page, k)
  PROVE  \E g : IsAfter(g, page, k + 1)
<1> DEFINE g == [n \in 0..(k + 1) |-> IF n = k + 1 THEN Paragraph(f[k], page[k + 1]) ELSE f[n]]
<1>1. \A n \in 0..k : g[n] = f[n]
  OBVIOUS
<1>2. \A n \in 0..k : f[n] = IF n = 0 THEN Start ELSE Paragraph(f[n - 1], page[n])
  BY DEF IsAfter
<1>3. ASSUME NEW n \in 0..(k + 1)
      PROVE  g[n] = IF n = 0 THEN Start ELSE Paragraph(g[n - 1], page[n])
  <2>1. CASE n = k + 1
    <3>1. g[n] = Paragraph(f[k], page[n]) /\ g[n - 1] = f[k]
      BY <2>1
    <3> QED
      BY <2>1, <3>1
  <2>2. CASE n # k + 1
    <3>1. n \in 0..k /\ (n # 0 => n - 1 \in 0..k)
      BY <2>2
    <3> QED
      BY <1>1, <1>2, <3>1
  <2> QED
    BY <2>1, <2>2
<1>4. g = [n \in 0..(k + 1) |-> g[n]]
  OBVIOUS
<1> HIDE DEF g
<1>5. g = [n \in 0..(k + 1) |-> IF n = 0 THEN Start ELSE Paragraph(g[n - 1], page[n])]
  BY <1>3, <1>4, Zenon
<1> QED
  BY <1>5 DEF IsAfter

LEMMA AfterExists ==
  ASSUME NEW page, NEW k \in Nat
  PROVE  \E f : IsAfter(f, page, k)
<1> DEFINE K == {n \in Nat : \E f : IsAfter(f, page, n)}
<1>1. 0 \in K
  <2>1. IsAfter([n \in 0..0 |-> Start], page, 0)
    BY DEF IsAfter
  <2> QED
    BY <2>1
<1>2. ASSUME NEW n \in Nat, n \in K PROVE n + 1 \in K
  BY <1>2, AfterGrows
<1> HIDE DEF K
<1>3. Nat \subseteq K
  BY <1>1, <1>2, Upto
<1> QED
  BY <1>3 DEF K

LEMMA AfterIs ==
  ASSUME NEW page, Len(page) \in Nat
  PROVE  IsAfter(After(page), page, Len(page))
<1>1. \E f : IsAfter(f, page, Len(page))
  BY AfterExists
<1> QED
  BY <1>1 DEF After, IsAfter

(* The least and the greatest of two, and of a run of words. *)
LEMMA MinOf ==
  ASSUME NEW a \in Int, NEW b \in Int
  PROVE  Min({a, b}) = IF a <= b THEN a ELSE b
<1>1. \E x \in {a, b} : \A y \in {a, b} : x <= y
  OBVIOUS
<1> DEFINE m == Min({a, b})
<1>2. m \in {a, b} /\ \A y \in {a, b} : m <= y
  BY <1>1 DEF Min
<1> QED
  BY <1>2

LEMMA MaxOf ==
  ASSUME NEW a \in Int, NEW b \in Int
  PROVE  Max({a, b}) = IF a >= b THEN a ELSE b
<1>1. \E x \in {a, b} : \A y \in {a, b} : x >= y
  OBVIOUS
<1> DEFINE m == Max({a, b})
<1>2. m \in {a, b} /\ \A y \in {a, b} : m >= y
  BY <1>1 DEF Max
<1> QED
  BY <1>2

LEMMA EndsOf ==
  ASSUME NEW a \in Nat, NEW b \in Nat, a <= b
  PROVE  Min(a..b) = a /\ Max(a..b) = b
<1>1. a \in a..b /\ b \in a..b /\ \A y \in a..b : a <= y /\ b >= y
  OBVIOUS
<1>2. Min(a..b) \in a..b /\ \A y \in a..b : Min(a..b) <= y
  BY <1>1 DEF Min
<1>3. Max(a..b) \in a..b /\ \A y \in a..b : Max(a..b) >= y
  BY <1>1 DEF Max
<1> QED
  BY <1>1, <1>2, <1>3

(* The cut from a word, and where the next one begins. *)
To(from, hi) == Min({from + ChunkSize - 1, hi})
Onward(from, hi) == Max({To(from, hi) + 1 - Overlap, from + 1})
CutAt(f, from, hi) == <<from..To(from, hi)>> \o (IF To(from, hi) = hi THEN <<>> ELSE f[Onward(from, hi)])
IsCuts(f, lo, hi) == f = [from \in lo..hi |-> CutAt(f, from, hi)]

LEMMA CutGoesOn ==
  ASSUME NEW hi \in Nat, NEW from \in Int, from <= hi
  PROVE  /\ To(from, hi) \in Int /\ from <= To(from, hi) /\ To(from, hi) <= hi
         /\ To(from, hi) # hi => Onward(from, hi) \in (from + 1)..hi /\ Onward(from, hi) <= To(from, hi) + 1
<1>1. To(from, hi) = IF from + ChunkSize - 1 <= hi THEN from + ChunkSize - 1 ELSE hi
  BY MinOf, ChunkerAssumption DEF To
<1>2. To(from, hi) \in Int /\ from <= To(from, hi) /\ To(from, hi) <= hi
  BY <1>1, ChunkerAssumption
<1>3. Onward(from, hi) = IF To(from, hi) + 1 - Overlap >= from + 1 THEN To(from, hi) + 1 - Overlap ELSE from + 1
  BY <1>2, MaxOf, ChunkerAssumption DEF Onward
<1> QED
  BY <1>2, <1>3, ChunkerAssumption

LEMMA CutsGrow ==
  ASSUME NEW hi \in Nat, NEW lo \in Int, lo <= hi, NEW f, IsCuts(f, lo, hi)
  PROVE  \E g : IsCuts(g, lo - 1, hi)
<1> DEFINE g == [from \in (lo - 1)..hi |-> IF from = lo - 1 THEN CutAt(f, lo - 1, hi) ELSE f[from]]
<1>1. \A from \in lo..hi : g[from] = f[from]
  OBVIOUS
<1>2. \A from \in lo..hi : f[from] = CutAt(f, from, hi)
  BY DEF IsCuts
<1>3. ASSUME NEW from \in (lo - 1)..hi
      PROVE  g[from] = CutAt(g, from, hi)
  <2>1. g[from] = CutAt(f, from, hi)
    BY <1>1, <1>2
  <2>2. To(from, hi) # hi => Onward(from, hi) \in lo..hi
    BY CutGoesOn
  <2>3. To(from, hi) # hi => g[Onward(from, hi)] = f[Onward(from, hi)]
    BY <1>1, <2>2
  <2> QED
    BY <2>1, <2>3 DEF CutAt
<1>4. g = [from \in (lo - 1)..hi |-> g[from]]
  OBVIOUS
<1> HIDE DEF g
<1>5. g = [from \in (lo - 1)..hi |-> CutAt(g, from, hi)]
  BY <1>3, <1>4, Zenon
<1> QED
  BY <1>5 DEF IsCuts

LEMMA CutsExist ==
  ASSUME NEW hi \in Nat, NEW lo \in Nat, lo <= hi
  PROVE  \E f : IsCuts(f, lo, hi)
<1> DEFINE K == {n \in Nat : \E f : IsCuts(f, hi - n, hi)}
<1>1. 0 \in K
  <2> DEFINE f == [from \in hi..hi |-> <<from..hi>> \o <<>>]
  <2>1. To(hi, hi) = hi
    BY CutGoesOn
  <2>2. f = [from \in hi..hi |-> f[from]]
    OBVIOUS
  <2>3. ASSUME NEW from \in hi..hi PROVE f[from] = CutAt(f, from, hi)
    BY <2>1 DEF CutAt
  <2> HIDE DEF f
  <2>4. f = [from \in hi..hi |-> CutAt(f, from, hi)]
    BY <2>2, <2>3, Zenon
  <2>5. IsCuts(f, hi - 0, hi)
    BY <2>4 DEF IsCuts
  <2> QED
    BY <2>5
<1>2. ASSUME NEW n \in Nat, n \in K PROVE n + 1 \in K
  <2>1. PICK f : IsCuts(f, hi - n, hi)
    BY <1>2
  <2>2. \E g : IsCuts(g, hi - n - 1, hi)
    BY <2>1, CutsGrow
  <2>3. hi - n - 1 = hi - (n + 1)
    OBVIOUS
  <2> QED
    BY <2>2, <2>3
<1> HIDE DEF K
<1>3. hi - lo \in K
  BY <1>1, <1>2, Upto
<1>4. hi - (hi - lo) = lo
  OBVIOUS
<1> QED
  BY <1>3, <1>4 DEF K

LEMMA CutsAre ==
  ASSUME NEW hi \in Nat, NEW lo \in Nat, lo <= hi
  PROVE  IsCuts(Cuts(lo, hi), lo, hi)
<1>1. \E f : IsCuts(f, lo, hi)
  BY CutsExist
<1> QED
  BY <1>1 DEF Cuts, IsCuts, CutAt, To, Onward

(* The words of a sequence of texts. *)
Words(texts) == UNION {texts[i] : i \in DOMAIN texts}

LEMMA OneLong ==
  ASSUME NEW S, NEW x \in S
  PROVE  <<x>> \in Seq(S)
OBVIOUS

LEMMA RunLong ==
  ASSUME NEW a \in Nat, NEW b \in Int
  PROVE  <<a..b>> \in Seq(SUBSET Nat) /\ Words(<<a..b>>) = a..b
<1> DEFINE x == a..b
<1>1. x \in SUBSET Nat
  OBVIOUS
<1> HIDE DEF x
<1>2. <<x>> \in Seq(SUBSET Nat)
  BY <1>1, OneLong
<1>3. Words(<<x>>) = x
  BY DEF Words
<1> QED
  BY <1>2, <1>3 DEF x

LEMMA WordsTogether ==
  ASSUME NEW s \in Seq(SUBSET Nat), NEW t \in Seq(SUBSET Nat)
  PROVE  s \o t \in Seq(SUBSET Nat) /\ Words(s) \subseteq Words(s \o t) /\ Words(t) \subseteq Words(s \o t)
<1>1. s \o t \in Seq(SUBSET Nat)
  OBVIOUS
<1>2. \A i \in DOMAIN s : i \in DOMAIN (s \o t) /\ (s \o t)[i] = s[i]
  OBVIOUS
<1>3. \A i \in DOMAIN t : Len(s) + i \in DOMAIN (s \o t) /\ (s \o t)[Len(s) + i] = t[i]
  OBVIOUS
<1> QED
  BY <1>1, <1>2, <1>3 DEF Words

(* However long, a paragraph is cut up without a word left out.            *)
LEMMA CutsCover ==
  ASSUME NEW hi \in Nat, NEW lo \in Nat, lo <= hi
  PROVE  Cuts(lo, hi)[lo] \in Seq(SUBSET Nat) /\ lo..hi \subseteq Words(Cuts(lo, hi)[lo])
<1> DEFINE f == Cuts(lo, hi)
           Covers(from) == f[from] \in Seq(SUBSET Nat) /\ from..hi \subseteq Words(f[from])
           K == {n \in Nat : \A from \in lo..hi : hi - from <= n => Covers(from)}
<1>1. \A from \in lo..hi : f[from] = CutAt(f, from, hi)
  BY CutsAre DEF IsCuts
<1>2. ASSUME NEW from \in lo..hi, To(from, hi) # hi => Covers(Onward(from, hi))
      PROVE  Covers(from)
  <2> HIDE DEF f
  <2>1. from <= To(from, hi) /\ To(from, hi) \in Int
    BY CutGoesOn
  <2> DEFINE one == <<from..To(from, hi)>>
  <2>2. one \in Seq(SUBSET Nat) /\ Words(one) = from..To(from, hi)
    BY <2>1, RunLong
  <2> HIDE DEF one
  <2>4. CASE To(from, hi) = hi
    <3>1. f[from] = one \o <<>>
      BY <1>1, <2>4 DEF CutAt, one
    <3>2. f[from] = one
      BY <3>1, <2>2
    <3> QED
      BY <3>2, <2>2, <2>4
  <2>5. CASE To(from, hi) # hi
    <3> DEFINE rest == f[Onward(from, hi)]
    <3>1. f[from] = one \o rest
      BY <1>1, <2>5 DEF CutAt, one
    <3>2. rest \in Seq(SUBSET Nat) /\ Onward(from, hi)..hi \subseteq Words(rest)
      BY <1>2, <2>5
    <3> HIDE DEF rest
    <3>3. f[from] \in Seq(SUBSET Nat) /\ Words(one) \subseteq Words(f[from]) /\ Words(rest) \subseteq Words(f[from])
      BY <3>1, <3>2, <2>2, WordsTogether
    <3>4. Onward(from, hi) <= To(from, hi) + 1 /\ Onward(from, hi) \in Int
      BY CutGoesOn, <2>5
    <3>5. from..hi \subseteq (from..To(from, hi)) \cup (Onward(from, hi)..hi)
      BY <3>4, <2>1
    <3> QED
      BY <3>2, <3>3, <3>5, <2>2
  <2> QED
    BY <2>4, <2>5
<1>3. 0 \in K
  <2> SUFFICES ASSUME NEW from \in lo..hi, hi - from <= 0 PROVE Covers(from)
    OBVIOUS
  <2>1. To(from, hi) = hi
    BY CutGoesOn
  <2> QED
    BY <2>1, <1>2
<1>4. ASSUME NEW n \in Nat, n \in K PROVE n + 1 \in K
  <2> SUFFICES ASSUME NEW from \in lo..hi, hi - from <= n + 1 PROVE Covers(from)
    OBVIOUS
  <2>1. To(from, hi) # hi => Onward(from, hi) \in lo..hi /\ hi - Onward(from, hi) <= n
    <3>1. To(from, hi) # hi => Onward(from, hi) \in (from + 1)..hi
      BY CutGoesOn
    <3> QED
      BY <3>1
  <2>2. To(from, hi) # hi => Covers(Onward(from, hi))
    BY <1>4, <2>1
  <2> QED
    BY <2>2, <1>2
<1>5. hi - lo \in K
  <2> HIDE DEF K
  <2> QED
    BY <1>3, <1>4, Upto
<1> QED
  BY <1>5

LEMMA SlicesCover ==
  ASSUME NEW a \in Nat, NEW b \in Nat, a..b # {}
  PROVE  Slices(a..b) \in Seq(SUBSET Nat) /\ a..b \subseteq Words(Slices(a..b))
<1>1. a <= b
  OBVIOUS
<1>2. Slices(a..b) = Cuts(a, b)[a]
  BY <1>1, EndsOf DEF Slices
<1> QED
  BY <1>1, <1>2, CutsCover

(* A chunk opens with its section's heading. *)
Pieces == {c \in [section : SUBSET Nat, text : SUBSET Nat] : c.section \subseteq c.text}
TextOf(out) == UNION {out[i].text : i \in DOMAIN out}

LEMMA TextTogether ==
  ASSUME NEW s \in Seq(Pieces), NEW t \in Seq(Pieces)
  PROVE  s \o t \in Seq(Pieces) /\ TextOf(s) \subseteq TextOf(s \o t) /\ TextOf(t) \subseteq TextOf(s \o t)
<1>1. s \o t \in Seq(Pieces)
  OBVIOUS
<1>2. \A i \in DOMAIN s : i \in DOMAIN (s \o t) /\ (s \o t)[i] = s[i]
  OBVIOUS
<1>3. \A i \in DOMAIN t : Len(s) + i \in DOMAIN (s \o t) /\ (s \o t)[Len(s) + i] = t[i]
  OBVIOUS
<1> QED
  BY <1>1, <1>2, <1>3 DEF TextOf

LEMMA ChunkIs ==
  ASSUME NEW section \in SUBSET Nat, NEW body \in SUBSET Nat
  PROVE  Chunk(section, body) \in Pieces /\ body \subseteq Chunk(section, body).text
BY DEF Chunk, Pieces

(* What has been made of a page so far. *)
States == [out : Seq(Pieces), section : SUBSET Nat, buffer : SUBSET Nat]
Gathered(st) == TextOf(st.out) \cup st.buffer

LEMMA EmitKeeps ==
  ASSUME NEW st \in States
  PROVE  Emit(st) \in Seq(Pieces) /\ Gathered(st) \subseteq TextOf(Emit(st))
<1>1. CASE st.buffer = {}
  BY <1>1 DEF Emit, States, Gathered
<1>2. CASE st.buffer # {}
  <2> DEFINE one == <<Chunk(st.section, st.buffer)>>
             c == Chunk(st.section, st.buffer)
  <2>1. c \in Pieces /\ st.buffer \subseteq c.text
    BY ChunkIs DEF States
  <2>2. st.out \in Seq(Pieces)
    BY DEF States
  <2>3. Emit(st) = Append(st.out, c)
    BY <1>2 DEF Emit
  <2> HIDE DEF c
  <2>4. Append(st.out, c) = st.out \o <<c>> /\ <<c>> \in Seq(Pieces)
    BY <2>1, <2>2
  <2>5. TextOf(<<c>>) = c.text
    BY DEF TextOf
  <2> QED
    BY <2>1, <2>2, <2>3, <2>4, <2>5, TextTogether DEF Gathered
<1> QED
  BY <1>1, <1>2

Paras == [heading : SUBSET Nat, body : SUBSET Nat]

(* What a paragraph leaves of the words gathered, and of its own.          *)
LEMMA ParagraphKeeps ==
  ASSUME NEW st \in States, NEW p \in Paras, NEW a \in Nat, NEW b \in Nat, p.body = a..b
  PROVE  Paragraph(st, p) \in States /\ Gathered(st) \cup p.body \subseteq Gathered(Paragraph(st, p))
<1> DEFINE next == Paragraph(st, p)
<1>1. Emit(st) \in Seq(Pieces) /\ Gathered(st) \subseteq TextOf(Emit(st))
  BY EmitKeeps
<1>2. st.section \in SUBSET Nat /\ st.buffer \in SUBSET Nat /\ st.out \in Seq(Pieces)
  BY DEF States
<1>3. p.heading \in SUBSET Nat /\ p.body \in SUBSET Nat
  BY DEF Paras
<1>4. CASE p.heading # {}
  <2>1. next = [out |-> Emit(st), section |-> p.heading, buffer |-> p.body]
    BY <1>4 DEF Paragraph
  <2> QED
    BY <2>1, <1>1, <1>3 DEF States, Gathered
<1>5. CASE p.heading = {} /\ Cardinality(st.buffer) + Cardinality(p.body) <= ChunkSize
  <2>1. next = [st EXCEPT !.buffer = @ \cup p.body]
    BY <1>5 DEF Paragraph
  <2> QED
    BY <2>1, <1>2, <1>3 DEF States, Gathered
<1>6. CASE /\ p.heading = {} /\ ~(Cardinality(st.buffer) + Cardinality(p.body) <= ChunkSize)
           /\ ~(Cardinality(p.body) > ChunkSize)
  <2>1. next = [st EXCEPT !.out = Emit(st), !.buffer = LastWords(st.buffer) \cup p.body]
    BY <1>6 DEF Paragraph
  <2>2. LastWords(st.buffer) \in SUBSET Nat
    BY <1>2 DEF LastWords
  <2> QED
    BY <2>1, <2>2, <1>1, <1>2, <1>3 DEF States, Gathered
<1>7. CASE /\ p.heading = {} /\ ~(Cardinality(st.buffer) + Cardinality(p.body) <= ChunkSize)
           /\ Cardinality(p.body) > ChunkSize
  <2> DEFINE slices == Slices(p.body)
             cuts == CutUp(st.section, p.body)
  <2>1. next = [st EXCEPT !.out = Emit(st) \o cuts, !.buffer = {}]
    BY <1>7 DEF Paragraph
  <2>2. p.body # {}
    <3>1. Cardinality({}) = 0
      BY FS_EmptySet
    <3> QED
      BY ONLY <3>1, <1>7, ChunkerAssumption
  <2>3. slices \in Seq(SUBSET Nat) /\ p.body \subseteq Words(slices)
    BY <2>2, SlicesCover
  <2>9. cuts = [i \in DOMAIN slices |-> Chunk(st.section, slices[i])]
    BY DEF CutUp
  <2> HIDE DEF slices, cuts
  <2>4. \A i \in DOMAIN slices : Chunk(st.section, slices[i]) \in Pieces /\ slices[i] \subseteq Chunk(st.section, slices[i]).text
    BY <2>3, <1>2, ChunkIs
  <2>5. cuts \in Seq(Pieces)
    BY <2>3, <2>4, <2>9
  <2>6. p.body \subseteq TextOf(cuts)
    BY <2>3, <2>4, <2>9 DEF Words, TextOf
  <2>7. /\ Emit(st) \o cuts \in Seq(Pieces) /\ TextOf(Emit(st)) \subseteq TextOf(Emit(st) \o cuts)
        /\ TextOf(cuts) \subseteq TextOf(Emit(st) \o cuts)
    BY <2>5, <1>1, TextTogether
  <2>8. next.out = Emit(st) \o cuts /\ next.buffer = {} /\ next.section = st.section /\ next \in States
    BY <2>1, <2>7, <1>2 DEF States, cuts
  <2> QED
    BY <2>6, <2>7, <2>8, <1>1 DEF Gathered
<1> QED
  BY <1>4, <1>5, <1>6, <1>7

LEMMA MergedKeeps ==
  ASSUME NEW out \in Seq(Pieces)
  PROVE  Merged(out) \in Seq(Pieces) /\ TextOf(out) \subseteq TextOf(Merged(out))
<1> DEFINE n == Len(out)
           body == out[n].text \ out[n].section
           join == [out[n - 1] EXCEPT !.text = @ \cup body]
<1>1. CASE n >= 2 /\ Cardinality(body) < MinLen /\ out[n - 1].section = out[n].section
  <2>1. Merged(out) = Append(SubSeq(out, 1, n - 2), join)
    BY <1>1 DEF Merged
  <2>2. n - 1 \in DOMAIN out /\ n \in DOMAIN out /\ n \in Nat /\ n - 2 \in Nat /\ n - 2 <= Len(out)
    BY <1>1
  <2>3. out[n] \in Pieces /\ out[n - 1] \in Pieces
    BY <2>2
  <2>4. join \in Pieces /\ out[n - 1].text \subseteq join.text /\ out[n].text \subseteq join.text
    <3> DEFINE c == out[n - 1]
               e == out[n]
    <3>1. c \in Pieces /\ e \in Pieces /\ c.section = e.section
      BY <2>3, <1>1
    <3>2. join = [c EXCEPT !.text = @ \cup (e.text \ e.section)]
      OBVIOUS
    <3> HIDE DEF c, e, join
    <3>3. join.section = c.section /\ join.text = c.text \cup (e.text \ e.section) /\ join \in [section : SUBSET Nat, text : SUBSET Nat]
      BY <3>1, <3>2 DEF Pieces
    <3>4. join \in Pieces /\ c.text \subseteq join.text /\ e.text \subseteq join.text
      BY <3>1, <3>3 DEF Pieces
    <3> QED
      BY <3>4 DEF c, e
  <2> DEFINE rest == SubSeq(out, 1, n - 2)
  <2>5. rest \in Seq(Pieces) /\ Len(rest) = n - 2 /\ \A i \in 1..(n - 2) : rest[i] = out[i]
    <3>1. \A i \in 1..(n - 2) : i \in DOMAIN out /\ out[i] \in Pieces
      BY <2>2
    <3>2. rest = [i \in 1..(n - 2) |-> out[i]]
      BY <2>2
    <3> HIDE DEF rest
    <3> QED
      BY <3>1, <3>2, <2>2
  <2> HIDE DEF join, rest, n
  <2> DEFINE all == Append(rest, join)
  <2>6. /\ all \in Seq(Pieces) /\ DOMAIN all = 1..(n - 1) /\ all[n - 1] = join
        /\ \A i \in 1..(n - 2) : all[i] = rest[i]
    BY <2>4, <2>5, <2>2
  <2> HIDE DEF all
  <2>7. \A i \in DOMAIN out : \E j \in DOMAIN all : out[i].text \subseteq all[j].text
    <3> SUFFICES ASSUME NEW i \in DOMAIN out PROVE \E j \in DOMAIN all : out[i].text \subseteq all[j].text
      OBVIOUS
    <3>1. i \in 1..(n - 2) \/ i = n - 1 \/ i = n
      BY <2>2 DEF n
    <3>2. CASE i \in 1..(n - 2)
      <4>1. i \in 1..(n - 2) => i \in DOMAIN all /\ all[i] = out[i]
        BY <2>5, <2>6, <2>2
      <4> QED
        BY <3>2, <4>1
    <3>3. CASE i = n - 1 \/ i = n
      BY <3>3, <2>4, <2>6, <2>2
    <3> QED
      BY <3>1, <3>2, <3>3
  <2>8. TextOf(out) \subseteq TextOf(all)
    BY <2>7 DEF TextOf
  <2>9. Merged(out) = all
    BY <2>1 DEF all, rest, n
  <2> QED
    BY <2>6, <2>8, <2>9
<1>2. CASE ~(n >= 2 /\ Cardinality(body) < MinLen /\ out[n - 1].section = out[n].section)
  BY <1>2 DEF Merged
<1> QED
  BY <1>1, <1>2

(* The body of each paragraph is a run of words. *)
Runs(page) == \A i \in DOMAIN page : \E a, b \in Nat : page[i].body = a..b

LEMMA PageCovers ==
  ASSUME NEW page \in Seq(Paras), Runs(page)
  PROVE  PageChunks(page) \in Seq(Pieces) /\ \A i \in DOMAIN page : page[i].body \subseteq TextOf(PageChunks(page))
<1> DEFINE L == Len(page)
           f == After(page)
           Holds(n) == f[n] \in States /\ \A i \in 1..n : page[i].body \subseteq Gathered(f[n])
           K == {n \in Nat : n <= L => Holds(n)}
<1>1. L \in Nat /\ DOMAIN page = 1..L
  OBVIOUS
<1>2. \A n \in 0..L : f[n] = IF n = 0 THEN Start ELSE Paragraph(f[n - 1], page[n])
  BY <1>1, AfterIs DEF IsAfter
<1> HIDE DEF f
<1>3. 0 \in K
  <2>1. f[0] = Start
    BY <1>1, <1>2
  <2>2. Start \in States
    BY DEF Start, States
  <2> QED
    BY <2>1, <2>2
<1>4. ASSUME NEW n \in Nat, n \in K PROVE n + 1 \in K
  <2> SUFFICES ASSUME n + 1 <= L PROVE Holds(n + 1)
    OBVIOUS
  <2>1. Holds(n)
    BY <1>1, <1>4
  <2>2. f[n + 1] = Paragraph(f[n], page[n + 1])
    BY <1>1, <1>2
  <2>3. page[n + 1] \in Paras /\ \E a, b \in Nat : page[n + 1].body = a..b
    BY <1>1 DEF Runs
  <2>4. f[n + 1] \in States /\ Gathered(f[n]) \cup page[n + 1].body \subseteq Gathered(f[n + 1])
    BY <2>1, <2>2, <2>3, ParagraphKeeps
  <2> QED
    BY <2>1, <2>4
<1>5. L \in K
  <2> HIDE DEF K
  <2> QED
    BY <1>1, <1>3, <1>4, Upto
<1>6. Holds(L)
  BY <1>1, <1>5
<1>7. Emit(f[L]) \in Seq(Pieces) /\ Gathered(f[L]) \subseteq TextOf(Emit(f[L]))
  BY <1>6, EmitKeeps
<1>8. PageChunks(page) = Merged(Emit(f[L]))
  BY DEF PageChunks, f
<1> QED
  BY <1>1, <1>6, <1>7, <1>8, MergedKeeps

(* What FlattenSeq has put together up to k. *)
IsFlat(f, seqs, k) == f = [i \in 1..k |-> IF i = 1 THEN seqs[i] ELSE f[i - 1] \o seqs[i]]

LEMMA FlatGrows ==
  ASSUME NEW seqs, NEW k \in Nat, NEW f, IsFlat(f, seqs, k)
  PROVE  \E g : IsFlat(g, seqs, k + 1)
<1> DEFINE g == [i \in 1..(k + 1) |-> IF i # k + 1 THEN f[i] ELSE IF i = 1 THEN seqs[i] ELSE f[i - 1] \o seqs[i]]
<1>1. \A i \in 1..k : g[i] = f[i]
  OBVIOUS
<1>2. \A i \in 1..k : f[i] = IF i = 1 THEN seqs[i] ELSE f[i - 1] \o seqs[i]
  BY DEF IsFlat
<1>3. ASSUME NEW i \in 1..(k + 1)
      PROVE  g[i] = IF i = 1 THEN seqs[i] ELSE g[i - 1] \o seqs[i]
  <2>1. i # 1 => i - 1 \in 1..k
    OBVIOUS
  <2>2. g[i] = IF i = 1 THEN seqs[i] ELSE f[i - 1] \o seqs[i]
    BY <1>1, <1>2
  <2> QED
    BY <1>1, <2>1, <2>2
<1>4. g = [i \in 1..(k + 1) |-> g[i]]
  OBVIOUS
<1> HIDE DEF g
<1>5. g = [i \in 1..(k + 1) |-> IF i = 1 THEN seqs[i] ELSE g[i - 1] \o seqs[i]]
  BY <1>3, <1>4, Zenon
<1> QED
  BY <1>5 DEF IsFlat

LEMMA FlatExists ==
  ASSUME NEW seqs, NEW k \in Nat
  PROVE  \E f : IsFlat(f, seqs, k)
<1> DEFINE K == {n \in Nat : \E f : IsFlat(f, seqs, n)}
<1>1. 0 \in K
  <2>1. IsFlat([i \in 1..0 |-> {}], seqs, 0)
    BY DEF IsFlat
  <2> QED
    BY <2>1
<1>2. ASSUME NEW n \in Nat, n \in K PROVE n + 1 \in K
  BY <1>2, FlatGrows
<1> HIDE DEF K
<1>3. Nat \subseteq K
  BY <1>1, <1>2, Upto
<1> QED
  BY <1>3 DEF K

(* The chunks of the pages, one page after the other. *)
LEMMA FlatCovers ==
  ASSUME NEW seqs \in Seq(Seq(Pieces))
  PROVE  /\ FlattenSeq(seqs) \in Seq(Pieces)
         /\ \A i \in DOMAIN seqs : TextOf(seqs[i]) \subseteq TextOf(FlattenSeq(seqs))
<1> DEFINE L == Len(seqs)
<1>1. L \in Nat /\ DOMAIN seqs = 1..L
  OBVIOUS
<1>2. CASE L = 0
  <2>1. FlattenSeq(seqs) = seqs /\ seqs = <<>>
    BY <1>2 DEF FlattenSeq
  <2> QED
    BY <2>1
<1>3. CASE L # 0
  <2>1. \E f : IsFlat(f, seqs, L)
    BY <1>1, FlatExists
  <2>2. PICK f : IsFlat(f, seqs, L) /\ FlattenSeq(seqs) = f[L]
    BY <2>1, <1>3 DEF FlattenSeq, IsFlat
  <2>3. \A i \in 1..L : f[i] = IF i = 1 THEN seqs[i] ELSE f[i - 1] \o seqs[i]
    BY <2>2 DEF IsFlat
  <2> DEFINE Holds(n) == f[n] \in Seq(Pieces) /\ \A i \in 1..n : TextOf(seqs[i]) \subseteq TextOf(f[n])
             K == {n \in Nat : n \in 1..L => Holds(n)}
  <2>4. 0 \in K
    OBVIOUS
  <2>5. ASSUME NEW n \in Nat, n \in K PROVE n + 1 \in K
    <3> SUFFICES ASSUME n + 1 \in 1..L PROVE Holds(n + 1)
      OBVIOUS
    <3>1. seqs[n + 1] \in Seq(Pieces)
      <4>1. \A i \in 1..L : seqs[i] \in Seq(Pieces)
        BY <1>1
      <4> QED
        BY ONLY <4>1, n + 1 \in 1..L
    <3>2. CASE n = 0
      <4>1. f[1] = seqs[1]
        <5>1. 1 \in 1..L
          BY <3>2
        <5> QED
          BY ONLY <5>1, <2>3
      <4>2. n + 1 = 1 /\ \A i \in 1..1 : i = 1
        BY <3>2
      <4>3. f[1] \in Seq(Pieces) /\ \A i \in 1..1 : TextOf(seqs[i]) \subseteq TextOf(f[1])
        BY ONLY <4>1, <4>2, <3>1
      <4> QED
        BY ONLY <4>2, <4>3
    <3>3. CASE n # 0
      <4>1. f[n + 1] = f[n] \o seqs[n + 1]
        <5>1. n + 1 # 1 /\ (n + 1) - 1 = n
          BY <3>3
        <5>2. f[n + 1] = f[(n + 1) - 1] \o seqs[n + 1]
          BY ONLY <5>1, <2>3, n + 1 \in 1..L, Zenon
        <5> QED
          BY ONLY <5>1, <5>2, Zenon
      <4>2. Holds(n)
        BY <2>5, <1>1, <3>3
      <4>3. /\ f[n + 1] \in Seq(Pieces) /\ TextOf(f[n]) \subseteq TextOf(f[n + 1])
            /\ TextOf(seqs[n + 1]) \subseteq TextOf(f[n + 1])
        BY <4>1, <4>2, <3>1, TextTogether
      <4> QED
        BY <4>2, <4>3
    <3> QED
      BY <3>2, <3>3
  <2>6. L \in K
    <3> HIDE DEF K
    <3> QED
      BY <1>1, <2>4, <2>5, Upto
  <2> QED
    BY <1>1, <1>3, <2>2, <2>6
<1> QED
  BY <1>2, <1>3

(* No word of a body is lost between the pages of a document and its       *)
(* chunks, wherever a paragraph is cut and whatever is merged.             *)
THEOREM ChunksCover ==
  ASSUME NEW pages, Document(pages)
  PROVE  /\ ChunkPages(pages) \in Seq(Pieces)
         /\ BodyOf(pages) \subseteq TextOf(ChunkPages(pages))
<1>1. pages \in Seq(Seq(Paras))
  BY DEF Document, Paras
<1>2. \A p \in Paragraphs(pages) : p.body = {} \/ \E from, to \in p.body : p.body = from..to
  BY DEF Document
<1>3. ASSUME NEW i \in DOMAIN pages
      PROVE  pages[i] \in Seq(Paras) /\ Runs(pages[i])
  <2>1. pages[i] \in Seq(Paras)
    BY <1>1
  <2>2. \A j \in DOMAIN pages[i] : pages[i][j] \in Paragraphs(pages)
    BY DEF Paragraphs, Range
  <2>3. ASSUME NEW j \in DOMAIN pages[i]
        PROVE  \E a, b \in Nat : pages[i][j].body = a..b
    <3> DEFINE p == pages[i][j]
    <3>1. p \in Paragraphs(pages)
      BY <2>2
    <3>2. p.body \subseteq Nat
      <4>1. p \in Paras
        BY <2>1
      <4> HIDE DEF p
      <4> QED
        BY <4>1 DEF Paras
    <3>3. p.body = {} => p.body = 1..0
      OBVIOUS
    <3> HIDE DEF p
    <3>4. \E a, b \in Nat : p.body = a..b
      BY <1>2, <3>1, <3>2, <3>3
    <3> QED
      BY <3>4 DEF p
  <2> QED
    BY <2>1, <2>3 DEF Runs
<1> DEFINE seqs == [i \in DOMAIN pages |-> PageChunks(pages[i])]
<1>4. seqs \in Seq(Seq(Pieces))
  <2>1. \A i \in DOMAIN pages : PageChunks(pages[i]) \in Seq(Pieces)
    BY <1>3, PageCovers
  <2>2. Len(pages) \in Nat /\ DOMAIN pages = 1..Len(pages)
    BY <1>1
  <2>3. seqs \in [1..Len(pages) -> Seq(Pieces)]
    BY ONLY <2>1, <2>2
  <2> HIDE DEF seqs
  <2> QED
    BY ONLY <2>2, <2>3
<1>5. ChunkPages(pages) = FlattenSeq(seqs)
  BY DEF ChunkPages
<1>6. ASSUME NEW w \in BodyOf(pages)
      PROVE  w \in TextOf(ChunkPages(pages))
  <2>1. PICK i \in DOMAIN pages : \E p \in Range(pages[i]) : w \in p.body
    BY DEF BodyOf, Paragraphs
  <2>2. PICK j \in DOMAIN pages[i] : w \in pages[i][j].body
    BY <2>1 DEF Range
  <2>3. w \in TextOf(PageChunks(pages[i]))
    BY <2>1, <2>2, <1>3, PageCovers
  <2>4. i \in DOMAIN seqs /\ seqs[i] = PageChunks(pages[i])
    OBVIOUS
  <2> HIDE DEF seqs
  <2> QED
    BY <2>3, <2>4, <1>4, <1>5, FlatCovers
<1> QED
  BY <1>4, <1>5, <1>6, FlatCovers


-----------------------------------------------------------------------------
(* The types of the store *)

USE StoreAssumption

Limits == [db : {"sqlite", "postgres"}, uploads : SUBSET Docs, deletes : Nat, faults : Nat, kills : Nat]

(* What a request can be, by where it stands. *)
Uploading == {"parse", "insert", "load", "save", "torn", "ingest", "commit"}
Removing == {"load", "save", "torn", "remove", "unlink"}
Numbered == {"load", "save", "torn", "ingest", "commit", "remove", "unlink"}

Shaped(c) ==
    /\ c.op = "none" => c = Idle
    /\ c.pc = "idle" => c.op = "none"
    /\ c.op # "none" => c.doc \in Docs
    /\ c.op = "upload" => c.pc \in Uploading
    /\ c.op = "delete" => c.pc \in Removing
    /\ c.pc \in Numbered => c.id \in Ids
    /\ c.pc \in {"parse", "insert"} => c.id = 0

Typed ==
    /\ TypeOK
    /\ \A p \in Procs : Shaped(proc[p])
    /\ budget \in Limits

(* A step of p leaves the other requests alone, and p's as c. *)
Becomes(p, c) == \A q \in Procs : proc'[q] = IF q = p THEN c ELSE proc[q]

LEMMA IdleShaped == Idle \in Requests /\ Shaped(Idle)
BY DEF Idle, Requests, Shaped, Uploading, Removing, Numbered

LEMMA ProcMoves ==
  ASSUME Typed, NEW p \in Procs, NEW c \in Requests, Shaped(c), proc' = [proc EXCEPT ![p] = c]
  PROVE  proc' \in [Procs -> Requests] /\ (\A q \in Procs : Shaped(proc'[q])) /\ Becomes(p, c)
<1>1. proc \in [Procs -> Requests] /\ \A q \in Procs : Shaped(proc[q])
  BY DEF Typed, TypeOK
<1>2. proc' \in [Procs -> Requests]
  BY <1>1
<1>3. Becomes(p, c)
  BY <1>1 DEF Becomes
<1> QED
  BY <1>1, <1>2, <1>3 DEF Becomes

LEMMA SpendTyped ==
  ASSUME budget \in Limits, NEW what \in {"deletes", "faults", "kills"}, Spend(what)
  PROVE  budget' \in Limits /\ budget'.db = budget.db /\ budget'.uploads = budget.uploads
<1>1. CASE what = "deletes"
  BY <1>1 DEF Spend, Limits
<1>2. CASE what = "faults"
  BY <1>2 DEF Spend, Limits
<1>3. CASE what = "kills"
  BY <1>3 DEF Spend, Limits
<1> QED
  BY <1>1, <1>2, <1>3

LEMMA EntriesTyped ==
  ASSUME NEW i \in Ids, NEW d \in Docs
  PROVE  Entries(i, d) \subseteq Chunks
BY DEF Chunks

(* The number of a new row. *)
LEMMA NextIdTyped ==
  ASSUME Typed
  PROVE  /\ NextId \in Nat /\ NextId >= 1
         /\ Sqlite => \A i \in Ids : rows[i] # None => i < NextId
         /\ ~Sqlite => NextId = last + 1
<1>1. CASE Sqlite
  <2> DEFINE S == {0} \cup {i \in Ids : rows[i] # None}
  <2>1. S \in SUBSET Nat /\ S # {} /\ \A m \in S : m <= MaxId
    BY DEF Ids
  <2>2. Max(S) \in S /\ \A m \in S : m <= Max(S)
    BY <2>1, Greatest
  <2>3. NextId = 1 + Max(S)
    BY <1>1 DEF NextId
  <2>4. Max(S) \in Nat /\ \A i \in Ids : rows[i] # None => i <= Max(S)
    BY <2>1, <2>2
  <2> HIDE DEF S
  <2> QED
    BY <1>1, <2>3, <2>4 DEF Ids
<1>2. CASE ~Sqlite
  BY <1>2 DEF NextId, Typed, TypeOK
<1> QED
  BY <1>1, <1>2

(* p's request goes on to pc. *)
Goes(p, pc) ==
    \A q \in Procs :
        /\ proc'[q].pc = IF q = p THEN pc ELSE proc[q].pc
        /\ proc'[q].op = proc[q].op /\ proc'[q].doc = proc[q].doc
        /\ proc'[q].id = proc[q].id /\ proc'[q].read = proc[q].read

PcAfter(c, pc) ==
    /\ c.op # "none" /\ (c.op = "upload" => pc \in Uploading) /\ (c.op = "delete" => pc \in Removing)
    /\ (pc \in Numbered /\ c.id \in Ids) \/ (pc = "insert" /\ c.id = 0)

LEMMA GoToMoves ==
  ASSUME Typed, NEW p \in Procs, NEW pc \in Uploading \cup Removing, PcAfter(proc[p], pc), GoTo(p, pc)
  PROVE  proc' \in [Procs -> Requests] /\ (\A q \in Procs : Shaped(proc'[q])) /\ Goes(p, pc)
<1> DEFINE r == proc[p]
           c == [r EXCEPT !.pc = pc]
<1>1. proc \in [Procs -> Requests] /\ r \in Requests /\ Shaped(r)
  BY DEF Typed, TypeOK
<1>2. proc' = [proc EXCEPT ![p] = c]
  BY <1>1 DEF GoTo
<1>3. c = [pc |-> pc, op |-> r.op, doc |-> r.doc, id |-> r.id, read |-> r.read]
  BY <1>1 DEF Requests
<1> HIDE DEF c
<1>4. c \in Requests
  BY <1>1, <1>3 DEF Requests, Uploading, Removing
<1>5. Shaped(c)
  BY <1>1, <1>3 DEF PcAfter, Shaped, Uploading, Removing, Numbered
<1>6. proc' \in [Procs -> Requests] /\ (\A q \in Procs : Shaped(proc'[q])) /\ Becomes(p, c)
  BY <1>2, <1>4, <1>5, ProcMoves
<1> QED
  BY <1>3, <1>6 DEF Goes, Becomes

LEMMA StopMoves ==
  ASSUME Typed, NEW p \in Procs, proc' = [proc EXCEPT ![p] = Idle]
  PROVE  proc' \in [Procs -> Requests] /\ (\A q \in Procs : Shaped(proc'[q])) /\ Becomes(p, Idle)
BY IdleShaped, ProcMoves

LEMMA ReleasedTyped ==
  ASSUME Typed, NEW p \in Procs
  PROVE  Released(p) \in Procs \cup {None}
BY DEF Released, Typed, TypeOK

Fresh(d) == [pc |-> "parse", op |-> "upload", doc |-> d, id |-> 0, read |-> {}]
Removal(i) == [pc |-> "load", op |-> "delete", doc |-> rows[i], id |-> i, read |-> {}]

LEMMA UploadTyped ==
  ASSUME Typed, NEW p \in Procs, NEW d \in Docs, Upload(p, d)
  PROVE  Typed' /\ Becomes(p, Fresh(d)) /\ budget'.uploads = budget.uploads \ {d} /\ budget'.db = budget.db
<1>1. budget' \in Limits /\ budget'.uploads = budget.uploads \ {d} /\ budget'.db = budget.db
  <2>1. budget \in Limits /\ budget' = [budget EXCEPT !.uploads = budget.uploads \ {d}]
    BY DEF Typed, Upload
  <2> QED
    BY ONLY <2>1 DEF Limits
<1>2. proc' = [proc EXCEPT ![p] = Fresh(d)]
  <2>1. proc' = [proc EXCEPT ![p] = [Idle EXCEPT !.pc = "parse", !.op = "upload", !.doc = d]]
    BY DEF Upload
  <2>2. Idle \in Requests /\ Idle.id = 0 /\ Idle.read = {}
    BY IdleShaped DEF Idle
  <2>3. [Idle EXCEPT !.pc = "parse", !.op = "upload", !.doc = d] = Fresh(d)
    <3> DEFINE c == [Idle EXCEPT !.pc = "parse", !.op = "upload", !.doc = d]
    <3>1. c \in [pc : {"parse"}, op : {"upload"}, doc : {d}, id : {0}, read : {{}}]
      BY DEF Idle
    <3> HIDE DEF c
    <3>2. c = Fresh(d)
      BY ONLY <3>1 DEF Fresh
    <3> QED
      BY <3>2 DEF c
  <2> QED
    BY ONLY <2>1, <2>3
<1>3. Fresh(d) \in Requests /\ Shaped(Fresh(d))
  BY DEF Fresh, Requests, Shaped, Uploading, Removing, Numbered
<1>4. proc' \in [Procs -> Requests] /\ (\A q \in Procs : Shaped(proc'[q])) /\ Becomes(p, Fresh(d))
  BY <1>2, <1>3, ProcMoves
<1>5. TypeOK'
  BY <1>4 DEF Typed, TypeOK, Upload, history
<1> QED
  BY <1>1, <1>4, <1>5 DEF Typed

LEMMA ParseTyped ==
  ASSUME Typed, NEW p \in Procs, Parse(p)
  PROVE  Typed' /\ Goes(p, "insert") /\ proc[p].op = "upload"
<1>1. proc[p] \in Requests /\ Shaped(proc[p]) /\ proc[p].pc = "parse"
  BY DEF Typed, TypeOK, Parse, At
<1>2. proc[p].op = "upload" /\ PcAfter(proc[p], "insert")
  BY <1>1 DEF PcAfter, Shaped, Requests, Idle, Uploading, Removing, Numbered
<1>3. proc' \in [Procs -> Requests] /\ (\A q \in Procs : Shaped(proc'[q])) /\ Goes(p, "insert")
  BY <1>2, GoToMoves DEF Parse, Uploading, Removing
<1>4. TypeOK'
  BY <1>3 DEF Typed, TypeOK, Parse, history
<1> QED
  BY <1>2, <1>3, <1>4 DEF Typed, Parse

Inserted(c, i) == [pc |-> "load", op |-> "upload", doc |-> c.doc, id |-> i, read |-> c.read]

LEMMA InsertTyped ==
  ASSUME Typed, NEW p \in Procs, Insert(p)
  PROVE  /\ Typed' /\ Becomes(p, Inserted(proc[p], NextId)) /\ NextId \in Ids /\ proc[p].op = "upload"
         /\ \A i \in Ids : given'[i] = IF i = NextId THEN given[i] + 1 ELSE given[i]
<1> DEFINE r == proc[p]
           c == Inserted(r, NextId)
<1>1. proc \in [Procs -> Requests] /\ r \in Requests /\ Shaped(r) /\ r.pc = "insert"
  BY DEF Typed, TypeOK, Insert, At
<1>2. r.op = "upload"
  BY <1>1 DEF Shaped, Requests, Idle, Uploading, Removing, Numbered
<1>3. NextId \in Ids
  BY NextIdTyped DEF Insert, Ids
<1>4. proc' = [proc EXCEPT ![p] = c]
  <2>1. [r EXCEPT !.pc = "load", !.id = NextId] = c
    <3>1. r \in Requests /\ r.op = "upload"
      BY <1>1, <1>2
    <3> DEFINE e == [r EXCEPT !.pc = "load", !.id = NextId]
    <3>2. e \in [pc : {"load"}, op : {"upload"}, doc : {r.doc}, id : {NextId}, read : {r.read}]
      <4> HIDE DEF r
      <4> QED
        BY ONLY <3>1 DEF Requests
    <3> HIDE DEF e
    <3>3. e = Inserted(r, NextId)
      BY ONLY <3>2 DEF Inserted
    <3> QED
      BY <3>3 DEF e
  <2>2. proc' = [proc EXCEPT ![p] = [r EXCEPT !.pc = "load", !.id = NextId]]
    BY <1>1 DEF Insert
  <2> QED
    BY ONLY <2>1, <2>2
<1>5. c \in Requests /\ Shaped(c)
  BY <1>1, <1>2, <1>3 DEF Inserted, Requests, Shaped, Uploading, Removing, Numbered
<1>6. proc' \in [Procs -> Requests] /\ (\A q \in Procs : Shaped(proc'[q])) /\ Becomes(p, c)
  BY <1>4, <1>5, ProcMoves
<1>7. given' \in [Ids -> Nat] /\ \A i \in Ids : given'[i] = IF i = NextId THEN given[i] + 1 ELSE given[i]
  BY <1>3 DEF Typed, TypeOK, Insert
<1>8. lock' \in Procs \cup {None} /\ last' \in 0..MaxId
  BY <1>3 DEF Typed, TypeOK, Insert, Ids
<1>9. TypeOK'
  BY <1>6, <1>7, <1>8 DEF Typed, TypeOK, Insert
<1> QED
  BY <1>2, <1>3, <1>6, <1>7, <1>9 DEF Typed, Insert

Reading(c) == [pc |-> "save", op |-> c.op, doc |-> c.doc, id |-> c.id, read |-> index]

LEMMA LoadTyped ==
  ASSUME Typed, NEW p \in Procs, Load(p)
  PROVE  Typed' /\ Becomes(p, Reading(proc[p])) /\ proc[p].op # "none"
<1> DEFINE r == proc[p]
           c == Reading(r)
           others == {q \in Procs \ {p} : Rewriting(q)}
<1>1. proc \in [Procs -> Requests] /\ r \in Requests /\ Shaped(r) /\ r.pc = "load"
  BY DEF Typed, TypeOK, Load, At
<1>2. r.op # "none" /\ index \in SUBSET Chunks
  BY <1>1 DEF Shaped, Idle, Typed, TypeOK
<1>3. proc' = [proc EXCEPT ![p] = c]
  <2>1. proc' = [proc EXCEPT ![p] = [r EXCEPT !.pc = "save", !.read = index]]
    BY <1>1 DEF Load
  <2> DEFINE e == [r EXCEPT !.pc = "save", !.read = index]
  <2>2. e \in [pc : {"save"}, op : {r.op}, doc : {r.doc}, id : {r.id}, read : {index}]
    <3>1. r \in Requests
      BY <1>1
    <3> HIDE DEF r
    <3> QED
      BY ONLY <3>1 DEF Requests
  <2> HIDE DEF e
  <2>3. e = c
    BY ONLY <2>2 DEF Reading
  <2> QED
    BY <2>1, <2>3 DEF e
<1>4. c \in Requests /\ Shaped(c)
  BY <1>1, <1>2 DEF Reading, Requests, Shaped, Uploading, Removing, Numbered
<1>5. proc' \in [Procs -> Requests] /\ (\A q \in Procs : Shaped(proc'[q])) /\ Becomes(p, c)
  BY <1>3, <1>4, ProcMoves
<1>6. raced' \subseteq Docs \cup {None}
  <2>1. \A q \in Procs : proc[q].doc \in Docs \cup {None}
    BY <1>1 DEF Requests
  <2>2. raced \subseteq Docs \cup {None}
    BY DEF Typed, TypeOK
  <2>3. raced' = IF others = {} THEN raced ELSE raced \cup {proc[q].doc : q \in others \cup {p}}
    BY DEF Load
  <2>4. others \subseteq Procs
    OBVIOUS
  <2> HIDE DEF others
  <2> QED
    BY ONLY <2>1, <2>2, <2>3, <2>4, p \in Procs
<1>7. TypeOK'
  BY <1>5, <1>6 DEF Typed, TypeOK, Load
<1> QED
  BY <1>2, <1>5, <1>7 DEF Typed, Load

LEMMA EmptyTyped ==
  ASSUME Typed, NEW p \in Procs, Empty(p)
  PROVE  Typed' /\ Goes(p, "torn") /\ proc[p].op # "none"
<1>1. proc[p] \in Requests /\ Shaped(proc[p]) /\ proc[p].pc = "save"
  BY DEF Typed, TypeOK, Empty, At
<1>2. proc[p].op # "none" /\ PcAfter(proc[p], "torn")
  BY <1>1 DEF PcAfter, Shaped, Idle, Uploading, Removing, Numbered
<1>3. proc' \in [Procs -> Requests] /\ (\A q \in Procs : Shaped(proc'[q])) /\ Goes(p, "torn")
  BY <1>2, GoToMoves DEF Empty, Uploading, Removing
<1>4. TypeOK'
  BY <1>3 DEF Typed, TypeOK, Empty, history
<1> QED
  BY <1>2, <1>3, <1>4 DEF Typed, Empty

LEMMA WriteTyped ==
  ASSUME Typed, NEW p \in Procs, Write(p)
  PROVE  /\ Typed' /\ proc[p].op \in {"upload", "delete"}
         /\ proc[p].op = "upload" => Goes(p, "ingest")
         /\ proc[p].op = "delete" => Goes(p, "remove")
<1>1. proc[p] \in Requests /\ Shaped(proc[p]) /\ proc[p].pc = "torn"
  BY DEF Typed, TypeOK, Write, At
<1>2. proc[p].op \in {"upload", "delete"} /\ proc[p].doc \in Docs /\ proc[p].id \in Ids
  BY <1>1 DEF Shaped, Idle, Requests, Numbered
<1>3. /\ proc[p].op = "upload" => PcAfter(proc[p], "ingest") /\ GoTo(p, "ingest")
      /\ proc[p].op = "delete" => PcAfter(proc[p], "remove") /\ GoTo(p, "remove")
  BY <1>1, <1>2 DEF PcAfter, Uploading, Removing, Numbered, Write
<1>4. /\ proc' \in [Procs -> Requests] /\ (\A q \in Procs : Shaped(proc'[q]))
      /\ proc[p].op = "upload" => Goes(p, "ingest")
      /\ proc[p].op = "delete" => Goes(p, "remove")
  <2>1. CASE proc[p].op = "upload"
    BY <2>1, <1>3, GoToMoves DEF Uploading
  <2>2. CASE proc[p].op = "delete"
    BY <2>2, <1>3, GoToMoves DEF Removing
  <2> QED
    BY <2>1, <2>2, <1>2
<1>5. index' \subseteq Chunks /\ torn' \in BOOLEAN
  <2>1. Entries(proc[p].id, proc[p].doc) \subseteq Chunks /\ proc[p].read \subseteq Chunks
    BY <1>1, <1>2, EntriesTyped DEF Requests
  <2>2. \/ index' = {}
        \/ index' = proc[p].read \cup Unlisted(Entries(proc[p].id, proc[p].doc), proc[p].read)
        \/ index' = Kept(proc[p].read, proc[p].id)
    BY DEF Write
  <2>3. torn' \in BOOLEAN
    <3>1. torn' \in IF torn THEN {FALSE} ELSE BOOLEAN
      BY DEF Write
    <3> QED
      BY ONLY <3>1
  <2> QED
    BY ONLY <2>1, <2>2, <2>3 DEF Unlisted, Kept
<1>6. TypeOK'
  BY <1>4, <1>5 DEF Typed, TypeOK, Write, history
<1> QED
  BY <1>2, <1>4, <1>6 DEF Typed, Write

LEMMA IngestTyped ==
  ASSUME Typed, NEW p \in Procs, Ingest(p)
  PROVE  /\ Typed' /\ Goes(p, "commit") /\ proc[p].op = "upload"
         /\ budget'.db = budget.db /\ budget'.uploads = budget.uploads
         /\ chroma' \subseteq chroma \cup Entries(proc[p].id, proc[p].doc)
<1>1. proc[p] \in Requests /\ Shaped(proc[p]) /\ proc[p].pc = "ingest" /\ budget \in Limits
  BY DEF Typed, TypeOK, Ingest, At
<1>2. proc[p].op = "upload" /\ PcAfter(proc[p], "commit") /\ proc[p].doc \in Docs /\ proc[p].id \in Ids
  BY <1>1 DEF PcAfter, Shaped, Requests, Idle, Uploading, Removing, Numbered
<1>3. proc' \in [Procs -> Requests] /\ (\A q \in Procs : Shaped(proc'[q])) /\ Goes(p, "commit")
  BY <1>2, GoToMoves DEF Ingest, Uploading
<1>4. budget' \in Limits /\ budget'.db = budget.db /\ budget'.uploads = budget.uploads
  BY <1>1, SpendTyped DEF Ingest
<1>5. chroma' \subseteq chroma \cup Entries(proc[p].id, proc[p].doc)
  BY DEF Ingest, Unlisted
<1>6. chroma' \subseteq Chunks
  BY <1>2, <1>5, EntriesTyped DEF Typed, TypeOK
<1>7. TypeOK'
  BY <1>3, <1>6 DEF Typed, TypeOK, Ingest, history
<1> QED
  BY <1>2, <1>3, <1>4, <1>5, <1>7 DEF Typed

LEMMA CommitTyped ==
  ASSUME Typed, NEW p \in Procs, Commit(p)
  PROVE  /\ Typed' /\ Becomes(p, Idle) /\ proc[p].op = "upload" /\ proc[p].id \in Ids /\ proc[p].doc \in Docs
         /\ \A i \in Ids : rows'[i] = IF i = proc[p].id THEN proc[p].doc ELSE rows[i]
<1>1. proc[p] \in Requests /\ Shaped(proc[p]) /\ proc[p].pc = "commit"
  BY DEF Typed, TypeOK, Commit, At
<1>2. proc[p].op = "upload" /\ proc[p].doc \in Docs /\ proc[p].id \in Ids
  BY <1>1 DEF Shaped, Requests, Idle, Uploading, Removing, Numbered
<1>3. proc' \in [Procs -> Requests] /\ (\A q \in Procs : Shaped(proc'[q])) /\ Becomes(p, Idle)
  BY StopMoves DEF Commit
<1>4. /\ rows' \in [Ids -> Docs \cup {None}]
      /\ \A i \in Ids : rows'[i] = IF i = proc[p].id THEN proc[p].doc ELSE rows[i]
  BY <1>2 DEF Typed, TypeOK, Commit
<1>5. lock' \in Procs \cup {None}
  BY ReleasedTyped DEF Commit
<1>6. TypeOK'
  BY <1>3, <1>4, <1>5 DEF Typed, TypeOK, Commit, history
<1> QED
  BY <1>2, <1>3, <1>4, <1>6 DEF Typed, Commit

LEMMA RaisesTyped ==
  ASSUME Typed, NEW p \in Procs, Raises(p)
  PROVE  budget' \in Limits /\ budget'.db = budget.db /\ budget'.uploads = budget.uploads
<1>1. budget \in Limits
  BY DEF Typed
<1> QED
  BY <1>1, SpendTyped DEF Raises

LEMMA AbandonedTyped ==
  ASSUME Typed, NEW p \in Procs, Abandoned(p)
  PROVE  /\ index' \subseteq Chunks /\ torn' \in BOOLEAN
         /\ index' \subseteq index
         /\ torn' \/ UNCHANGED <<index, torn>>
BY DEF Abandoned, Typed, TypeOK

LEMMA UploadFailsTyped ==
  ASSUME Typed, NEW p \in Procs, UploadFails(p)
  PROVE  /\ Typed' /\ Becomes(p, Idle) /\ proc[p].doc \in Docs
         /\ budget'.db = budget.db /\ budget'.uploads = budget.uploads
<1>1. proc[p] \in Requests /\ Shaped(proc[p]) /\ proc[p].op = "upload"
  BY DEF Typed, TypeOK, UploadFails
<1>2. proc[p].doc \in Docs
  BY <1>1 DEF Shaped
<1>3. proc' \in [Procs -> Requests] /\ (\A q \in Procs : Shaped(proc'[q])) /\ Becomes(p, Idle)
  BY StopMoves DEF UploadFails
<1>4. budget' \in Limits /\ budget'.db = budget.db /\ budget'.uploads = budget.uploads
  BY RaisesTyped DEF UploadFails
<1>5. lock' \in Procs \cup {None} /\ files' \subseteq Docs /\ broken' \in Nat
  BY ReleasedTyped DEF UploadFails, Cleaned, Typed, TypeOK
<1>a. index' \subseteq Chunks /\ torn' \in BOOLEAN
  BY AbandonedTyped DEF UploadFails
<1>6. TypeOK'
  BY <1>3, <1>5, <1>a DEF Typed, TypeOK, UploadFails
<1> QED
  BY <1>2, <1>3, <1>4, <1>6 DEF Typed

LEMMA DeleteTyped ==
  ASSUME Typed, NEW p \in Procs, NEW i \in Ids, Delete(p, i)
  PROVE  Typed' /\ Becomes(p, Removal(i)) /\ rows[i] \in Docs /\ budget'.db = budget.db /\ budget'.uploads = budget.uploads
<1>1. budget' \in Limits /\ budget'.db = budget.db /\ budget'.uploads = budget.uploads
  BY SpendTyped DEF Delete, Typed
<1>2. rows[i] \in Docs
  BY DEF Delete, Typed, TypeOK
<1>3. proc' = [proc EXCEPT ![p] = Removal(i)]
  <2>1. proc' = [proc EXCEPT ![p] = [Idle EXCEPT !.pc = "load", !.op = "delete", !.doc = rows[i], !.id = i]]
    BY DEF Delete
  <2> DEFINE c == [Idle EXCEPT !.pc = "load", !.op = "delete", !.doc = rows[i], !.id = i]
  <2>2. c \in [pc : {"load"}, op : {"delete"}, doc : {rows[i]}, id : {i}, read : {{}}]
    BY DEF Idle
  <2> HIDE DEF c
  <2>3. c = Removal(i)
    BY ONLY <2>2 DEF Removal
  <2> QED
    BY <2>1, <2>3 DEF c
<1>4. Removal(i) \in Requests /\ Shaped(Removal(i))
  BY <1>2 DEF Removal, Requests, Shaped, Uploading, Removing, Numbered
<1>5. proc' \in [Procs -> Requests] /\ (\A q \in Procs : Shaped(proc'[q])) /\ Becomes(p, Removal(i))
  BY <1>3, <1>4, ProcMoves
<1>6. TypeOK'
  BY <1>5 DEF Typed, TypeOK, Delete, history
<1> QED
  BY <1>1, <1>2, <1>5, <1>6 DEF Typed

LEMMA DropRowTyped ==
  ASSUME Typed, NEW p \in Procs, DropRow(p)
  PROVE  /\ Typed' /\ Goes(p, "unlink") /\ proc[p].op = "delete" /\ proc[p].id \in Ids
         /\ \A i \in Ids : rows'[i] = IF i = proc[p].id THEN None ELSE rows[i]
<1>1. proc[p] \in Requests /\ Shaped(proc[p]) /\ proc[p].pc = "remove"
  BY DEF Typed, TypeOK, DropRow, At
<1>2. proc[p].op = "delete" /\ PcAfter(proc[p], "unlink") /\ proc[p].id \in Ids
  BY <1>1 DEF PcAfter, Shaped, Requests, Idle, Uploading, Removing, Numbered
<1>3. proc' \in [Procs -> Requests] /\ (\A q \in Procs : Shaped(proc'[q])) /\ Goes(p, "unlink")
  BY <1>2, GoToMoves DEF DropRow, Removing
<1>4. /\ rows' \in [Ids -> Docs \cup {None}]
      /\ \A i \in Ids : rows'[i] = IF i = proc[p].id THEN None ELSE rows[i]
  BY <1>2 DEF Typed, TypeOK, DropRow
<1>5. TypeOK'
  BY <1>3, <1>4 DEF Typed, TypeOK, DropRow, history
<1> QED
  BY <1>2, <1>3, <1>4, <1>5 DEF Typed, DropRow

LEMMA UnlinkTyped ==
  ASSUME Typed, NEW p \in Procs, Unlink(p)
  PROVE  Typed' /\ Becomes(p, Idle) /\ proc[p].op = "delete" /\ proc[p].doc \in Docs
<1>1. proc[p] \in Requests /\ Shaped(proc[p]) /\ proc[p].pc = "unlink"
  BY DEF Typed, TypeOK, Unlink, At
<1>2. proc[p].op = "delete" /\ proc[p].doc \in Docs
  BY <1>1 DEF Shaped, Requests, Idle, Uploading, Removing
<1>3. proc' \in [Procs -> Requests] /\ (\A q \in Procs : Shaped(proc'[q])) /\ Becomes(p, Idle)
  BY StopMoves DEF Unlink
<1>4. TypeOK'
  BY <1>3 DEF Typed, TypeOK, Unlink, history
<1> QED
  BY <1>2, <1>3, <1>4 DEF Typed, Unlink

LEMMA DeleteFailsTyped ==
  ASSUME Typed, NEW p \in Procs, DeleteFails(p)
  PROVE  /\ Typed' /\ Becomes(p, Idle) /\ raced \subseteq raced'
         /\ budget'.db = budget.db /\ budget'.uploads = budget.uploads
<1>1. proc[p] \in Requests
  BY DEF Typed, TypeOK
<1>2. proc' \in [Procs -> Requests] /\ (\A q \in Procs : Shaped(proc'[q])) /\ Becomes(p, Idle)
  BY StopMoves DEF DeleteFails
<1>3. budget' \in Limits /\ budget'.db = budget.db /\ budget'.uploads = budget.uploads
  BY RaisesTyped DEF DeleteFails
<1>4. raced' \subseteq Docs \cup {None} /\ raced \subseteq raced' /\ broken' \in Nat
  BY <1>1 DEF DeleteFails, Typed, TypeOK, Requests
<1>a. index' \subseteq Chunks /\ torn' \in BOOLEAN
  BY AbandonedTyped DEF DeleteFails
<1>5. TypeOK'
  BY <1>2, <1>4, <1>a DEF Typed, TypeOK, DeleteFails
<1> QED
  BY <1>2, <1>3, <1>4, <1>5 DEF Typed

LEMMA KillTyped ==
  ASSUME Typed, NEW p \in Procs, Kill(p)
  PROVE  /\ Typed' /\ Becomes(p, Idle) /\ raced \subseteq raced'
         /\ budget'.db = budget.db /\ budget'.uploads = budget.uploads
<1>1. proc[p] \in Requests
  BY DEF Typed, TypeOK
<1>2. proc' \in [Procs -> Requests] /\ (\A q \in Procs : Shaped(proc'[q])) /\ Becomes(p, Idle)
  BY StopMoves DEF Kill
<1>3. budget' \in Limits /\ budget'.db = budget.db /\ budget'.uploads = budget.uploads
  BY SpendTyped DEF Kill, Typed
<1>4. raced' \subseteq Docs \cup {None} /\ raced \subseteq raced'
  BY <1>1 DEF Kill, Typed, TypeOK, Requests
<1>5. lock' \in Procs \cup {None} /\ broken' \in Nat
  BY ReleasedTyped DEF Kill, Typed, TypeOK
<1>6. TypeOK'
  BY <1>2, <1>4, <1>5 DEF Typed, TypeOK, Kill
<1> QED
  BY <1>2, <1>3, <1>4, <1>6 DEF Typed

LEMMA InitTyped ==
  ASSUME Init
  PROVE  Typed
<1>1. proc \in [Procs -> Requests] /\ \A p \in Procs : Shaped(proc[p])
  BY IdleShaped DEF Init
<1>2. budget \in Limits
  BY DEF Init, Limits
<1>3. rows \in [Ids -> Docs \cup {None}] /\ given \in [Ids -> Nat] /\ last \in 0..MaxId
  BY DEF Init
<1>4. TypeOK
  BY <1>1, <1>3 DEF Init, TypeOK
<1> QED
  BY <1>1, <1>2, <1>4 DEF Typed

-----------------------------------------------------------------------------
(* Which document each request, row and file is about.  A document that is *)
(* being uploaded is nobody else's; one that is listed is listed once, and *)
(* whoever removes it knows its number.                                    *)
Absent(d) == \A i \in Ids : rows[i] # d

ToCome == \A d \in budget.uploads : d \notin files /\ Absent(d) /\ \A p \in Procs : proc[p].doc # d

UploadersOwn ==
    \A p \in Procs : proc[p].op = "upload" =>
        /\ proc[p].doc \in files /\ Absent(proc[p].doc)
        /\ \A q \in Procs : proc[q].doc = proc[p].doc => q = p

RemoversKnow ==
    \A p \in Procs : proc[p].op = "delete" =>
        /\ \A i \in Ids : rows[i] = proc[p].doc => i = proc[p].id
        /\ proc[p].pc = "unlink" => Absent(proc[p].doc)

ListedOnce == \A i, j \in Ids : rows[i] = rows[j] /\ rows[i] # None => i = j
ListedFiled == \A i \in Ids : rows[i] # None => rows[i] \in files

DocsHeld == ToCome /\ UploadersOwn /\ RemoversKnow /\ ListedOnce /\ ListedFiled

USE DEF Absent, ToCome, UploadersOwn, RemoversKnow, ListedOnce, ListedFiled

LEMMA DocsSame ==
  ASSUME DocsHeld, UNCHANGED <<rows, files>>, budget'.uploads = budget.uploads,
         \A q \in Procs : /\ proc'[q].op = proc[q].op /\ proc'[q].doc = proc[q].doc
                          /\ proc[q].op = "delete" => proc'[q].id = proc[q].id
                          /\ proc'[q].pc = "unlink" => proc[q].pc = "unlink"
  PROVE  DocsHeld'
BY DEF DocsHeld

LEMMA DocsStop ==
  ASSUME Typed, DocsHeld, NEW p \in Procs, Becomes(p, Idle), UNCHANGED <<rows, files>>, budget'.uploads = budget.uploads
  PROVE  DocsHeld'
<1>1. \A q \in Procs : proc'[q].op # "none" => proc'[q] = proc[q]
  BY DEF Becomes, Idle
<1>2. \A q \in Procs : proc'[q].doc = proc[q].doc \/ proc'[q].doc = None
  BY DEF Becomes, Idle
<1>3. \A d \in budget.uploads : d # None
  BY DEF Typed, Limits
<1>4. \A q \in Procs : proc[q].op # "none" => proc[q].doc # None
  BY DEF Typed, Shaped
<1> QED
  BY <1>1, <1>2, <1>3, <1>4 DEF DocsHeld

LEMMA DocsUpload ==
  ASSUME Typed, DocsHeld, NEW p \in Procs, NEW d \in Docs, Upload(p, d)
  PROVE  DocsHeld'
<1>1. Becomes(p, Fresh(d)) /\ budget'.uploads = budget.uploads \ {d}
  BY UploadTyped
<1>2. /\ d \in budget.uploads /\ rows' = rows /\ files' = files \cup {d}
      /\ d \notin files /\ Absent(d) /\ \A q \in Procs : proc[q].doc # d
  BY DEF Upload, DocsHeld
<1>3. \A q \in Procs : q # p => proc'[q] = proc[q]
  BY <1>1 DEF Becomes
<1>4. proc'[p].pc = "parse" /\ proc'[p].op = "upload" /\ proc'[p].doc = d
  BY <1>1 DEF Becomes, Fresh
<1> QED
  BY <1>1, <1>2, <1>3, <1>4 DEF DocsHeld

LEMMA DocsCommit ==
  ASSUME Typed, DocsHeld, NEW p \in Procs, Commit(p)
  PROVE  DocsHeld'
<1> DEFINE d == proc[p].doc
           i == proc[p].id
<1>1. Becomes(p, Idle) /\ proc[p].op = "upload" /\ i \in Ids /\ d \in Docs
  BY CommitTyped
<1>2. \A j \in Ids : rows'[j] = IF j = i THEN d ELSE rows[j]
  BY CommitTyped
<1>3. files' = files /\ budget' = budget
  BY DEF Commit
<1>4. d \in files /\ Absent(d) /\ \A q \in Procs : proc[q].doc = d => q = p
  BY <1>1 DEF DocsHeld
<1>5. \A q \in Procs : q # p => proc'[q] = proc[q] /\ proc'[q].doc # d
  BY <1>1, <1>4 DEF Becomes
<1>6. proc'[p].op = "none" /\ proc'[p].doc = None
  BY <1>1 DEF Becomes, Idle
<1>7. \A e \in budget.uploads : e # d /\ e # None
  BY DEF DocsHeld, Typed, Limits
<1> HIDE DEF d, i
<1>8. ToCome'
  BY <1>1, <1>2, <1>3, <1>4, <1>5, <1>6, <1>7 DEF DocsHeld
<1>9. UploadersOwn'
  <2> SUFFICES ASSUME NEW q \in Procs, proc'[q].op = "upload"
               PROVE  /\ proc'[q].doc \in files' /\ (\A j \in Ids : rows'[j] # proc'[q].doc)
                      /\ \A r \in Procs : proc'[r].doc = proc'[q].doc => r = q
    OBVIOUS
  <2>1. q # p /\ proc'[q] = proc[q] /\ proc[q].doc # d
    BY <1>5, <1>6
  <2>2. proc[q].doc \in files /\ Absent(proc[q].doc) /\ \A r \in Procs : proc[r].doc = proc[q].doc => r = q
    BY <2>1 DEF DocsHeld
  <2>3. proc[q].doc # None
    BY <2>1 DEF Typed, Shaped
  <2>4. \A r \in Procs : proc'[r].doc = proc[q].doc => r = q
    BY <2>1, <2>2, <2>3, <1>5, <1>6
  <2> QED
    BY <2>1, <2>2, <2>4, <1>2, <1>3
<1>10. RemoversKnow'
  BY <1>1, <1>2, <1>3, <1>4, <1>5, <1>6, <1>7 DEF DocsHeld
<1>11. ListedOnce'
  BY <1>1, <1>2, <1>3, <1>4, <1>5, <1>6, <1>7 DEF DocsHeld
<1>12. ListedFiled'
  BY <1>1, <1>2, <1>3, <1>4, <1>5, <1>6, <1>7 DEF DocsHeld
<1> QED
  BY <1>8, <1>9, <1>10, <1>11, <1>12 DEF DocsHeld

LEMMA DocsUploadFails ==
  ASSUME Typed, DocsHeld, NEW p \in Procs, UploadFails(p)
  PROVE  DocsHeld'
<1>s. CASE files' = files
  <2>1. Becomes(p, Idle) /\ budget'.uploads = budget.uploads
    BY UploadFailsTyped
  <2> QED
    BY <1>s, <2>1, DocsStop DEF UploadFails
<1>c. CASE files' = files \ {proc[p].doc}
  <2> DEFINE d == proc[p].doc
  <2>1. Becomes(p, Idle) /\ proc[p].op = "upload" /\ d \in Docs /\ budget'.uploads = budget.uploads
    BY UploadFailsTyped DEF UploadFails
  <2>2. rows' = rows /\ files' = files \ {d}
    BY <1>c DEF UploadFails
  <2>3. d \in files /\ Absent(d) /\ \A q \in Procs : proc[q].doc = d => q = p
    BY <2>1 DEF DocsHeld
  <2>4. \A q \in Procs : q # p => proc'[q] = proc[q] /\ proc'[q].doc # d
    BY <2>1, <2>3 DEF Becomes
  <2>5. proc'[p].op = "none" /\ proc'[p].doc = None
    BY <2>1 DEF Becomes, Idle
  <2>6. \A e \in budget.uploads : e # d /\ e # None
    BY DEF DocsHeld, Typed, Limits
  <2> HIDE DEF d
  <2>7. ToCome'
    BY <2>1, <2>2, <2>3, <2>4, <2>5, <2>6 DEF DocsHeld
  <2>8. UploadersOwn'
    <3> SUFFICES ASSUME NEW q \in Procs, proc'[q].op = "upload"
                 PROVE  /\ proc'[q].doc \in files' /\ (\A j \in Ids : rows'[j] # proc'[q].doc)
                        /\ \A r \in Procs : proc'[r].doc = proc'[q].doc => r = q
      OBVIOUS
    <3>1. q # p /\ proc'[q] = proc[q] /\ proc[q].doc # d
      BY <2>4, <2>5
    <3>2. proc[q].doc \in files /\ Absent(proc[q].doc) /\ \A r \in Procs : proc[r].doc = proc[q].doc => r = q
      BY <3>1 DEF DocsHeld
    <3>3. proc[q].doc # None
      BY <3>1 DEF Typed, Shaped
    <3>4. \A r \in Procs : proc'[r].doc = proc[q].doc => r = q
      BY <3>1, <3>2, <3>3, <2>4, <2>5
    <3> QED
      BY <3>1, <3>2, <3>4, <2>2
  <2>9. RemoversKnow'
    BY <2>1, <2>2, <2>3, <2>4, <2>5, <2>6 DEF DocsHeld
  <2>10. ListedOnce'
    BY <2>1, <2>2, <2>3, <2>4, <2>5, <2>6 DEF DocsHeld
  <2>11. ListedFiled'
    BY <2>1, <2>2, <2>3, <2>4, <2>5, <2>6 DEF DocsHeld
  <2> QED
    BY <2>7, <2>8, <2>9, <2>10, <2>11 DEF DocsHeld
<1> QED
  BY <1>s, <1>c DEF UploadFails, Cleaned

LEMMA DocsDelete ==
  ASSUME Typed, DocsHeld, NEW p \in Procs, NEW i \in Ids, Delete(p, i)
  PROVE  DocsHeld'
<1>1. Becomes(p, Removal(i)) /\ rows[i] \in Docs /\ budget'.uploads = budget.uploads
  BY DeleteTyped
<1>2. rows' = rows /\ files' = files
  BY DEF Delete
<1>3. \A q \in Procs : q # p => proc'[q] = proc[q]
  BY <1>1 DEF Becomes
<1>4. proc'[p].op = "delete" /\ proc'[p].doc = rows[i] /\ proc'[p].id = i /\ proc'[p].pc = "load"
  BY <1>1 DEF Becomes, Removal
<1>5. rows[i] # None
  BY <1>1
<1> QED
  BY <1>1, <1>2, <1>3, <1>4, <1>5 DEF DocsHeld

LEMMA DocsDropRow ==
  ASSUME Typed, DocsHeld, NEW p \in Procs, DropRow(p)
  PROVE  DocsHeld'
<1> DEFINE d == proc[p].doc
           i == proc[p].id
<1>1. Goes(p, "unlink") /\ proc[p].op = "delete" /\ i \in Ids
  BY DropRowTyped
<1>2. \A j \in Ids : rows'[j] = IF j = i THEN None ELSE rows[j]
  BY DropRowTyped
<1>3. files' = files /\ budget' = budget
  BY DEF DropRow
<1>4. \A j \in Ids : rows[j] = d => j = i
  BY <1>1 DEF DocsHeld
<1>5. \A q \in Procs : /\ proc'[q].op = proc[q].op /\ proc'[q].doc = proc[q].doc /\ proc'[q].id = proc[q].id
                       /\ q # p => proc'[q].pc = proc[q].pc
  BY <1>1 DEF Goes
<1>6. d # None /\ \A e \in budget.uploads : e # None
  BY <1>1 DEF Typed, Shaped, Limits
<1>7. \A q \in Procs : proc[q].op # "none" => proc[q].doc # None
  BY DEF Typed, Shaped
<1> HIDE DEF i
<1> QED
  BY <1>1, <1>2, <1>3, <1>4, <1>5, <1>6, <1>7 DEF DocsHeld

LEMMA DocsUnlink ==
  ASSUME Typed, DocsHeld, NEW p \in Procs, Unlink(p)
  PROVE  DocsHeld'
<1> DEFINE d == proc[p].doc
<1>1. Becomes(p, Idle) /\ proc[p].op = "delete" /\ d \in Docs /\ proc[p].pc = "unlink"
  BY UnlinkTyped DEF Unlink, At
<1>2. rows' = rows /\ files' = files \ {d} /\ budget' = budget
  BY DEF Unlink
<1>3. Absent(d) /\ \A q \in Procs : proc[q].op = "upload" => proc[q].doc # d
  BY <1>1 DEF DocsHeld
<1>4. \A q \in Procs : q # p => proc'[q] = proc[q]
  BY <1>1 DEF Becomes
<1>5. proc'[p].op = "none" /\ proc'[p].doc = None
  BY <1>1 DEF Becomes, Idle
<1>6. \A e \in budget.uploads : e # None
  BY DEF Typed, Limits
<1>7. \A q \in Procs : proc[q].op # "none" => proc[q].doc # None
  BY DEF Typed, Shaped
<1> HIDE DEF d
<1> QED
  BY <1>1, <1>2, <1>3, <1>4, <1>5, <1>6, <1>7 DEF DocsHeld

-----------------------------------------------------------------------------
(* Whose a number is.  A row, a stored chunk, a request and what it read   *)
(* of the file all name the document of a number; until the number is      *)
(* given a second time they name the same one.                             *)
Named(i, d) ==
    \/ rows[i] = d
    \/ \E e \in index \cup chroma : e[1] = i /\ e[3] = d
    \/ \E p \in Procs : proc[p].id = i /\ proc[p].doc = d
    \/ \E p \in Procs : \E e \in proc[p].read : e[1] = i /\ e[3] = d

OneName ==
    /\ \A i \in Ids, d \in Docs : Named(i, d) => given[i] > 0
    /\ \A i \in Ids, d, e \in Docs : given[i] = 1 /\ Named(i, d) /\ Named(i, e) => d = e
    /\ ~Sqlite => \A i \in Ids : given[i] <= 1 /\ (given[i] = 1 => i <= last)

LEMMA EntryIs ==
  ASSUME NEW i, NEW d, NEW e \in Entries(i, d)
  PROVE  e[1] = i /\ e[3] = d
BY DEF Entries

NoNewName == \A i \in Ids, d \in Docs : Named(i, d)' => Named(i, d)

LEMMA NamesKept ==
  ASSUME OneName, UNCHANGED <<given, last>>, budget'.db = budget.db, NoNewName
  PROVE  OneName'
<1>1. Sqlite' = Sqlite
  BY DEF Sqlite
<1> HIDE DEF Named
<1> QED
  BY <1>1 DEF OneName, NoNewName

(* A step of p that only passes names on. *)
LEMMA NamesPassed ==
  ASSUME NEW p \in Procs,
         \A i \in Ids : rows'[i] \in Docs => rows'[i] = rows[i] \/ (i = proc[p].id /\ rows'[i] = proc[p].doc),
         \A e \in index' : e \in index \/ e \in proc[p].read \/ (e[1] = proc[p].id /\ e[3] = proc[p].doc),
         \A e \in chroma' : e \in chroma \/ (e[1] = proc[p].id /\ e[3] = proc[p].doc),
         \A q \in Procs : proc'[q].id \in Ids /\ proc'[q].doc \in Docs =>
            \/ proc'[q].id = proc[q].id /\ proc'[q].doc = proc[q].doc
            \/ rows[proc'[q].id] = proc'[q].doc,
         \A q \in Procs : proc'[q].read \subseteq proc[q].read \/ proc'[q].read \subseteq index
  PROVE  NoNewName
<1> SUFFICES ASSUME NEW i \in Ids, NEW d \in Docs, Named(i, d)'
             PROVE  Named(i, d)
  BY DEF NoNewName
<1>1. CASE rows'[i] = d
  BY <1>1 DEF Named
<1>2. CASE \E e \in index' : e[1] = i /\ e[3] = d
  BY <1>2 DEF Named
<1>3. CASE \E e \in chroma' : e[1] = i /\ e[3] = d
  BY <1>3 DEF Named
<1>4. CASE \E q \in Procs : proc'[q].id = i /\ proc'[q].doc = d
  BY <1>4 DEF Named
<1>5. CASE \E q \in Procs : \E e \in proc'[q].read : e[1] = i /\ e[3] = d
  BY <1>5 DEF Named
<1> QED
  BY <1>1, <1>2, <1>3, <1>4, <1>5 DEF Named

(* Requests that go on, or end, name nothing new. *)
LEMMA GoesOld ==
  ASSUME NEW p \in Procs, NEW pc, Goes(p, pc)
  PROVE  \A q \in Procs : /\ proc'[q].id = proc[q].id /\ proc'[q].doc = proc[q].doc
                          /\ proc'[q].read \subseteq proc[q].read
BY DEF Goes

LEMMA StopsOld ==
  ASSUME NEW p \in Procs, Becomes(p, Idle)
  PROVE  \A q \in Procs : /\ proc'[q].doc \in Docs => proc'[q].id = proc[q].id /\ proc'[q].doc = proc[q].doc
                          /\ proc'[q].read \subseteq proc[q].read
BY DEF Becomes, Idle

LEMMA NamesUpload ==
  ASSUME Typed, NEW p \in Procs, NEW d \in Docs, Upload(p, d)
  PROVE  NoNewName /\ UNCHANGED <<given, last>> /\ budget'.db = budget.db
<1>1. Becomes(p, Fresh(d)) /\ budget'.db = budget.db
  BY UploadTyped
<1>2. UNCHANGED <<rows, index, chroma, given, last>>
  BY DEF Upload, history
<1>3. \A q \in Procs : /\ proc'[q].id \in Ids => proc'[q].id = proc[q].id /\ proc'[q].doc = proc[q].doc
                       /\ proc'[q].read \subseteq proc[q].read
  BY <1>1 DEF Becomes, Fresh, Ids
<1> QED
  BY <1>1, <1>2, <1>3, NamesPassed

LEMMA NamesParse ==
  ASSUME Typed, NEW p \in Procs, Parse(p)
  PROVE  NoNewName /\ UNCHANGED <<given, last>> /\ budget'.db = budget.db
<1>1. Goes(p, "insert")
  BY ParseTyped
<1>2. UNCHANGED <<rows, index, chroma, given, last, budget>>
  BY DEF Parse, history
<1> QED
  BY <1>1, <1>2, GoesOld, NamesPassed

LEMMA NamesLoad ==
  ASSUME Typed, NEW p \in Procs, Load(p)
  PROVE  NoNewName /\ UNCHANGED <<given, last>> /\ budget'.db = budget.db
<1>1. Becomes(p, Reading(proc[p]))
  BY LoadTyped
<1>2. UNCHANGED <<rows, index, chroma, given, last, budget>>
  BY DEF Load
<1>3. \A q \in Procs : /\ proc'[q].id = proc[q].id /\ proc'[q].doc = proc[q].doc
                       /\ proc'[q].read \subseteq proc[q].read \/ proc'[q].read \subseteq index
  BY <1>1 DEF Becomes, Reading
<1> QED
  BY <1>2, <1>3, NamesPassed

LEMMA NamesEmpty ==
  ASSUME Typed, NEW p \in Procs, Empty(p)
  PROVE  NoNewName /\ UNCHANGED <<given, last>> /\ budget'.db = budget.db
<1>1. Goes(p, "torn")
  BY EmptyTyped
<1>2. UNCHANGED <<rows, chroma, given, last, budget>> /\ index' = {}
  BY DEF Empty, history
<1> QED
  BY <1>1, <1>2, GoesOld, NamesPassed

LEMMA NamesWrite ==
  ASSUME Typed, NEW p \in Procs, Write(p)
  PROVE  NoNewName /\ UNCHANGED <<given, last>> /\ budget'.db = budget.db
<1>1. Goes(p, "ingest") \/ Goes(p, "remove")
  BY WriteTyped
<1>2. UNCHANGED <<rows, chroma, given, last, budget>>
  BY DEF Write, history
<1>3. \/ index' = {}
      \/ index' = proc[p].read \cup Unlisted(Entries(proc[p].id, proc[p].doc), proc[p].read)
      \/ index' = Kept(proc[p].read, proc[p].id)
  BY DEF Write
<1>4. \A e \in index' : e \in proc[p].read \/ e \in Entries(proc[p].id, proc[p].doc)
  BY <1>3 DEF Unlisted, Kept
<1>5. \A e \in index' : e \in proc[p].read \/ (e[1] = proc[p].id /\ e[3] = proc[p].doc)
  BY <1>4, EntryIs
<1> QED
  BY <1>1, <1>2, <1>5, GoesOld, NamesPassed

LEMMA NamesIngest ==
  ASSUME Typed, NEW p \in Procs, Ingest(p)
  PROVE  NoNewName /\ UNCHANGED <<given, last>> /\ budget'.db = budget.db
<1>1. Goes(p, "commit") /\ budget'.db = budget.db /\ chroma' \subseteq chroma \cup Entries(proc[p].id, proc[p].doc)
  BY IngestTyped
<1>2. UNCHANGED <<rows, index, given, last>>
  BY DEF Ingest, history
<1>3. \A e \in chroma' : e \in chroma \/ (e[1] = proc[p].id /\ e[3] = proc[p].doc)
  BY <1>1, EntryIs
<1> QED
  BY <1>1, <1>2, <1>3, GoesOld, NamesPassed

LEMMA NamesCommit ==
  ASSUME Typed, NEW p \in Procs, Commit(p)
  PROVE  NoNewName /\ UNCHANGED <<given, last>> /\ budget'.db = budget.db
<1>1. Becomes(p, Idle) /\ \A i \in Ids : rows'[i] = IF i = proc[p].id THEN proc[p].doc ELSE rows[i]
  BY CommitTyped
<1>2. UNCHANGED <<index, chroma, given, last, budget>>
  BY DEF Commit, history
<1> QED
  BY <1>1, <1>2, StopsOld, NamesPassed

LEMMA NamesUploadFails ==
  ASSUME Typed, NEW p \in Procs, UploadFails(p)
  PROVE  NoNewName /\ UNCHANGED <<given, last>> /\ budget'.db = budget.db
<1>1. Becomes(p, Idle) /\ budget'.db = budget.db
  BY UploadFailsTyped
<1>2. UNCHANGED <<rows, chroma, given, last>> /\ index' \subseteq index
  BY AbandonedTyped DEF UploadFails
<1> QED
  BY <1>1, <1>2, StopsOld, NamesPassed

LEMMA NamesDelete ==
  ASSUME Typed, NEW p \in Procs, NEW i \in Ids, Delete(p, i)
  PROVE  NoNewName /\ UNCHANGED <<given, last>> /\ budget'.db = budget.db
<1>1. Becomes(p, Removal(i)) /\ budget'.db = budget.db
  BY DeleteTyped
<1>2. UNCHANGED <<rows, index, chroma, given, last>>
  BY DEF Delete, history
<1>3. \A q \in Procs : /\ \/ proc'[q].id = proc[q].id /\ proc'[q].doc = proc[q].doc
                          \/ rows[proc'[q].id] = proc'[q].doc
                       /\ proc'[q].read \subseteq proc[q].read
  BY <1>1 DEF Becomes, Removal
<1> QED
  BY <1>1, <1>2, <1>3, NamesPassed

LEMMA NamesDropRow ==
  ASSUME Typed, NEW p \in Procs, DropRow(p)
  PROVE  NoNewName /\ UNCHANGED <<given, last>> /\ budget'.db = budget.db
<1>1. Goes(p, "unlink") /\ \A i \in Ids : rows'[i] = IF i = proc[p].id THEN None ELSE rows[i]
  BY DropRowTyped
<1>2. UNCHANGED <<index, chroma, given, last, budget>>
  BY DEF DropRow, history
<1> QED
  BY <1>1, <1>2, GoesOld, NamesPassed

LEMMA NamesUnlink ==
  ASSUME Typed, NEW p \in Procs, Unlink(p)
  PROVE  NoNewName /\ UNCHANGED <<given, last>> /\ budget'.db = budget.db
<1>1. Becomes(p, Idle)
  BY UnlinkTyped
<1>2. UNCHANGED <<rows, index, chroma, given, last, budget>>
  BY DEF Unlink, history
<1> QED
  BY <1>1, <1>2, StopsOld, NamesPassed

LEMMA NamesDeleteFails ==
  ASSUME Typed, NEW p \in Procs, DeleteFails(p)
  PROVE  NoNewName /\ UNCHANGED <<given, last>> /\ budget'.db = budget.db
<1>1. Becomes(p, Idle) /\ budget'.db = budget.db
  BY DeleteFailsTyped
<1>2. UNCHANGED <<rows, chroma, given, last>> /\ index' \subseteq index
  BY AbandonedTyped DEF DeleteFails
<1> QED
  BY <1>1, <1>2, StopsOld, NamesPassed

LEMMA NamesKill ==
  ASSUME Typed, NEW p \in Procs, Kill(p)
  PROVE  NoNewName /\ UNCHANGED <<given, last>> /\ budget'.db = budget.db
<1>1. Becomes(p, Idle) /\ budget'.db = budget.db
  BY KillTyped
<1>2. UNCHANGED <<rows, index, chroma, given, last>>
  BY DEF Kill
<1> QED
  BY <1>1, <1>2, StopsOld, NamesPassed

(* The number given to a row is new, unless SQLite gives it again. *)
LEMMA NamesInsert ==
  ASSUME Typed, OneName, NEW p \in Procs, Insert(p)
  PROVE  OneName'
<1> DEFINE n == NextId
           c == proc[p].doc
<1>1. Becomes(p, Inserted(proc[p], n)) /\ n \in Ids
  BY InsertTyped
<1>2. \A i \in Ids : given'[i] = IF i = n THEN given[i] + 1 ELSE given[i]
  BY InsertTyped
<1>3. UNCHANGED <<rows, index, chroma, budget>> /\ last' = n
  BY DEF Insert
<1>4. ~Sqlite => n = last + 1
  BY NextIdTyped
<1>5. \A i \in Ids : given[i] \in Nat
  BY DEF Typed, TypeOK
<1>6. last \in Int
  BY DEF Typed, TypeOK
<1> HIDE DEF n, c
<1>7. ASSUME NEW i \in Ids, NEW d \in Docs, Named(i, d)'
      PROVE  Named(i, d) \/ (i = n /\ d = c)
  <2>1. \A q \in Procs : /\ proc'[q].read = proc[q].read
                         /\ \/ proc'[q].id = proc[q].id /\ proc'[q].doc = proc[q].doc
                            \/ proc'[q].id = n /\ proc'[q].doc = c
    BY <1>1 DEF Becomes, Inserted, c
  <2>2. CASE rows'[i] = d
    BY <2>2, <1>3 DEF Named
  <2>3. CASE \E e \in index' \cup chroma' : e[1] = i /\ e[3] = d
    BY <2>3, <1>3 DEF Named
  <2>4. CASE \E q \in Procs : proc'[q].id = i /\ proc'[q].doc = d
    BY <2>4, <2>1 DEF Named
  <2>5. CASE \E q \in Procs : \E e \in proc'[q].read : e[1] = i /\ e[3] = d
    BY <2>5, <2>1 DEF Named
  <2> QED
    BY <1>7, <2>2, <2>3, <2>4, <2>5 DEF Named
<1>8. \A i \in Ids, d \in Docs : Named(i, d)' => given'[i] > 0
  BY <1>2, <1>5, <1>7 DEF OneName
<1>9. ASSUME NEW i \in Ids, NEW d \in Docs, NEW e \in Docs, given'[i] = 1, Named(i, d)', Named(i, e)'
      PROVE  d = e
  <2>1. CASE i = n
    <3>1. given[n] = 0
      BY <1>1, <1>2, <1>5, <1>9, <2>1
    <3>2. ~Named(n, d) /\ ~Named(n, e)
      BY <3>1, <1>1 DEF OneName
    <3> QED
      BY <3>2, <2>1, <1>7, <1>9
  <2>2. CASE i # n
    BY <2>2, <1>2, <1>7, <1>9 DEF OneName
  <2> QED
    BY <2>1, <2>2
<1>10. ASSUME ~Sqlite' PROVE \A i \in Ids : given'[i] <= 1 /\ (given'[i] = 1 => i <= last')
  <2>1. ~Sqlite
    BY <1>3, <1>10 DEF Sqlite
  <2>2. \A i \in Ids : given[i] <= 1 /\ (given[i] = 1 => i <= last)
    BY <2>1 DEF OneName
  <2>3. n = last + 1
    BY <2>1, <1>4
  <2>4. \A i \in Ids : i \in Int
    BY DEF Ids
  <2>5. given[n] = 0
    BY <2>2, <2>3, <1>1, <1>5, <1>6
  <2> QED
    BY ONLY <2>2, <2>3, <2>4, <2>5, <1>2, <1>3, <1>5, <1>6
<1> QED
  BY <1>8, <1>9, <1>10 DEF OneName

-----------------------------------------------------------------------------
(* Files that no row and no request accounts for.  An upload, and a        *)
(* removal whose row is gone, still have to deal with their file; what a   *)
(* request that is broken off leaves is one file.                          *)
Holds(p) == proc[p].op = "upload" \/ proc[p].pc = "unlink"

Orphans == {d \in files : Absent(d) /\ \A p \in Procs : Holds(p) => proc[p].doc # d}

OrphansBroken == ~Reused => Cardinality(Orphans) <= broken

LEMMA OrphansFinite ==
  ASSUME Typed
  PROVE  IsFiniteSet(Orphans) /\ Cardinality(Orphans) \in Nat
<1>1. Orphans \subseteq Docs
  BY DEF Orphans, Typed, TypeOK
<1> QED
  BY <1>1, FS_Subset, FS_CardinalityType

LEMMA ReusedStays ==
  ASSUME Typed, budget'.db = budget.db, \A i \in Ids : given'[i] \in Nat /\ given[i] <= given'[i]
  PROVE  Reused => Reused'
<1>1. \A i \in Ids : given[i] \in Nat
  BY DEF Typed, TypeOK
<1> QED
  BY <1>1 DEF Reused, Sqlite

LEMMA OrphansFewer ==
  ASSUME Typed, OrphansBroken, broken' = broken, given' = given, budget'.db = budget.db,
         ~Reused => Orphans' \subseteq Orphans
  PROVE  OrphansBroken'
<1>1. Reused => Reused'
  BY DEF Reused, Sqlite
<1>2. CASE Reused
  BY <1>1, <1>2 DEF OrphansBroken
<1>3. CASE ~Reused
  <2>1. IsFiniteSet(Orphans) /\ Cardinality(Orphans) \in Nat /\ Orphans' \subseteq Orphans
    BY <1>3, OrphansFinite
  <2>2. Cardinality(Orphans') <= Cardinality(Orphans) /\ Cardinality(Orphans') \in Nat
    BY <2>1, FS_Subset, FS_CardinalityType
  <2>3. Cardinality(Orphans) <= broken /\ broken \in Nat
    BY <1>3 DEF OrphansBroken, Typed, TypeOK
  <2>4. Cardinality(Orphans') <= broken'
    BY <2>1, <2>2, <2>3
  <2> QED
    BY <2>4 DEF OrphansBroken
<1> QED
  BY <1>2, <1>3

LEMMA OrphansSame ==
  ASSUME UNCHANGED <<rows, files>>,
         \A q \in Procs : Holds(q) => Holds(q)' /\ proc'[q].doc = proc[q].doc
  PROVE  Orphans' \subseteq Orphans
BY DEF Orphans

(* Without reuse, a request's number is listed for its document only. *)
LEMMA OwnRow ==
  ASSUME Typed, OneName, ~Reused, NEW p \in Procs, proc[p].id \in Ids, proc[p].doc \in Docs
  PROVE  rows[proc[p].id] \in {None, proc[p].doc}
<1> DEFINE i == proc[p].id
           d == proc[p].doc
<1>1. rows[i] \in Docs \cup {None} /\ given[i] \in Nat
  BY DEF Typed, TypeOK
<1>2. Named(i, d) /\ Named(i, rows[i])
  BY DEF Named
<1>3. given[i] = 1
  BY <1>1, <1>2 DEF OneName, Reused
<1> QED
  BY <1>1, <1>2, <1>3 DEF OneName

LEMMA OrphansUpload ==
  ASSUME Typed, NEW p \in Procs, NEW d \in Docs, Upload(p, d)
  PROVE  Orphans' \subseteq Orphans
<1>1. Becomes(p, Fresh(d))
  BY UploadTyped
<1>2. rows' = rows /\ files' = files \cup {d} /\ proc[p].pc = "idle"
  BY DEF Upload, At
<1>3. proc[p].op = "none"
  BY <1>2 DEF Typed, Shaped
<1>4. Holds(p)' /\ proc'[p].doc = d /\ \A q \in Procs : q # p => proc'[q] = proc[q]
  BY <1>1 DEF Becomes, Fresh, Holds
<1>5. ~Holds(p)
  BY <1>2, <1>3 DEF Holds
<1>6. \A q \in Procs : Holds(q) => Holds(q)' /\ proc'[q].doc = proc[q].doc
  BY <1>4, <1>5 DEF Holds
<1> QED
  BY <1>2, <1>4, <1>6 DEF Orphans

LEMMA OrphansGo ==
  ASSUME NEW p \in Procs, NEW pc, Goes(p, pc), UNCHANGED <<rows, files>>, proc[p].pc # "unlink"
  PROVE  Orphans' \subseteq Orphans
<1>1. \A q \in Procs : Holds(q) => Holds(q)' /\ proc'[q].doc = proc[q].doc
  BY DEF Goes, Holds
<1> QED
  BY <1>1, OrphansSame

LEMMA OrphansInsertLoad ==
  ASSUME Typed, NEW p \in Procs, Insert(p) \/ Load(p)
  PROVE  Orphans' \subseteq Orphans
<1>1. rows' = rows /\ files' = files /\ proc[p].pc # "unlink"
  BY DEF Insert, Load, At
<1>2. Becomes(p, Inserted(proc[p], NextId)) \/ Becomes(p, Reading(proc[p]))
  BY InsertTyped, LoadTyped
<1>3. \A q \in Procs : Holds(q) => Holds(q)' /\ proc'[q].doc = proc[q].doc
  BY <1>1, <1>2 DEF Becomes, Inserted, Reading, Holds
<1> QED
  BY <1>1, <1>3, OrphansSame

LEMMA OrphansCommit ==
  ASSUME Typed, OneName, ~Reused, NEW p \in Procs, Commit(p)
  PROVE  Orphans' \subseteq Orphans
<1> DEFINE i == proc[p].id
           c == proc[p].doc
<1>1. Becomes(p, Idle) /\ i \in Ids /\ c \in Docs /\ \A j \in Ids : rows'[j] = IF j = i THEN c ELSE rows[j]
  BY CommitTyped
<1>2. files' = files
  BY DEF Commit
<1>3. rows[i] \in {None, c}
  BY <1>1, OwnRow
<1>4. \A q \in Procs : q # p => proc'[q] = proc[q]
  BY <1>1 DEF Becomes
<1> HIDE DEF i
<1> SUFFICES ASSUME NEW d \in Orphans'
             PROVE  d \in Orphans
  OBVIOUS
<1>5. d \in files' /\ (\A j \in Ids : rows'[j] # d) /\ \A q \in Procs : Holds(q)' => proc'[q].doc # d
  BY DEF Orphans
<1>6. d # c /\ d # None
  BY <1>1, <1>2, <1>5 DEF Typed, TypeOK
<1>7. Absent(d)
  BY <1>1, <1>3, <1>5, <1>6
<1>8. \A q \in Procs : Holds(q) => proc[q].doc # d
  BY <1>4, <1>5, <1>6 DEF Holds
<1> QED
  BY <1>2, <1>5, <1>7, <1>8 DEF Orphans

(* The file of a request that ends goes with it. *)
LEMMA OrphansCleaned ==
  ASSUME NEW p \in Procs, Becomes(p, Idle), rows' = rows, files' = files \ {proc[p].doc}
  PROVE  Orphans' \subseteq Orphans
<1>1. \A q \in Procs : q # p => proc'[q] = proc[q]
  BY DEF Becomes
<1>2. \A q \in Procs : q # p /\ Holds(q) => Holds(q)' /\ proc'[q].doc = proc[q].doc
  BY <1>1 DEF Holds
<1> QED
  BY <1>2 DEF Orphans

LEMMA OrphansDelete ==
  ASSUME Typed, NEW p \in Procs, NEW i \in Ids, Delete(p, i)
  PROVE  Orphans' \subseteq Orphans
<1>1. Becomes(p, Removal(i))
  BY DeleteTyped
<1>2. rows' = rows /\ files' = files /\ proc[p].pc = "idle"
  BY DEF Delete, At
<1>3. ~Holds(p)
  BY <1>2 DEF Typed, Shaped, Holds
<1>4. \A q \in Procs : Holds(q) => Holds(q)' /\ proc'[q].doc = proc[q].doc
  BY <1>1, <1>3 DEF Becomes, Holds
<1> QED
  BY <1>2, <1>4, OrphansSame

LEMMA OrphansDropRow ==
  ASSUME Typed, OneName, ~Reused, NEW p \in Procs, DropRow(p)
  PROVE  Orphans' \subseteq Orphans
<1> DEFINE i == proc[p].id
           c == proc[p].doc
<1>1. Goes(p, "unlink") /\ proc[p].op = "delete" /\ i \in Ids
  BY DropRowTyped
<1>2. \A j \in Ids : rows'[j] = IF j = i THEN None ELSE rows[j]
  BY DropRowTyped
<1>3. files' = files /\ c \in Docs
  BY <1>1 DEF DropRow, Typed, Shaped
<1>4. rows[i] \in {None, c}
  BY <1>1, <1>3, OwnRow
<1>5. Holds(p)' /\ \A q \in Procs : (Holds(q) => Holds(q)') /\ proc'[q].doc = proc[q].doc
  BY <1>1 DEF Goes, Holds
<1> HIDE DEF i
<1> SUFFICES ASSUME NEW d \in Orphans'
             PROVE  d \in Orphans
  OBVIOUS
<1>6. d \in files' /\ (\A j \in Ids : rows'[j] # d) /\ \A q \in Procs : Holds(q)' => proc'[q].doc # d
  BY DEF Orphans
<1>7. d # c /\ d # None
  BY <1>3, <1>5, <1>6 DEF Typed, TypeOK
<1>8. Absent(d)
  BY <1>2, <1>4, <1>6, <1>7
<1>9. \A q \in Procs : Holds(q) => proc[q].doc # d
  BY <1>5, <1>6
<1> QED
  BY <1>3, <1>6, <1>8, <1>9 DEF Orphans

LEMMA OrphansDeleteFails ==
  ASSUME Typed, NEW p \in Procs, DeleteFails(p), ~At(p, "unlink")
  PROVE  Orphans' \subseteq Orphans
<1>1. Becomes(p, Idle)
  BY DeleteFailsTyped
<1>2. rows' = rows /\ files' = files /\ ~Holds(p)
  BY DEF DeleteFails, Holds, At
<1>3. \A q \in Procs : Holds(q) => Holds(q)' /\ proc'[q].doc = proc[q].doc
  BY <1>1, <1>2 DEF Becomes, Holds
<1> QED
  BY <1>2, <1>3, OrphansSame

(* A request that is broken off leaves one file more at most. *)
LEMMA OrphansOneMore ==
  ASSUME Typed, OrphansBroken, NEW p \in Procs, Becomes(p, Idle), budget'.db = budget.db,
         UNCHANGED <<rows, files, given>>, broken' = broken + 1
  PROVE  OrphansBroken'
<1> DEFINE c == proc[p].doc
<1>1. Becomes(p, Idle) /\ budget'.db = budget.db
  OBVIOUS
<1>2. rows' = rows /\ files' = files /\ given' = given /\ broken' = broken + 1
  OBVIOUS
<1>3. Reused => Reused'
  BY <1>1, <1>2 DEF Reused, Sqlite
<1>4. \A q \in Procs : q # p /\ Holds(q) => Holds(q)' /\ proc'[q].doc = proc[q].doc
  BY <1>1 DEF Becomes, Holds
<1>5. Orphans' \subseteq Orphans \cup {c}
  BY <1>2, <1>4 DEF Orphans
<1>6. CASE Reused
  BY <1>3, <1>6 DEF OrphansBroken
<1>7. CASE ~Reused
  <2>1. IsFiniteSet(Orphans) /\ Cardinality(Orphans) \in Nat
    BY OrphansFinite
  <2>2. IsFiniteSet(Orphans \cup {c}) /\ Cardinality(Orphans \cup {c}) <= Cardinality(Orphans) + 1
    <3>1. /\ IsFiniteSet(Orphans \cup {c})
          /\ Cardinality(Orphans \cup {c}) = IF c \in Orphans THEN Cardinality(Orphans) ELSE Cardinality(Orphans) + 1
      BY ONLY <2>1, FS_AddElement
    <3> QED
      BY ONLY <2>1, <3>1
  <2>3. Cardinality(Orphans') <= Cardinality(Orphans \cup {c}) /\ Cardinality(Orphans \cup {c}) \in Nat
        /\ Cardinality(Orphans') \in Nat
    BY <1>5, <2>2, FS_Subset, FS_CardinalityType
  <2>4. Cardinality(Orphans) <= broken /\ broken \in Nat
    BY <1>7 DEF OrphansBroken, Typed, TypeOK
  <2>5. Cardinality(Orphans') <= broken'
    BY ONLY <2>1, <2>2, <2>3, <2>4, <1>2
  <2> QED
    BY <2>5 DEF OrphansBroken
<1> QED
  BY <1>6, <1>7

-----------------------------------------------------------------------------
(* What vectors.json holds.  The chunks of a document are written with     *)
(* their row or before it; every rewrite that nobody overlapped starts     *)
(* from all that is in the file, and leaves out what is being removed.     *)
Written(i, d) ==
    \/ rows[i] = d
    \/ \E p \in Procs : proc[p].op = "upload" /\ proc[p].id = i /\ proc[p].doc = d /\ proc[p].pc \in {"ingest", "commit"}

Sound(i, d) ==
    /\ Written(i, d) /\ d \notin raced /\ given[i] = 1
    /\ \A p \in Procs : proc[p].op = "delete" /\ proc[p].id = i => proc[p].pc = "load"

OverlapsRaced ==
    \A p, q \in Procs : Rewriting(p) /\ Rewriting(q) /\ p # q => proc[p].doc \in raced /\ proc[q].doc \in raced

DroppedGone == \A p \in Procs : proc[p].pc = "unlink" /\ given[proc[p].id] = 1 => rows[proc[p].id] = None

SoundStored ==
    \A i \in Ids, d \in Docs : Sound(i, d) =>
        /\ ~torn => Entries(i, d) \subseteq index
        /\ \A p \in Procs : Rewriting(p) => Entries(i, d) \subseteq proc[p].read

IndexComplete == OverlapsRaced /\ DroppedGone /\ SoundStored

USE DEF At, Rewriting

LEMMA WrittenNamed ==
  ASSUME NEW i \in Ids, NEW d \in Docs, Written(i, d)
  PROVE  Named(i, d)
BY DEF Written, Named

NoNewSound == \A i \in Ids, d \in Docs : Sound(i, d)' => Sound(i, d)

(* A step that leaves the file alone, or torn, and begins no rewrite of it. *)
LEMMA IndexKept ==
  ASSUME IndexComplete, UNCHANGED <<rows, given>>, torn' \/ UNCHANGED <<index, torn>>, raced \subseteq raced', NoNewSound,
         \A q \in Procs : Rewriting(q)' => Rewriting(q) /\ proc'[q].doc = proc[q].doc /\ proc'[q].read = proc[q].read,
         \A q \in Procs : proc'[q].pc = "unlink" => proc[q].pc = "unlink" /\ proc'[q].id = proc[q].id
  PROVE  IndexComplete'
<1>1. OverlapsRaced'
  BY DEF IndexComplete, OverlapsRaced
<1>2. DroppedGone'
  BY DEF IndexComplete, DroppedGone
<1>3. SoundStored'
  <2> SUFFICES ASSUME NEW i \in Ids, NEW d \in Docs, Sound(i, d)'
               PROVE  /\ ~torn' => Entries(i, d) \subseteq index'
                      /\ \A q \in Procs : Rewriting(q)' => Entries(i, d) \subseteq proc'[q].read
    BY DEF SoundStored, Entries, Texts
  <2>1. Sound(i, d)
    BY DEF NoNewSound
  <2> QED
    BY <2>1 DEF IndexComplete, SoundStored
<1> QED
  BY <1>1, <1>2, <1>3 DEF IndexComplete

LEMMA SoundGoes ==
  ASSUME NEW p \in Procs, NEW pc, Goes(p, pc), pc # "load", UNCHANGED <<rows, given, raced>>,
         pc \in {"ingest", "commit"} => proc[p].pc \in {"ingest", "commit"}
  PROVE  NoNewSound
<1> SUFFICES ASSUME NEW i \in Ids, NEW d \in Docs, Sound(i, d)'
             PROVE  Sound(i, d)
  BY DEF NoNewSound
<1>1. Written(i, d)' /\ d \notin raced /\ given[i] = 1
      /\ \A q \in Procs : proc'[q].op = "delete" /\ proc'[q].id = i => proc'[q].pc = "load"
  BY DEF Sound
<1>2. Written(i, d)
  BY <1>1 DEF Written, Goes
<1>3. \A q \in Procs : proc[q].op = "delete" /\ proc[q].id = i => proc[q].pc = "load"
  BY <1>1 DEF Goes
<1> QED
  BY <1>1, <1>2, <1>3 DEF Sound

LEMMA SoundStops ==
  ASSUME Typed, OneName, NEW p \in Procs, Becomes(p, Idle), UNCHANGED <<rows, given>>, raced \subseteq raced',
         proc[p].op = "delete" /\ proc[p].pc # "load" =>
            \/ proc[p].doc \in raced'
            \/ given[proc[p].id] = 1 => \A d \in Docs : ~Written(proc[p].id, d)
  PROVE  NoNewSound
<1> SUFFICES ASSUME NEW i \in Ids, NEW d \in Docs, Sound(i, d)'
             PROVE  Sound(i, d)
  BY DEF NoNewSound
<1>1. Written(i, d)' /\ d \notin raced' /\ given[i] = 1
      /\ \A q \in Procs : proc'[q].op = "delete" /\ proc'[q].id = i => proc'[q].pc = "load"
  BY DEF Sound
<1>2. \A q \in Procs : q # p => proc'[q] = proc[q]
  BY DEF Becomes
<1>3. proc'[p].op = "none"
  BY DEF Becomes, Idle
<1>4. Written(i, d)
  BY <1>1, <1>2, <1>3 DEF Written
<1>5. ASSUME proc[p].op = "delete", proc[p].id = i, proc[p].pc # "load"
      PROVE  FALSE
  <2>1. proc[p].doc \in Docs
    BY <1>5 DEF Typed, Shaped
  <2>2. Named(i, d) /\ Named(i, proc[p].doc)
    BY <1>4, <1>5, WrittenNamed DEF Named
  <2>3. d = proc[p].doc
    BY <1>1, <2>1, <2>2 DEF OneName
  <2> QED
    BY <1>1, <1>4, <1>5, <2>3
<1>6. \A q \in Procs : proc[q].op = "delete" /\ proc[q].id = i => proc[q].pc = "load"
  BY <1>1, <1>2, <1>5
<1> QED
  BY <1>1, <1>4, <1>6 DEF Sound

LEMMA StopsRewriting ==
  ASSUME NEW p \in Procs, Becomes(p, Idle)
  PROVE  /\ \A q \in Procs : Rewriting(q)' => Rewriting(q) /\ proc'[q].doc = proc[q].doc /\ proc'[q].read = proc[q].read
         /\ \A q \in Procs : proc'[q].pc = "unlink" => proc[q].pc = "unlink" /\ proc'[q].id = proc[q].id
BY DEF Becomes, Idle

LEMMA IndexStops ==
  ASSUME Typed, OneName, IndexComplete, NEW p \in Procs, Becomes(p, Idle), UNCHANGED <<rows, given>>,
         torn' \/ UNCHANGED <<index, torn>>, raced \subseteq raced',
         proc[p].op = "delete" /\ proc[p].pc # "load" =>
            \/ proc[p].doc \in raced'
            \/ given[proc[p].id] = 1 => \A d \in Docs : ~Written(proc[p].id, d)
  PROVE  IndexComplete'
<1>1. NoNewSound
  BY SoundStops
<1> QED
  BY <1>1, StopsRewriting, IndexKept

LEMMA IndexGoes ==
  ASSUME IndexComplete, NEW p \in Procs, NEW pc, Goes(p, pc), pc \in {"insert", "commit"},
         pc = "commit" => proc[p].pc = "ingest", UNCHANGED <<rows, index, torn, given, raced>>
  PROVE  IndexComplete'
<1>1. NoNewSound
  BY SoundGoes
<1>2. /\ \A q \in Procs : Rewriting(q)' => Rewriting(q) /\ proc'[q].doc = proc[q].doc /\ proc'[q].read = proc[q].read
      /\ \A q \in Procs : proc'[q].pc = "unlink" => proc[q].pc = "unlink" /\ proc'[q].id = proc[q].id
  BY DEF Goes
<1> QED
  BY <1>1, <1>2, IndexKept

LEMMA IndexUpload ==
  ASSUME Typed, IndexComplete, NEW p \in Procs, NEW d \in Docs, Upload(p, d)
  PROVE  IndexComplete'
<1>1. Becomes(p, Fresh(d))
  BY UploadTyped
<1>2. UNCHANGED <<rows, index, torn, given, raced>> /\ proc[p].op # "delete"
  BY DEF Upload, history, Typed, Shaped, Idle
<1>3. \A q \in Procs : q # p => proc'[q] = proc[q]
  BY <1>1 DEF Becomes
<1>4. proc'[p].pc = "parse" /\ proc'[p].op = "upload"
  BY <1>1 DEF Becomes, Fresh
<1>5. NoNewSound
  BY <1>2, <1>3, <1>4 DEF NoNewSound, Sound, Written
<1> QED
  BY <1>2, <1>3, <1>4, <1>5, IndexKept

LEMMA IndexDelete ==
  ASSUME Typed, IndexComplete, NEW p \in Procs, NEW i \in Ids, Delete(p, i)
  PROVE  IndexComplete'
<1>1. Becomes(p, Removal(i))
  BY DeleteTyped
<1>2. UNCHANGED <<rows, index, torn, given, raced>> /\ proc[p].op # "delete"
  BY DEF Delete, history, Typed, Shaped, Idle
<1>3. \A q \in Procs : q # p => proc'[q] = proc[q]
  BY <1>1 DEF Becomes
<1>4. proc'[p].pc = "load" /\ proc'[p].op = "delete"
  BY <1>1 DEF Becomes, Removal
<1>5. NoNewSound
  BY <1>2, <1>3, <1>4 DEF NoNewSound, Sound, Written
<1> QED
  BY <1>2, <1>3, <1>4, <1>5, IndexKept

LEMMA IndexInsert ==
  ASSUME Typed, OneName, IndexComplete, NEW p \in Procs, Insert(p)
  PROVE  IndexComplete'
<1> DEFINE n == NextId
<1>1. Becomes(p, Inserted(proc[p], n)) /\ n \in Ids /\ \A i \in Ids : given'[i] = IF i = n THEN given[i] + 1 ELSE given[i]
  BY InsertTyped
<1>2. UNCHANGED <<rows, index, torn, raced>> /\ proc[p].op = "upload" /\ proc[p].pc = "insert"
  BY InsertTyped DEF Insert
<1>3. \A q \in Procs : q # p => proc'[q] = proc[q]
  BY <1>1 DEF Becomes
<1>4. proc'[p].pc = "load" /\ proc'[p].op = "upload"
  BY <1>1 DEF Becomes, Inserted
<1>5. \A i \in Ids : given[i] \in Nat
  BY DEF Typed, TypeOK
<1> HIDE DEF n
(* Whatever is named has been given, so the new number counts it twice. *)
<1>6. ASSUME NEW i \in Ids, NEW d \in Docs, Named(i, d), given'[i] = 1
      PROVE  given[i] = 1 /\ i # n
  <2>1. given[i] > 0
    BY <1>6 DEF OneName
  <2> QED
    BY <2>1, <1>1, <1>5, <1>6
<1>7. NoNewSound
  <2> SUFFICES ASSUME NEW i \in Ids, NEW d \in Docs, Sound(i, d)'
               PROVE  Sound(i, d)
    BY DEF NoNewSound
  <2>1. Written(i, d)' /\ d \notin raced /\ given'[i] = 1
        /\ \A q \in Procs : proc'[q].op = "delete" /\ proc'[q].id = i => proc'[q].pc = "load"
    BY <1>2 DEF Sound
  <2>2. Written(i, d)
    BY <2>1, <1>2, <1>3, <1>4 DEF Written
  <2>3. given[i] = 1
    BY <2>1, <2>2, <1>6, WrittenNamed
  <2>4. \A q \in Procs : proc[q].op = "delete" /\ proc[q].id = i => proc[q].pc = "load"
    BY <2>1, <1>2, <1>3
  <2> QED
    BY <2>1, <2>2, <2>3, <2>4 DEF Sound
<1>8. OverlapsRaced'
  BY <1>2, <1>3, <1>4 DEF IndexComplete, OverlapsRaced
<1>9. DroppedGone'
  <2> SUFFICES ASSUME NEW q \in Procs, proc'[q].pc = "unlink", given'[proc'[q].id] = 1
               PROVE  rows'[proc'[q].id] = None
    BY DEF DroppedGone
  <2>1. proc'[q] = proc[q] /\ proc[q].pc = "unlink"
    BY <1>3, <1>4
  <2>2. proc[q].id \in Ids /\ proc[q].doc \in Docs
    BY <2>1 DEF Typed, Shaped, Numbered, Idle
  <2>3. Named(proc[q].id, proc[q].doc)
    BY DEF Named
  <2>4. given[proc[q].id] = 1
    BY <2>1, <2>2, <2>3, <1>6
  <2> QED
    BY <2>1, <2>4, <1>2 DEF IndexComplete, DroppedGone
<1>10. SoundStored'
  <2> SUFFICES ASSUME NEW i \in Ids, NEW d \in Docs, Sound(i, d)'
               PROVE  /\ ~torn' => Entries(i, d) \subseteq index'
                      /\ \A q \in Procs : Rewriting(q)' => Entries(i, d) \subseteq proc'[q].read
    BY DEF SoundStored, Entries, Texts
  <2>1. Sound(i, d)
    BY <1>7 DEF NoNewSound
  <2> QED
    BY <2>1, <1>2, <1>3, <1>4 DEF IndexComplete, SoundStored
<1> QED
  BY <1>8, <1>9, <1>10 DEF IndexComplete

LEMMA IndexLoad ==
  ASSUME Typed, IndexComplete, NEW p \in Procs, Load(p)
  PROVE  IndexComplete'
<1> DEFINE others == {q \in Procs \ {p} : Rewriting(q)}
<1>1. Becomes(p, Reading(proc[p]))
  BY LoadTyped
<1>2. UNCHANGED <<rows, index, torn, given>> /\ ~torn /\ proc[p].pc = "load"
  BY DEF Load
<1>3. raced' = IF others = {} THEN raced ELSE raced \cup {proc[q].doc : q \in others \cup {p}}
  BY DEF Load
<1>4. \A q \in Procs : q # p => proc'[q] = proc[q]
  BY <1>1 DEF Becomes
<1>5. /\ proc'[p].pc = "save" /\ proc'[p].op = proc[p].op /\ proc'[p].doc = proc[p].doc
      /\ proc'[p].id = proc[p].id /\ proc'[p].read = index
  BY <1>1 DEF Becomes, Reading
<1>6. raced \subseteq raced'
  BY <1>3
<1>7. \A q \in Procs : q # p /\ Rewriting(q) => proc[p].doc \in raced' /\ proc[q].doc \in raced'
  <2> SUFFICES ASSUME NEW q \in Procs, q # p, Rewriting(q)
               PROVE  proc[p].doc \in raced' /\ proc[q].doc \in raced'
    OBVIOUS
  <2>1. q \in others
    OBVIOUS
  <2>2. raced' = raced \cup {proc[r].doc : r \in others \cup {p}}
    BY <2>1, <1>3
  <2> HIDE DEF others
  <2> QED
    BY ONLY <2>1, <2>2
<1>8. OverlapsRaced'
  BY <1>4, <1>5, <1>6, <1>7 DEF IndexComplete, OverlapsRaced
<1>9. DroppedGone'
  BY <1>2, <1>4, <1>5 DEF IndexComplete, DroppedGone
<1>10. NoNewSound
  <2> SUFFICES ASSUME NEW i \in Ids, NEW d \in Docs, Sound(i, d)'
               PROVE  Sound(i, d)
    BY DEF NoNewSound
  <2>1. Written(i, d)' /\ d \notin raced' /\ given[i] = 1
        /\ \A q \in Procs : proc'[q].op = "delete" /\ proc'[q].id = i => proc'[q].pc = "load"
    BY <1>2 DEF Sound
  <2>2. Written(i, d)
    BY <2>1, <1>2, <1>4, <1>5 DEF Written
  <2>3. \A q \in Procs : proc[q].op = "delete" /\ proc[q].id = i => proc[q].pc = "load"
    BY <2>1, <1>4, <1>5
  <2> QED
    BY <2>1, <2>2, <2>3, <1>6 DEF Sound
<1>11. SoundStored'
  <2> SUFFICES ASSUME NEW i \in Ids, NEW d \in Docs, Sound(i, d)'
               PROVE  /\ ~torn' => Entries(i, d) \subseteq index'
                      /\ \A q \in Procs : Rewriting(q)' => Entries(i, d) \subseteq proc'[q].read
    BY DEF SoundStored, Entries, Texts
  <2>1. Sound(i, d)
    BY <1>10 DEF NoNewSound
  <2>2. Entries(i, d) \subseteq index /\ \A q \in Procs : Rewriting(q) => Entries(i, d) \subseteq proc[q].read
    BY <2>1, <1>2 DEF IndexComplete, SoundStored
  <2> QED
    BY <2>2, <1>2, <1>4, <1>5
<1> QED
  BY <1>8, <1>9, <1>11 DEF IndexComplete

LEMMA IndexEmpty ==
  ASSUME Typed, IndexComplete, NEW p \in Procs, Empty(p)
  PROVE  IndexComplete'
<1>1. Goes(p, "torn")
  BY EmptyTyped
<1>2. UNCHANGED <<rows, given, raced>> /\ torn' = TRUE /\ proc[p].pc = "save"
  BY DEF Empty, history
<1>3. \A q \in Procs : /\ Rewriting(q)' => Rewriting(q)
                       /\ proc'[q].doc = proc[q].doc /\ proc'[q].read = proc[q].read /\ proc'[q].id = proc[q].id
                       /\ proc'[q].pc = "unlink" => proc[q].pc = "unlink"
  BY <1>1, <1>2 DEF Goes
<1>4. NoNewSound
  BY <1>1, <1>2, SoundGoes
<1>5. OverlapsRaced'
  BY <1>2, <1>3 DEF IndexComplete, OverlapsRaced
<1>6. DroppedGone'
  BY <1>2, <1>3 DEF IndexComplete, DroppedGone
<1>7. SoundStored'
  <2> SUFFICES ASSUME NEW i \in Ids, NEW d \in Docs, Sound(i, d)'
               PROVE  \A q \in Procs : Rewriting(q)' => Entries(i, d) \subseteq proc'[q].read
    BY <1>2 DEF SoundStored, Entries, Texts
  <2>1. Sound(i, d)
    BY <1>4 DEF NoNewSound
  <2> QED
    BY <2>1, <1>3 DEF IndexComplete, SoundStored
<1> QED
  BY <1>5, <1>6, <1>7 DEF IndexComplete

(* A chunk in the store under a number whose document is known is one of   *)
(* that document, so what is new to a text that is read is all it lacks.   *)
LEMMA UnlistedAdds ==
  ASSUME NEW i \in Ids, NEW d \in Docs, NEW there \in SUBSET Chunks, \A e \in there : e[1] = i => e[3] = d
  PROVE  Entries(i, d) \subseteq there \cup Unlisted(Entries(i, d), there)
<1> SUFFICES ASSUME NEW e \in Entries(i, d), e \notin Unlisted(Entries(i, d), there)
             PROVE  e \in there
  OBVIOUS
<1>1. PICK n \in DOMAIN Texts[d] : e = <<i, n, d>>
  BY DEF Entries
<1>2. PICK x \in there : x[1] = e[1] /\ x[2] = e[2]
  BY DEF Unlisted
<1>3. x[3] = d
  BY <1>1, <1>2
<1>4. PICK j \in Ids, c \in Docs : x \in Entries(j, c)
  BY DEF Chunks
<1>5. x = <<x[1], x[2], x[3]>>
  BY <1>4 DEF Entries
<1>6. x = e
  BY <1>1, <1>2, <1>3, <1>5
<1> QED
  BY <1>6

LEMMA IndexWrite ==
  ASSUME Typed, OneName, IndexComplete, NEW p \in Procs, Write(p)
  PROVE  IndexComplete'
<1> DEFINE c == proc[p].doc
           n == proc[p].id
<1>1. /\ proc[p].op \in {"upload", "delete"}
      /\ proc[p].op = "upload" => Goes(p, "ingest")
      /\ proc[p].op = "delete" => Goes(p, "remove")
  BY WriteTyped
<1>2. UNCHANGED <<rows, given, raced>> /\ proc[p].pc = "torn"
  BY DEF Write, history
<1>3. n \in Ids /\ c \in Docs /\ proc[p].read \in SUBSET Chunks
  BY <1>1, <1>2 DEF Typed, TypeOK, Shaped, Numbered, Requests
<1>4. \A q \in Procs : /\ Rewriting(q)' => Rewriting(q) /\ q # p
                       /\ proc'[q].op = proc[q].op /\ proc'[q].doc = proc[q].doc
                       /\ proc'[q].read = proc[q].read /\ proc'[q].id = proc[q].id
                       /\ proc'[q].pc = "unlink" => proc[q].pc = "unlink"
                       /\ q # p => proc'[q].pc = proc[q].pc
  BY <1>1 DEF Goes
<1>5. OverlapsRaced'
  BY <1>2, <1>4 DEF IndexComplete, OverlapsRaced
<1>6. DroppedGone'
  BY <1>2, <1>4 DEF IndexComplete, DroppedGone
<1>7. ~torn' => index' = IF proc[p].op = "upload" THEN proc[p].read \cup Unlisted(Entries(n, c), proc[p].read)
                         ELSE Kept(proc[p].read, n)
  BY DEF Write
<1>8. ASSUME NEW i \in Ids, NEW d \in Docs, Sound(i, d)'
      PROVE  \/ Sound(i, d) /\ (proc[p].op = "delete" => i # n)
             \/ proc[p].op = "upload" /\ i = n /\ d = c
  <2>1. Written(i, d)' /\ d \notin raced /\ given[i] = 1
        /\ \A q \in Procs : proc'[q].op = "delete" /\ proc'[q].id = i => proc'[q].pc = "load"
    BY <1>2, <1>8 DEF Sound
  <2>2. proc[p].op = "delete" => i # n /\ proc'[p].pc = "remove"
    BY <2>1, <1>1, <1>4 DEF Goes
  <2>3. Written(i, d) \/ (proc[p].op = "upload" /\ i = n /\ d = c)
    BY <2>1, <2>2, <1>1, <1>2, <1>4 DEF Written
  <2>4. \A q \in Procs : proc[q].op = "delete" /\ proc[q].id = i => proc[q].pc = "load"
    BY <2>1, <2>2, <1>1, <1>4
  <2> QED
    BY <2>1, <2>2, <2>3, <2>4 DEF Sound
<1>9. SoundStored'
  <2> SUFFICES ASSUME NEW i \in Ids, NEW d \in Docs, Sound(i, d)'
               PROVE  /\ ~torn' => Entries(i, d) \subseteq index'
                      /\ \A q \in Procs : Rewriting(q)' => Entries(i, d) \subseteq proc'[q].read
    BY DEF SoundStored, Entries, Texts
  <2>1. CASE Sound(i, d) /\ (proc[p].op = "delete" => i # n)
    <3>1. \A q \in Procs : Rewriting(q) => Entries(i, d) \subseteq proc[q].read
      BY <2>1 DEF IndexComplete, SoundStored
    <3>2. Entries(i, d) \subseteq proc[p].read
      BY <3>1, <1>2
    <3>3. \A e \in Entries(i, d) : e[1] = i
      BY EntryIs
    <3>4. ~torn' => Entries(i, d) \subseteq index'
      BY <3>2, <3>3, <2>1, <1>1, <1>7 DEF Kept
    <3> QED
      BY <3>1, <3>4, <1>4
  <2>2. CASE proc[p].op = "upload" /\ i = n /\ d = c
    <3>1. c \notin raced /\ given[n] = 1
      BY <2>2, <1>2 DEF Sound
    <3>2. ASSUME NEW e \in proc[p].read, e[1] = n PROVE e[3] = c
      <4>1. PICK j \in Ids, b \in Docs : e \in Entries(j, b)
        BY <1>3 DEF Chunks
      <4>2. e[3] \in Docs
        BY <4>1, EntryIs
      <4>3. Named(n, e[3]) /\ Named(n, c)
        BY <3>2 DEF Named
      <4> QED
        BY <4>2, <4>3, <3>1, <1>3 DEF OneName
    <3>3. Entries(n, c) \subseteq proc[p].read \cup Unlisted(Entries(n, c), proc[p].read)
      BY <3>2, <1>3, UnlistedAdds
    <3>4. ~torn' => Entries(i, d) \subseteq index'
      BY <3>3, <2>2, <1>7
    <3>5. \A q \in Procs : ~Rewriting(q)'
      BY <3>1, <1>2, <1>4 DEF IndexComplete, OverlapsRaced
    <3> QED
      BY <3>4, <3>5
  <2> QED
    BY <2>1, <2>2, <1>8
<1> QED
  BY <1>5, <1>6, <1>9 DEF IndexComplete

LEMMA IndexCommit ==
  ASSUME Typed, OneName, DocsHeld, IndexComplete, NEW p \in Procs, Commit(p)
  PROVE  IndexComplete'
<1> DEFINE c == proc[p].doc
           n == proc[p].id
<1>1. /\ Becomes(p, Idle) /\ proc[p].op = "upload" /\ n \in Ids /\ c \in Docs
      /\ \A i \in Ids : rows'[i] = IF i = n THEN c ELSE rows[i]
  BY CommitTyped
<1>2. UNCHANGED <<index, torn, given, raced>> /\ proc[p].pc = "commit"
  BY DEF Commit, history
<1>3. \A q \in Procs : q # p => proc'[q] = proc[q]
  BY <1>1 DEF Becomes
<1>4. proc'[p].op = "none" /\ proc'[p].pc = "idle"
  BY <1>1 DEF Becomes, Idle
<1>5. NoNewSound
  <2> SUFFICES ASSUME NEW i \in Ids, NEW d \in Docs, Sound(i, d)'
               PROVE  Sound(i, d)
    BY DEF NoNewSound
  <2>1. Written(i, d)' /\ d \notin raced /\ given[i] = 1
        /\ \A q \in Procs : proc'[q].op = "delete" /\ proc'[q].id = i => proc'[q].pc = "load"
    BY <1>2 DEF Sound
  <2>2. rows'[i] = d => Written(i, d)
    BY <1>1, <1>2 DEF Written
  <2>3. Written(i, d)
    BY <2>1, <2>2, <1>3, <1>4 DEF Written
  <2>4. \A q \in Procs : proc[q].op = "delete" /\ proc[q].id = i => proc[q].pc = "load"
    BY <2>1, <1>1, <1>3
  <2> QED
    BY <2>1, <2>3, <2>4 DEF Sound
<1>6. OverlapsRaced'
  BY <1>2, <1>3, <1>4 DEF IndexComplete, OverlapsRaced
<1>7. DroppedGone'
  <2> SUFFICES ASSUME NEW q \in Procs, proc'[q].pc = "unlink", given'[proc'[q].id] = 1
               PROVE  rows'[proc'[q].id] = None
    BY DEF DroppedGone
  <2>1. q # p /\ proc'[q] = proc[q] /\ proc[q].pc = "unlink" /\ given[proc[q].id] = 1
    BY <1>2, <1>3, <1>4
  <2>2. proc[q].id \in Ids /\ proc[q].doc \in Docs
    BY <2>1 DEF Typed, Shaped, Numbered, Idle
  <2>3. rows[proc[q].id] = None
    BY <2>1 DEF IndexComplete, DroppedGone
  <2>4. CASE proc[q].id = n
    <3>1. Named(n, proc[q].doc) /\ Named(n, c)
      BY <2>4 DEF Named
    <3>2. proc[q].doc = c
      BY <3>1, <2>1, <2>2, <2>4, <1>1 DEF OneName
    <3> QED
      BY <3>2, <2>1, <1>1 DEF DocsHeld
  <2> QED
    BY <2>1, <2>2, <2>3, <2>4, <1>1
<1>8. SoundStored'
  <2> SUFFICES ASSUME NEW i \in Ids, NEW d \in Docs, Sound(i, d)'
               PROVE  /\ ~torn' => Entries(i, d) \subseteq index'
                      /\ \A q \in Procs : Rewriting(q)' => Entries(i, d) \subseteq proc'[q].read
    BY DEF SoundStored, Entries, Texts
  <2>1. Sound(i, d)
    BY <1>5 DEF NoNewSound
  <2> QED
    BY <2>1, <1>2, <1>3, <1>4 DEF IndexComplete, SoundStored
<1> QED
  BY <1>6, <1>7, <1>8 DEF IndexComplete

LEMMA IndexDropRow ==
  ASSUME Typed, IndexComplete, NEW p \in Procs, DropRow(p)
  PROVE  IndexComplete'
<1> DEFINE n == proc[p].id
<1>1. /\ Goes(p, "unlink") /\ proc[p].op = "delete" /\ n \in Ids
      /\ \A i \in Ids : rows'[i] = IF i = n THEN None ELSE rows[i]
  BY DropRowTyped
<1>2. UNCHANGED <<index, torn, given, raced>> /\ proc[p].pc = "remove"
  BY DEF DropRow, history
<1>3. \A q \in Procs : /\ proc'[q].op = proc[q].op /\ proc'[q].doc = proc[q].doc
                       /\ proc'[q].read = proc[q].read /\ proc'[q].id = proc[q].id
                       /\ proc'[q].pc = IF q = p THEN "unlink" ELSE proc[q].pc
  BY <1>1 DEF Goes
<1>4. NoNewSound
  <2> SUFFICES ASSUME NEW i \in Ids, NEW d \in Docs, Sound(i, d)'
               PROVE  Sound(i, d)
    BY DEF NoNewSound
  <2>1. Written(i, d)' /\ d \notin raced /\ given[i] = 1
        /\ \A q \in Procs : proc'[q].op = "delete" /\ proc'[q].id = i => proc'[q].pc = "load"
    BY <1>2 DEF Sound
  <2>2. i # n
    BY <2>1, <1>1, <1>3
  <2>3. Written(i, d)
    BY <2>1, <2>2, <1>1, <1>3 DEF Written
  <2>4. \A q \in Procs : proc[q].op = "delete" /\ proc[q].id = i => proc[q].pc = "load"
    BY <2>1, <2>2, <1>3
  <2> QED
    BY <2>1, <2>3, <2>4 DEF Sound
<1>5. OverlapsRaced'
  BY <1>2, <1>3 DEF IndexComplete, OverlapsRaced
<1>6. DroppedGone'
  <2> SUFFICES ASSUME NEW q \in Procs, proc'[q].pc = "unlink", given'[proc'[q].id] = 1
               PROVE  rows'[proc'[q].id] = None
    BY DEF DroppedGone
  <2>1. CASE q = p
    BY <2>1, <1>1, <1>3
  <2>2. CASE q # p
    <3>1. proc[q].pc = "unlink" /\ proc'[q].id = proc[q].id /\ given[proc[q].id] = 1
      BY <2>2, <1>2, <1>3
    <3>2. proc[q].id \in Ids /\ rows[proc[q].id] = None
      BY <3>1 DEF IndexComplete, DroppedGone, Typed, Shaped, Numbered
    <3> QED
      BY <3>1, <3>2, <1>1
  <2> QED
    BY <2>1, <2>2
<1>7. SoundStored'
  <2> SUFFICES ASSUME NEW i \in Ids, NEW d \in Docs, Sound(i, d)'
               PROVE  /\ ~torn' => Entries(i, d) \subseteq index'
                      /\ \A q \in Procs : Rewriting(q)' => Entries(i, d) \subseteq proc'[q].read
    BY DEF SoundStored, Entries, Texts
  <2>1. Sound(i, d)
    BY <1>4 DEF NoNewSound
  <2> QED
    BY <2>1, <1>2, <1>3 DEF IndexComplete, SoundStored
<1> QED
  BY <1>5, <1>6, <1>7 DEF IndexComplete

LEMMA IndexUnlink ==
  ASSUME Typed, OneName, DocsHeld, IndexComplete, NEW p \in Procs, Unlink(p)
  PROVE  IndexComplete'
<1> DEFINE c == proc[p].doc
           n == proc[p].id
<1>1. Becomes(p, Idle) /\ proc[p].op = "delete" /\ c \in Docs
  BY UnlinkTyped
<1>2. UNCHANGED <<rows, index, torn, given, raced>> /\ proc[p].pc = "unlink"
  BY DEF Unlink, history
<1>3. n \in Ids
  BY <1>2 DEF Typed, Shaped, Numbered
<1>4. ASSUME given[n] = 1, NEW d \in Docs, Written(n, d)
      PROVE  FALSE
  <2>1. rows[n] = None
    BY <1>2, <1>4 DEF IndexComplete, DroppedGone
  <2>2. PICK q \in Procs : proc[q].op = "upload" /\ proc[q].id = n /\ proc[q].doc = d
    BY <2>1, <1>4 DEF Written
  <2>3. Named(n, d) /\ Named(n, c)
    BY <2>2 DEF Named
  <2>4. d = c
    BY <2>3, <1>1, <1>3, <1>4 DEF OneName
  <2> QED
    BY <2>2, <2>4, <1>1 DEF DocsHeld
<1> QED
  BY <1>1, <1>2, <1>4, IndexStops

-----------------------------------------------------------------------------
(* The inductive invariant *)
Inv == Typed /\ DocsHeld /\ OneName /\ OrphansBroken /\ IndexComplete

LEMMA InitHolds ==
  ASSUME Init
  PROVE  Inv
<1>1. Typed
  BY InitTyped
<1>2. /\ \A p \in Procs : proc[p] = Idle
      /\ \A i \in Ids : rows[i] = None /\ given[i] = 0
      /\ index = {} /\ chroma = {} /\ files = {} /\ broken = 0
  BY DEF Init
<1>3. \A p \in Procs : proc[p].pc = "idle" /\ proc[p].op = "none" /\ proc[p].doc = None /\ proc[p].read = {}
  BY <1>2 DEF Idle
<1>4. DocsHeld
  BY <1>1, <1>2, <1>3 DEF DocsHeld, Typed, Limits
<1>5. \A i \in Ids, d \in Docs : ~Named(i, d)
  BY <1>2, <1>3 DEF Named
<1>6. OneName
  BY <1>2, <1>5 DEF OneName
<1>7. OrphansBroken
  <2>1. Orphans = {}
    BY <1>2 DEF Orphans
  <2>2. Cardinality(Orphans) = 0
    BY <2>1, FS_EmptySet
  <2> QED
    BY <2>2, <1>2 DEF OrphansBroken
<1>8. IndexComplete
  <2>1. \A i \in Ids, d \in Docs : ~Sound(i, d)
    BY <1>2 DEF Sound
  <2> QED
    BY <2>1, <1>3 DEF IndexComplete, OverlapsRaced, DroppedGone, SoundStored
<1> QED
  BY <1>1, <1>4, <1>6, <1>7, <1>8 DEF Inv

(* What a step that passes names on, and whose orphans were some before,   *)
(* still has to show.                                                      *)
LEMMA InvFrom ==
  ASSUME Inv, Typed', DocsHeld', NoNewName, UNCHANGED <<given, last, broken>>, budget'.db = budget.db,
         ~Reused => Orphans' \subseteq Orphans, IndexComplete'
  PROVE  Inv'
<1>1. OneName'
  BY NamesKept DEF Inv
<1>2. OrphansBroken'
  BY OrphansFewer DEF Inv
<1> QED
  BY <1>1, <1>2 DEF Inv

LEMMA NextKeeps ==
  ASSUME Inv, Next
  PROVE  Inv'
<1> USE DEF Inv
<1> SUFFICES ASSUME NEW p \in Procs,
                    \/ Work(p) \/ Kill(p)
                    \/ \E d \in Docs : Upload(p, d)
                    \/ \E i \in Ids : Delete(p, i)
             PROVE  Inv'
  BY DEF Next
<1>1. ASSUME NEW d \in Docs, Upload(p, d) PROVE Inv'
  <2>1. broken' = broken
    BY <1>1 DEF Upload, history
  <2> QED
    BY <1>1, <2>1, UploadTyped, DocsUpload, NamesUpload, OrphansUpload, IndexUpload, InvFrom
<1>2. CASE Parse(p)
  <2>1. /\ Goes(p, "insert") /\ proc[p].op = "upload" /\ proc[p].pc = "parse"
        /\ UNCHANGED <<rows, index, torn, files, given, raced, broken, budget>>
    BY <1>2, ParseTyped DEF Parse, history
  <2>2. DocsHeld'
    BY <2>1, DocsSame DEF Goes
  <2>3. Orphans' \subseteq Orphans
    BY <2>1, OrphansGo
  <2>4. IndexComplete'
    BY <2>1, IndexGoes
  <2> QED
    BY <1>2, <2>1, <2>2, <2>3, <2>4, ParseTyped, NamesParse, InvFrom
<1>3. CASE Insert(p)
  <2>1. Becomes(p, Inserted(proc[p], NextId)) /\ proc[p].op = "upload" /\ NextId \in Ids
        /\ \A i \in Ids : given'[i] = IF i = NextId THEN given[i] + 1 ELSE given[i]
    BY <1>3, InsertTyped
  <2>2. UNCHANGED <<rows, index, torn, files, broken, budget>>
    BY <1>3 DEF Insert
  <2>3. DocsHeld'
    <3>1. \A q \in Procs : /\ proc'[q].op = proc[q].op /\ proc'[q].doc = proc[q].doc
                           /\ proc[q].op = "delete" => proc'[q].id = proc[q].id
                           /\ proc'[q].pc = "unlink" => proc[q].pc = "unlink"
      BY <2>1 DEF Becomes, Inserted
    <3> QED
      BY <3>1, <2>2, DocsSame
  <2>4. OrphansBroken'
    <3>1. \A i \in Ids : given[i] \in Nat /\ given'[i] \in Nat /\ given[i] <= given'[i]
      BY <2>1 DEF Typed, TypeOK
    <3>2. Reused => Reused'
      BY <3>1, <2>2, ReusedStays
    <3>3. Orphans' \subseteq Orphans
      BY <1>3, OrphansInsertLoad
    <3>4. CASE Reused
      BY <3>2, <3>4 DEF OrphansBroken
    <3>5. CASE ~Reused
      <4>1. IsFiniteSet(Orphans) /\ Cardinality(Orphans) \in Nat
        BY OrphansFinite
      <4>2. Cardinality(Orphans') <= Cardinality(Orphans) /\ Cardinality(Orphans') \in Nat
        BY <4>1, <3>3, FS_Subset, FS_CardinalityType
      <4>3. Cardinality(Orphans) <= broken /\ broken' = broken /\ broken \in Nat
        BY <3>5, <2>2 DEF OrphansBroken, Typed, TypeOK
      <4>4. Cardinality(Orphans') <= broken'
        BY ONLY <4>1, <4>2, <4>3
      <4> QED
        BY <4>4 DEF OrphansBroken
    <3> QED
      BY <3>4, <3>5
  <2> QED
    BY <1>3, <2>3, <2>4, InsertTyped, NamesInsert, IndexInsert
<1>4. CASE Load(p)
  <2>1. Becomes(p, Reading(proc[p])) /\ UNCHANGED <<rows, files, given, broken, budget>>
    BY <1>4, LoadTyped DEF Load
  <2>2. DocsHeld'
    <3>1. \A q \in Procs : /\ proc'[q].op = proc[q].op /\ proc'[q].doc = proc[q].doc
                           /\ proc[q].op = "delete" => proc'[q].id = proc[q].id
                           /\ proc'[q].pc = "unlink" => proc[q].pc = "unlink"
      BY <2>1 DEF Becomes, Reading
    <3> QED
      BY <3>1, <2>1, DocsSame
  <2> QED
    BY <1>4, <2>1, <2>2, LoadTyped, NamesLoad, OrphansInsertLoad, IndexLoad, InvFrom
<1>5. CASE Empty(p)
  <2>1. Goes(p, "torn") /\ proc[p].pc = "save" /\ UNCHANGED <<rows, files, given, broken, budget>>
    BY <1>5, EmptyTyped DEF Empty, history
  <2>2. DocsHeld'
    BY <2>1, DocsSame DEF Goes
  <2>3. Orphans' \subseteq Orphans
    BY <2>1, OrphansGo
  <2> QED
    BY <1>5, <2>1, <2>2, <2>3, EmptyTyped, NamesEmpty, IndexEmpty, InvFrom
<1>6. CASE Write(p)
  <2>1. Goes(p, "ingest") \/ Goes(p, "remove")
    BY <1>6, WriteTyped
  <2>2. proc[p].pc = "torn" /\ UNCHANGED <<rows, files, given, broken, budget>>
    BY <1>6 DEF Write, history
  <2>3. DocsHeld'
    BY <2>1, <2>2, DocsSame DEF Goes
  <2>4. Orphans' \subseteq Orphans
    BY <2>1, <2>2, OrphansGo
  <2> QED
    BY <1>6, <2>2, <2>3, <2>4, WriteTyped, NamesWrite, IndexWrite, InvFrom
<1>7. CASE Ingest(p)
  <2>1. Goes(p, "commit") /\ budget'.uploads = budget.uploads
    BY <1>7, IngestTyped
  <2>2. proc[p].pc = "ingest" /\ UNCHANGED <<rows, index, torn, files, given, raced, broken>>
    BY <1>7 DEF Ingest, history
  <2>3. DocsHeld'
    BY <2>1, <2>2, DocsSame DEF Goes
  <2>4. Orphans' \subseteq Orphans
    BY <2>1, <2>2, OrphansGo
  <2>5. IndexComplete'
    BY <2>1, <2>2, IndexGoes
  <2> QED
    BY <1>7, <2>2, <2>3, <2>4, <2>5, IngestTyped, NamesIngest, InvFrom
<1>8. CASE Commit(p)
  <2>1. broken' = broken
    BY <1>8 DEF Commit, history
  <2> QED
    BY <1>8, <2>1, CommitTyped, DocsCommit, NamesCommit, OrphansCommit, IndexCommit, InvFrom
<1>9. CASE UploadFails(p)
  <2>1. Typed' /\ Becomes(p, Idle) /\ budget'.db = budget.db
    BY <1>9, UploadFailsTyped
  <2>2. /\ UNCHANGED <<rows, given, raced>> /\ (torn' \/ UNCHANGED <<index, torn>>)
        /\ proc[p].op = "upload"
    BY <1>9, AbandonedTyped DEF UploadFails
  <2>3. IndexComplete'
    BY <2>1, <2>2, IndexStops
  <2>4. CASE files' = files \ {proc[p].doc} /\ broken' = broken
    <3>1. Orphans' \subseteq Orphans
      BY <2>1, <2>2, <2>4, OrphansCleaned
    <3> QED
      BY <1>9, <2>1, <2>3, <2>4, <3>1, DocsUploadFails, NamesUploadFails, InvFrom
  <2>5. CASE files' = files /\ broken' = broken + 1
    <3>1. OrphansBroken'
      BY <2>1, <2>2, <2>5, OrphansOneMore
    <3>2. OneName'
      BY <1>9, NamesUploadFails, NamesKept
    <3> QED
      BY <1>9, <2>1, <2>3, <3>1, <3>2, DocsUploadFails
  <2> QED
    BY <1>9, <2>4, <2>5 DEF UploadFails, Cleaned
<1>10. ASSUME NEW i \in Ids, Delete(p, i) PROVE Inv'
  <2>1. broken' = broken
    BY <1>10 DEF Delete, history
  <2> QED
    BY <1>10, <2>1, DeleteTyped, DocsDelete, NamesDelete, OrphansDelete, IndexDelete, InvFrom
<1>11. CASE DropRow(p)
  <2>1. broken' = broken
    BY <1>11 DEF DropRow, history
  <2> QED
    BY <1>11, <2>1, DropRowTyped, DocsDropRow, NamesDropRow, OrphansDropRow, IndexDropRow, InvFrom
<1>12. CASE Unlink(p)
  <2>1. Becomes(p, Idle) /\ rows' = rows /\ files' = files \ {proc[p].doc} /\ broken' = broken
    BY <1>12, UnlinkTyped DEF Unlink, history
  <2>2. Orphans' \subseteq Orphans
    BY <2>1, OrphansCleaned
  <2> QED
    BY <1>12, <2>1, <2>2, UnlinkTyped, DocsUnlink, NamesUnlink, IndexUnlink, InvFrom
<1>13. CASE DeleteFails(p)
  <2>1. Typed' /\ Becomes(p, Idle) /\ raced \subseteq raced' /\ budget'.uploads = budget.uploads /\ budget'.db = budget.db
    BY <1>13, DeleteFailsTyped
  <2>2. /\ UNCHANGED <<rows, files, given>> /\ (torn' \/ UNCHANGED <<index, torn>>)
        /\ proc[p].pc # "load" => proc[p].doc \in raced'
    BY <1>13, AbandonedTyped DEF DeleteFails
  <2>3. DocsHeld'
    BY <2>1, <2>2, DocsStop
  <2>4. IndexComplete'
    BY <2>1, <2>2, IndexStops
  <2>5. CASE ~At(p, "unlink")
    <3>1. broken' = broken
      BY <1>13, <2>5 DEF DeleteFails
    <3> QED
      BY <1>13, <2>1, <2>3, <2>4, <2>5, <3>1, NamesDeleteFails, OrphansDeleteFails, InvFrom
  <2>6. CASE At(p, "unlink")
    <3>1. broken' = broken + 1
      BY <1>13, <2>6 DEF DeleteFails
    <3>2. OrphansBroken'
      BY <2>1, <2>2, <3>1, OrphansOneMore
    <3>3. OneName'
      BY <1>13, NamesDeleteFails, NamesKept
    <3> QED
      BY <2>1, <2>3, <2>4, <3>2, <3>3
  <2> QED
    BY <2>5, <2>6
<1>14. CASE Kill(p)
  <2>1. Becomes(p, Idle) /\ raced \subseteq raced' /\ budget'.uploads = budget.uploads /\ budget'.db = budget.db
    BY <1>14, KillTyped
  <2>2. /\ UNCHANGED <<rows, index, torn, files, given, last>>
        /\ proc[p].op = "delete" => proc[p].doc \in raced'
    BY <1>14 DEF Kill
  <2>3. DocsHeld'
    BY <2>1, <2>2, DocsStop
  <2>4. IndexComplete'
    BY <2>1, <2>2, IndexStops
  <2>5. OneName'
    BY <1>14, NamesKill, NamesKept
  <2>6. OrphansBroken'
    BY <1>14, <2>1, <2>2, OrphansOneMore DEF Kill
  <2> QED
    BY <1>14, <2>3, <2>4, <2>5, <2>6, KillTyped
<1> QED
  BY <1>1, <1>2, <1>3, <1>4, <1>5, <1>6, <1>7, <1>8, <1>9, <1>10, <1>11, <1>12, <1>13, <1>14 DEF Work

LEMMA StutterKeeps ==
  ASSUME Inv, UNCHANGED vars
  PROVE  Inv'
<1> USE DEF Inv
<1>1. UNCHANGED <<rows, last, lock, index, torn, chroma, files, proc, given, raced, broken, budget>>
  BY DEF vars
<1>2. Typed'
  BY <1>1 DEF Typed, TypeOK
<1>3. DocsHeld'
  BY <1>1, DocsSame
<1>4. NoNewName
  BY <1>1 DEF NoNewName, Named
<1>5. Orphans' \subseteq Orphans
  BY <1>1, OrphansSame DEF Holds
<1>6. NoNewSound
  BY <1>1 DEF NoNewSound, Sound, Written
<1>7. IndexComplete'
  BY <1>1, <1>6, IndexKept
<1> QED
  BY <1>1, <1>2, <1>3, <1>4, <1>5, <1>7, InvFrom

(* The invariant holds of every behaviour of the store. *)
THEOREM StoreHolds == Spec => []Inv
<1>1. Inv /\ [Next]_vars => Inv'
  BY NextKeeps, StutterKeeps
<1> QED
  BY <1>1, InitHolds, PTL DEF Spec

(* Whatever races, fails or is killed, no chunk in either vector store is  *)
(* found under the number of another listed document, except when SQLite   *)
(* gave the number again.                                                  *)
THEOREM DocumentsOwnText == Spec => []OwnText
<1>1. Inv => OwnText
  <2> SUFFICES ASSUME Inv, NEW e \in Searched \cup Retrieved, rows[e[1]] \notin {None, e[3]}
               PROVE  Sqlite /\ given[e[1]] > 1
    BY DEF OwnText
  <2>1. e \in index \cup chroma /\ e \in Chunks
    BY DEF Searched, Retrieved, Inv, Typed, TypeOK
  <2>2. PICK i \in Ids, d \in Docs : e \in Entries(i, d)
    BY <2>1 DEF Chunks
  <2>3. e[1] = i /\ e[3] = d
    BY <2>2, EntryIs
  <2>4. rows[i] \in Docs /\ rows[i] # d /\ given[i] \in Nat
    BY <2>3 DEF Inv, Typed, TypeOK
  <2>5. Named(i, rows[i]) /\ Named(i, d)
    BY <2>1, <2>3 DEF Named
  <2>6. given[i] > 0 /\ given[i] # 1
    BY <2>4, <2>5 DEF Inv, OneName
  <2>7. Sqlite
    BY <2>4, <2>6 DEF Inv, OneName
  <2> QED
    BY <2>3, <2>4, <2>6, <2>7
<1> QED
  BY <1>1, StoreHolds, PTL

(* Once nothing is under way, the files that no row accounts for are at    *)
(* most as many as requests that were killed or could not remove their     *)
(* file, and no listed document is without its file, whatever steps failed *)
(* on the way.                                                             *)
THEOREM FilesFollowRows == Spec => []StoresAccounted
<1>1. Inv => StoresAccounted
  <2> SUFFICES ASSUME Inv PROVE StoresAccounted
    OBVIOUS
  <2> DEFINE listed == {rows[i] : i \in Ids} \ {None}
  <2>1. TypeOK
    BY DEF Inv, Typed
  <2>2. listed \subseteq files
    BY DEF Inv, DocsHeld
  <2>3. ASSUME Quiet, ~Reused PROVE Cardinality(files \ listed) <= broken
    <3>1. \A p \in Procs : ~Holds(p)
      BY <2>3 DEF Quiet, Holds, Inv, Typed, Shaped
    <3>2. \A d \in files : d # None
      BY DEF Inv, Typed, TypeOK
    <3>3. Orphans = files \ listed
      BY <3>1, <3>2 DEF Orphans
    <3> QED
      BY <3>3, <2>3 DEF Inv, OrphansBroken
  <2> QED
    BY <2>1, <2>2, <2>3 DEF StoresAccounted, FilesAccounted
<1> QED
  BY <1>1, StoreHolds, PTL

(* Every word of a listed document is found in a chunk of it, however it   *)
(* was cut up, unless the rewrite of the file overlapped another one, its  *)
(* removal broke off, or its number had been given before.                 *)
THEOREM ListedFound == Spec => []ListedIsFound
<1>1. Inv => ListedIsFound
  <2> SUFFICES ASSUME Inv, NEW i \in Ids, rows[i] # None, ~Deleting(i), ~torn, rows[i] \notin raced, given[i] = 1,
                      NEW w \in BodyOf(Pages[rows[i]])
               PROVE  \E e \in Searched : e[1] = i /\ e[3] = rows[i] /\ w \in Texts[e[3]][e[2]].text
    BY DEF ListedIsFound
  <2> DEFINE d == rows[i]
  <2>1. d \in Docs
    BY DEF Inv, Typed, TypeOK
  <2>2. Sound(i, d)
    BY DEF Sound, Written, Deleting
  <2>3. Entries(i, d) \subseteq Searched
    BY <2>1, <2>2 DEF Inv, IndexComplete, SoundStored, Searched
  <2>4. Document(Pages[d]) /\ Texts[d] = ChunkPages(Pages[d])
    BY <2>1 DEF Texts
  <2>5. w \in TextOf(Texts[d])
    BY <2>4, ChunksCover
  <2>6. PICK n \in DOMAIN Texts[d] : w \in Texts[d][n].text
    BY <2>5 DEF TextOf
  <2> DEFINE e == <<i, n, d>>
  <2>7. e \in Entries(i, d) /\ e[1] = i /\ e[2] = n /\ e[3] = d
    BY DEF Entries
  <2> QED
    BY <2>3, <2>6, <2>7
<1> QED
  BY <1>1, StoreHolds, PTL
=============================================================================
