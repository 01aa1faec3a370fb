----------------------------- MODULE PageProofs -----------------------------
(***************************************************************************)
(* The pages of an open book: the translation of a page, the page on       *)
(* screen, the marks on it, the help on its words, the notes in its margin *)
(* and the changes that are asked for in it.  What is shown, translated,   *)
(* marked, pinned or noted belongs to the page it is shown on, though all  *)
(* of it arrives late and the page may have been turned, and what becomes  *)
(* of a change that is asked for is said: for any book, and any number of  *)
(* turns, marks, calls, notes and requests.                                *)
(*                                                                         *)
(* The parts share no variable.                                            *)
(***************************************************************************)
EXTENDS Naturals, Sequences, FiniteSets, SequencesExt, SequenceTheorems, FiniteSetTheorems,
        WellFoundedInduction, TLAPS

CONSTANTS Nothing,
          Pages, TextPages, Settings, Parts, RetainedJobs, KeptPages,
          MaxRuns, MaxReaders, MaxAnalyses,                \* of the translation
          NumPages, Scales, Queries, MaxTurns, MaxFlights, \* of the page on screen
          BookPages,
          Quotes, MaxMarks, MaxCalls, MaxAsked,            \* of the marks
          Words,                                           \* of the help
          Phrases, MaxOpenings, MaxNotes,                  \* of the notes in the margin
          MaxRequests, MaxPageMarks                        \* of the changes asked for

VARIABLES reader, view, kept, analysis, runs, registry,    \* of the translation
          screen, rasters, turns, texts, search, progress, \* of the page on screen
          place, listed, stored, calls,                    \* of the marks
          sheet, pins, words, passage, asked,              \* of the help
          margin, noted, visited, noteCalls,               \* of the notes in the margin
          request, written                                 \* of the changes asked for

-----------------------------------------------------------------------------
(* Sequences                                                               *)

\* A sequence without its k-th element holds the others, in order.
LEMMA WithoutOne ==
    ASSUME NEW S, NEW q \in Seq(S), NEW k \in 1 .. Len(q)
    PROVE  /\ RemoveAt(q, k) \in Seq(S) /\ Len(RemoveAt(q, k)) = Len(q) - 1
           /\ \A i \in 1 .. Len(q) - 1 : RemoveAt(q, k)[i] = IF i < k THEN q[i] ELSE q[i + 1]
<1> DEFINE n == Len(q)
           before == SubSeq(q, 1, k - 1)
           after == SubSeq(q, k + 1, n)
           both == before \o after
<1>0. n \in Nat /\ k \in 1 .. n /\ Len(q) = n
  BY LenProperties
<1>1. \A i \in 1 .. n : q[i] \in S
  BY ElementOfSeq
<1> HIDE DEF n
<1>2. /\ before \in Seq(S) /\ Len(before) = k - 1
      /\ \A i \in 1 .. k - 1 : before[i] = q[i]
  BY <1>0, <1>1, SubSeqProperties
<1>3. /\ after \in Seq(S) /\ Len(after) = n - k
      /\ \A i \in 1 .. n - k : after[i] = q[k + i]
  <2>1. \A i \in k + 1 .. n : q[i] \in S
    BY <1>0, <1>1
  <2>2. k + 1 \in Int /\ n \in Int
    BY <1>0
  <2>3. /\ after \in Seq(S)
        /\ Len(after) = IF k + 1 <= n THEN n - (k + 1) + 1 ELSE 0
        /\ \A i \in 1 .. n - (k + 1) + 1 : after[i] = q[(k + 1) + i - 1]
    BY <2>1, <2>2, SubSeqProperties
  <2> HIDE DEF after
  <2> QED BY <1>0, <2>3
<1>4. RemoveAt(q, k) = both
  BY <1>0 DEF RemoveAt
<1> HIDE DEF before, after
<1>5. /\ both \in Seq(S) /\ Len(both) = Len(before) + Len(after)
      /\ \A i \in 1 .. Len(before) + Len(after) :
           both[i] = IF i <= Len(before) THEN before[i] ELSE after[i - Len(before)]
  BY <1>2, <1>3, ConcatProperties
<1> HIDE DEF both
<1>6. Len(before) + Len(after) = n - 1
  BY <1>0, <1>2, <1>3
<1>7. ASSUME NEW i \in 1 .. n - 1 PROVE both[i] = IF i < k THEN q[i] ELSE q[i + 1]
  <2>1. both[i] = IF i <= k - 1 THEN before[i] ELSE after[i - (k - 1)]
    BY <1>2, <1>5, <1>6
  <2>2. CASE i < k
    BY <1>0, <1>2, <2>1, <2>2
  <2>3. CASE ~(i < k)
    <3>1. i - (k - 1) \in 1 .. n - k /\ k + (i - (k - 1)) = i + 1
      BY <1>0, <2>3
    <3> QED BY <1>0, <1>3, <2>1, <2>3, <3>1
  <2> QED BY <2>2, <2>3
<1> QED BY <1>0, <1>4, <1>5, <1>6, <1>7

\* A set of numbers has a least one.
LEMMA Least ==
    ASSUME NEW S \in SUBSET Nat, S # {}
    PROVE  \E n \in S : \A i \in S : n <= i
<1> DEFINE T == {1 .. n : n \in S}
           R == StrictSubsetOrdering(Nat)
<1>1. T \subseteq FiniteSubsetsOf(Nat) /\ T # {}
  <2>1. \A n \in S : IsFiniteSet(1 .. n) /\ 1 .. n \subseteq Nat
    BY FS_Interval
  <2> QED BY <2>1 DEF FiniteSubsetsOf
<1>2. PICK x \in T : \A y \in T : <<y, x>> \notin R
  <2>1. IsWellFoundedOn(R, FiniteSubsetsOf(Nat))
    BY FS_StrictSubsetOrderingWellFounded
  <2> HIDE DEF T, R
  <2> QED BY <1>1, <2>1, WFMin
<1>3. PICK n \in S : x = 1 .. n
  OBVIOUS
<1>4. ASSUME NEW i \in S, i < n PROVE FALSE
  <2>1. i \in Nat /\ n \in Nat
    OBVIOUS
  <2>2. 1 .. i \subseteq 1 .. n /\ n \in 1 .. n /\ n \notin 1 .. i
    BY <1>4, <2>1
  <2>3. <<1 .. i, 1 .. n>> \in R
    BY <2>1, <2>2 DEF StrictSubsetOrdering
  <2> QED BY <1>2, <1>3, <2>3
<1>5. \A i \in S : ~(i < n) => n <= i
  OBVIOUS
<1> QED BY <1>4, <1>5

\* What a sequence has at some places, in its order.
Place(I, k) == CHOOSE i \in I : Cardinality({j \in I : j <= i}) = k
Picked(s, I) == [k \in 1 .. Cardinality(I) |-> s[Place(I, k)]]

LEMMA PlacesInOrder ==
    ASSUME NEW n \in Nat, NEW I \in SUBSET (1 .. n)
    PROVE  /\ Cardinality(I) \in Nat
           /\ \A k \in 1 .. Cardinality(I) : Place(I, k) \in I
           /\ \A k, l \in 1 .. Cardinality(I) : k < l => Place(I, k) < Place(I, l)
           /\ \A i \in I : \E k \in 1 .. Cardinality(I) : Place(I, k) = i
<1> DEFINE UpTo(i) == {j \in I : j <= i}
           rank == [i \in I |-> Cardinality(UpTo(i))]
<1>1. IsFiniteSet(I) /\ Cardinality(I) \in Nat
  <2>1. IsFiniteSet(1 .. n)
    BY FS_Interval
  <2> QED BY <2>1, FS_Subset, FS_CardinalityType
<1>2. ASSUME NEW i \in I PROVE rank[i] \in 1 .. Cardinality(I)
  <2>1. UpTo(i) \subseteq I /\ i \in UpTo(i)
    OBVIOUS
  <2> HIDE DEF UpTo
  <2>2. IsFiniteSet(UpTo(i)) /\ Cardinality(UpTo(i)) <= Cardinality(I) /\ Cardinality(UpTo(i)) \in Nat
    BY <1>1, <2>1, FS_Subset, FS_CardinalityType
  <2>3. Cardinality(UpTo(i)) # 0
    BY <2>1, <2>2, FS_EmptySet
  <2> QED BY <2>2, <2>3
<1>3. ASSUME NEW i \in I, NEW j \in I, i < j PROVE rank[i] < rank[j]
  <2>1. UpTo(i) \subseteq UpTo(j) /\ j \in UpTo(j) /\ j \notin UpTo(i) /\ UpTo(j) \subseteq I
    <3>1. I \subseteq Int /\ i \in Int /\ j \in Int
      OBVIOUS
    <3>2. ASSUME NEW x \in UpTo(i) PROVE x \in UpTo(j)
      BY <1>3, <3>1
    <3>3. j \in UpTo(j) /\ UpTo(j) \subseteq I
      BY <3>1
    <3>4. j \notin UpTo(i)
      BY <1>3, <3>1
    <3> QED BY <3>2, <3>3, <3>4
  <2> HIDE DEF UpTo
  <2>2. IsFiniteSet(UpTo(j)) /\ UpTo(i) # UpTo(j)
    BY <1>1, <2>1, FS_Subset
  <2>3. Cardinality(UpTo(i)) <= Cardinality(UpTo(j)) /\ Cardinality(UpTo(i)) # Cardinality(UpTo(j))
    BY <2>1, <2>2, FS_Subset
  <2>4. rank[i] \in Int /\ rank[j] \in Int
    BY <1>2
  <2> QED BY <2>3, <2>4
<1>4. \A i \in I : rank[i] = Cardinality({j \in I : j <= i})
  OBVIOUS
<1> HIDE DEF rank
<1>5. rank \in Injection(I, 1 .. Cardinality(I))
  <2>1. rank \in [I -> 1 .. Cardinality(I)]
    BY <1>2 DEF rank
  <2>2. ASSUME NEW i \in I, NEW j \in I, rank[i] = rank[j] PROVE i = j
    <3>1. i < j \/ j < i \/ i = j
      OBVIOUS
    <3>2. ~(i < j) /\ ~(j < i)
      BY <1>2, <1>3, <2>2
    <3> QED BY <3>1, <3>2
  <2> QED BY <2>1, <2>2 DEF Injection, IsInjective
<1>6. rank \in Surjection(I, 1 .. Cardinality(I))
  <2>1. IsFiniteSet(1 .. Cardinality(I)) /\ Cardinality(1 .. Cardinality(I)) = Cardinality(I)
    BY <1>1, FS_Interval
  <2> QED BY <1>5, <2>1, FS_Injection
<1>7. \A k \in 1 .. Cardinality(I) : \E i \in I : rank[i] = k
  BY <1>6 DEF Surjection
<1>8. \A k \in 1 .. Cardinality(I) : Place(I, k) \in I /\ rank[Place(I, k)] = k
  <2>1. \A k \in 1 .. Cardinality(I) : \E i \in I : Cardinality({j \in I : j <= i}) = k
    BY <1>4, <1>7
  <2>2. \A k \in 1 .. Cardinality(I) : /\ Place(I, k) \in I
                                       /\ Cardinality({j \in I : j <= Place(I, k)}) = k
    BY <2>1 DEF Place
  <2> QED BY <1>4, <2>2
<1>9. \A i \in I : \E k \in 1 .. Cardinality(I) : Place(I, k) = i
  <2>1. ASSUME NEW i \in I PROVE Place(I, rank[i]) = i
    BY <1>2, <1>5, <1>8 DEF Injection, IsInjective
  <2> QED BY <1>2, <2>1
<1>10. ASSUME NEW k \in 1 .. Cardinality(I), NEW l \in 1 .. Cardinality(I), k < l
       PROVE  Place(I, k) < Place(I, l)
  <2> DEFINE i == Place(I, k)
             j == Place(I, l)
  <2>1. i \in I /\ j \in I /\ rank[i] = k /\ rank[j] = l
    BY <1>8
  <2> HIDE DEF i, j
  <2>2. i # j /\ ~(j < i)
    BY <1>3, <1>10, <2>1
  <2>3. i < j
    BY <2>1, <2>2
  <2> QED BY <2>3 DEF i, j
<1> QED BY <1>1, <1>8, <1>9, <1>10

LEMMA PickedFacts ==
    ASSUME NEW S, NEW s \in Seq(S), NEW I \in SUBSET DOMAIN s
    PROVE  /\ Picked(s, I) \in Seq(S)
           /\ Len(Picked(s, I)) = Cardinality(I) /\ Cardinality(I) \in Nat
           /\ \A k \in 1 .. Cardinality(I) : Place(I, k) \in I /\ Picked(s, I)[k] = s[Place(I, k)]
           /\ \A k, l \in 1 .. Cardinality(I) : k < l => Place(I, k) < Place(I, l)
           /\ \A i \in I : \E k \in 1 .. Cardinality(I) : Place(I, k) = i
<1>1. Len(s) \in Nat /\ I \in SUBSET (1 .. Len(s))
  OBVIOUS
<1>2. /\ Cardinality(I) \in Nat
      /\ \A k \in 1 .. Cardinality(I) : Place(I, k) \in I
      /\ \A k, l \in 1 .. Cardinality(I) : k < l => Place(I, k) < Place(I, l)
      /\ \A i \in I : \E k \in 1 .. Cardinality(I) : Place(I, k) = i
  BY <1>1, PlacesInOrder
<1>3. \A k \in 1 .. Cardinality(I) : s[Place(I, k)] \in S
  BY <1>1, <1>2
<1>4. Picked(s, I) \in Seq(S) /\ Len(Picked(s, I)) = Cardinality(I)
  BY <1>2, <1>3 DEF Picked
<1> QED BY <1>2, <1>4 DEF Picked

-----------------------------------------------------------------------------
(* The translation of the page                                             *)

Translation == INSTANCE ReaderTranslation

ReaderState == [number : 1 .. MaxReaders, mounted : BOOLEAN, crashed : BOOLEAN, open : BOOLEAN,
                settled : BOOLEAN, page : Pages, text : Pages \cup {Nothing},
                settings : Settings]

Panel == [data : Translation!Data \cup {Nothing}, dataKey : Translation!Keys \cup {Nothing},
          partial : Translation!Keys \cup {Nothing}, busy : BOOLEAN, failed : BOOLEAN]

PagePart == [reader : Nat, key : Translation!Keys, part : Nat]

Caches == [pages : Seq(Translation!Data), parts : SUBSET PagePart,
           learned : SUBSET Translation!Keys, inFlight : Translation!Keys \cup {Nothing},
           sequence : Nat]

PageCall == [id : Translation!JobIds, key : Translation!Keys, reader : Nat,
             stage : {"context", "parts", "settled"}, have : SUBSET (1 .. Parts),
             owned : BOOLEAN, aborted : BOOLEAN]

Job == [id : Translation!JobIds, page : Pages, status : Translation!Terminal \cup {"running"},
        done : Nat, run : Nat]

AnalysisCall == [key : Translation!Keys, sequence : Nat, looksUp : BOOLEAN,
                 base : Translation!Data \cup {Nothing}]

Owns(r, e) == r.mounted /\ e.reader = r.number /\ e.owned

\* The key in flight is that of a call of the reader, which runs and has the key.
FlightIsCall(r, c, rs) ==
    c.inFlight # Nothing =>
      \E n \in DOMAIN rs : Owns(r, rs[n]) /\ rs[n].stage # "settled" /\ rs[n].key = c.inFlight

PanelIsKeyed(v, c) ==
    /\ v.data # Nothing => v.data.key = v.dataKey
    /\ v.partial # Nothing /\ c.inFlight # Nothing => v.partial = c.inFlight

WholeIn(r, c, key) ==
    \A i \in 1 .. Parts : [reader |-> r.number, key |-> key, part |-> i] \in c.parts

\* What a call has, the reader it works for keeps; while it runs, it has not everything.
CallsAreKept(r, c, rs) ==
    \A n \in DOMAIN rs :
      /\ rs[n].stage # "settled" => (1 .. Parts) \ rs[n].have # {}
      /\ Owns(r, rs[n]) => \A i \in rs[n].have : Translation!Part(rs[n], i) \in c.parts

PagesAreWhole(r, c) ==
    \A e \in Translation!ToSet(c.pages) : "translation" \in e.has => WholeIn(r, c, e.key)

ShownIsWhole(r, v, c) ==
    r.mounted /\ v.data # Nothing /\ "translation" \in v.data.has => WholeIn(r, c, v.data.key)

GoneIsEmpty(r, v, c) ==
    ~r.mounted => v = Translation!EmptyView /\ c.inFlight = Nothing /\ c.pages = <<>>

\* No two jobs have the same name; each is of a call.
JobsAre(jobs, rs) ==
    /\ jobs \in Seq(Job)
    /\ \A j, k \in Translation!ToSet(jobs) : j.id = k.id => j = k
    /\ \A j \in Translation!ToSet(jobs) : j.run \in DOMAIN rs

\* What holds of a reader, its panel, its caches and all calls, whoever looks at it.
ReaderHolds(r, v, c, rs) ==
    /\ r \in ReaderState /\ v \in Panel /\ c \in Caches /\ rs \in Seq(PageCall)
    /\ FlightIsCall(r, c, rs) /\ PanelIsKeyed(v, c) /\ CallsAreKept(r, c, rs)
    /\ PagesAreWhole(r, c) /\ ShownIsWhole(r, v, c) /\ GoneIsEmpty(r, v, c)
    /\ c.sequence <= Len(rs)
    /\ \A n \in DOMAIN rs : rs[n].reader <= r.number

\* What the panel shows to a reader that looks at a page with text.
PanelShows(r, v, c, rs) ==
    r.mounted /\ r.settled /\ r.open /\ r.text # Nothing =>
      /\ v.data # Nothing /\ v.data.key # Translation!KeyOf(r) =>
           \E n \in DOMAIN rs :
             /\ rs[n].reader = r.number /\ rs[n].key = Translation!KeyOf(r)
             /\ (1 .. Parts) \ rs[n].have # {}
             /\ rs[n].stage # "settled" => rs[n].owned
      /\ v.data = Nothing =>
           /\ v.partial # Nothing => v.partial = Translation!KeyOf(r)
           /\ v.busy => c.inFlight = Translation!KeyOf(r)
           /\ \E n \in DOMAIN rs : rs[n].reader = r.number /\ rs[n].key = Translation!KeyOf(r)

\* The newest analysis was asked for on a page that is whole, or on none.
AnalysisHolds(r, c, a) ==
    /\ a \in [sequence : Nat, busy : BOOLEAN, calls : Seq(AnalysisCall)]
    /\ r.mounted => \A i \in DOMAIN a.calls :
         /\ a.calls[i].sequence <= a.sequence
         /\ a.calls[i].base # Nothing =>
              /\ a.calls[i].base.key = a.calls[i].key
              /\ a.calls[i].sequence = a.sequence /\ "translation" \in a.calls[i].base.has =>
                   WholeIn(r, c, a.calls[i].key)

TranslationInv ==
    /\ ReaderHolds(reader, view, kept, runs) /\ PanelShows(reader, view, kept, runs)
    /\ AnalysisHolds(reader, kept, analysis) /\ JobsAre(registry, runs)

\* Each job that is not new is a former one, and one that was over is as it was.
Follows(jobs, more, rs) ==
    \A k \in Translation!ToSet(more) : k.run \in DOMAIN rs =>
      \E j \in Translation!ToSet(jobs) : /\ j.id = k.id /\ j.run = k.run
                                         /\ j.status \in Translation!Terminal => k = j

LEMMA KeyIs ==
    ASSUME Translation!TranslationAssumption, NEW r \in ReaderState
    PROVE  Translation!KeyOf(r) \in Translation!Keys /\ Translation!KeyOf(r) # Nothing
BY DEF ReaderState, Translation!KeyOf, Translation!Keys, Translation!TranslationAssumption

LEMMA PartsPicked ==
    ASSUME NEW S, NEW s \in Seq(S), NEW I \in SUBSET DOMAIN s, NEW p, p = Translation!Picked(s, I)
    PROVE  /\ p \in Seq(S)
           /\ Translation!ToSet(p) = {s[i] : i \in I}
<1>1. \A T : Translation!Cardinality(T) = Cardinality(T)
  BY Zenon DEF Translation!Cardinality, Cardinality
<1>2. \A k : Translation!Place(I, k) = Place(I, k)
  BY <1>1, Zenon DEF Translation!Place, Place
<1>3. p = Picked(s, I)
  BY <1>1, <1>2 DEF Translation!Picked, Picked
<1>4. /\ Picked(s, I) \in Seq(S)
      /\ Len(Picked(s, I)) = Cardinality(I) /\ Cardinality(I) \in Nat
      /\ \A k \in 1 .. Cardinality(I) : Place(I, k) \in I /\ Picked(s, I)[k] = s[Place(I, k)]
      /\ \A i \in I : \E k \in 1 .. Cardinality(I) : Place(I, k) = i
  BY PickedFacts
<1>5. DOMAIN p = 1 .. Cardinality(I)
  BY <1>3, <1>4
<1>6. \A k \in DOMAIN p : \E i \in I : p[k] = s[i]
  BY <1>3, <1>4, <1>5
<1>7. \A i \in I : \E k \in DOMAIN p : p[k] = s[i]
  BY <1>3, <1>4, <1>5
<1>8. Translation!ToSet(p) = {p[k] : k \in DOMAIN p}
  BY DEF Translation!ToSet
<1> QED BY <1>3, <1>4, <1>6, <1>7, <1>8

LEMMA JoinedSet ==
    ASSUME NEW S, NEW s \in Seq(S), NEW t \in Seq(S)
    PROVE  /\ s \o t \in Seq(S)
           /\ Translation!ToSet(s \o t) \subseteq Translation!ToSet(s) \cup Translation!ToSet(t)
<1>1. /\ s \o t \in Seq(S) /\ Len(s \o t) = Len(s) + Len(t)
      /\ \A i \in 1 .. Len(s) + Len(t) :
           (s \o t)[i] = IF i <= Len(s) THEN s[i] ELSE t[i - Len(s)]
  BY ConcatProperties
<1>2. ASSUME NEW i \in DOMAIN (s \o t)
      PROVE  (s \o t)[i] \in Translation!ToSet(s) \cup Translation!ToSet(t)
  <2>1. i \in 1 .. Len(s) + Len(t) /\ Len(s) \in Nat /\ Len(t) \in Nat
    BY <1>1
  <2>2. CASE i <= Len(s)
    <3>1. i \in DOMAIN s /\ (s \o t)[i] = s[i]
      BY <1>1, <2>1, <2>2
    <3> QED BY <3>1 DEF Translation!ToSet
  <2>3. CASE ~(i <= Len(s))
    <3>1. i - Len(s) \in DOMAIN t /\ (s \o t)[i] = t[i - Len(s)]
      BY <1>1, <2>1, <2>3
    <3> QED BY <3>1 DEF Translation!ToSet
  <2> QED BY <2>2, <2>3
<1> DEFINE q == s \o t
<1>3. \A i \in DOMAIN q : q[i] \in Translation!ToSet(s) \cup Translation!ToSet(t)
  BY <1>2
<1>4. Translation!ToSet(q) = {q[i] : i \in DOMAIN q}
  BY DEF Translation!ToSet
<1> QED BY <1>1, <1>3, <1>4

LEMMA AddedSet ==
    ASSUME NEW S, NEW s \in Seq(S), NEW x \in S
    PROVE  /\ Append(s, x) \in Seq(S)
           /\ Translation!ToSet(Append(s, x)) = Translation!ToSet(s) \cup {x}
<1> DEFINE q == Append(s, x)
<1>1. /\ q \in Seq(S) /\ DOMAIN q = 1 .. Len(s) + 1 /\ Len(s) \in Nat /\ DOMAIN s = 1 .. Len(s)
      /\ q[Len(s) + 1] = x /\ \A i \in 1 .. Len(s) : q[i] = s[i]
  OBVIOUS
<1> HIDE DEF q
<1>2. \A i \in DOMAIN q : i = Len(s) + 1 \/ i \in DOMAIN s
  BY <1>1
<1>3. \A i \in DOMAIN q : q[i] = x \/ \E k \in DOMAIN s : q[i] = s[k]
  BY <1>1, <1>2
<1>4. (\A k \in DOMAIN s : k \in DOMAIN q /\ q[k] = s[k]) /\ Len(s) + 1 \in DOMAIN q
  BY <1>1
<1>5. Translation!ToSet(q) = {q[i] : i \in DOMAIN q} /\ Translation!ToSet(s) = {s[i] : i \in DOMAIN s}
  BY DEF Translation!ToSet
<1> HIDE DEF q
<1>6. Translation!ToSet(q) = Translation!ToSet(s) \cup {x}
  BY <1>1, <1>3, <1>4, <1>5
<1> QED BY <1>1, <1>6 DEF q

LEMMA InSet ==
    ASSUME NEW S, NEW s \in Seq(S)
    PROVE  /\ Translation!ToSet(s) = {s[i] : i \in DOMAIN s}
           /\ Translation!ToSet(s) \subseteq S
           /\ \A i \in DOMAIN s : s[i] \in S
<1>1. \A i \in DOMAIN s : s[i] \in S
  OBVIOUS
<1>2. Translation!ToSet(s) = {s[i] : i \in DOMAIN s}
  BY DEF Translation!ToSet
<1> QED BY <1>1, <1>2

-----------------------------------------------------------------------------
(* The registry of jobs                                                    *)

\* Some of the jobs are jobs.
LEMMA SomeJobs ==
    ASSUME NEW rs, NEW jobs, JobsAre(jobs, rs), NEW I \in SUBSET DOMAIN jobs, NEW p,
           p = Translation!Picked(jobs, I)
    PROVE  JobsAre(p, rs) /\ Follows(jobs, p, rs) /\ Translation!ToSet(p) = {jobs[i] : i \in I}
<1>1. jobs \in Seq(Job)
  BY DEF JobsAre
<1>2. p \in Seq(Job) /\ Translation!ToSet(p) = {jobs[i] : i \in I}
  BY <1>1, PartsPicked
<1>3. Translation!ToSet(p) \subseteq Translation!ToSet(jobs)
  BY <1>1, <1>2, InSet
<1> QED BY <1>2, <1>3, Zenon DEF JobsAre, Follows

LEMMA TouchSteps ==
    ASSUME NEW rs, NEW jobs, JobsAre(jobs, rs), NEW ids, NEW status \in Translation!Terminal \cup {"running"},
           NEW done \in Nat \cup {Nothing}, NEW p, p = Translation!Touch(jobs, ids, status, done)
    PROVE  JobsAre(p, rs) /\ Follows(jobs, p, rs)
<1> DEFINE I == {i \in DOMAIN jobs : jobs[i].id \in ids /\ jobs[i].status = "running"}
           n == Cardinality(I)
           Changed(j) == [j EXCEPT !.status = status, !.done = IF done = Nothing THEN @ ELSE done]
           rest == Translation!Picked(jobs, DOMAIN jobs \ I)
           now == [k \in 1 .. n |-> Changed(jobs[Place(I, n + 1 - k)])]
<1>0. jobs \in Seq(Job) /\ DOMAIN jobs = 1 .. Len(jobs) /\ Len(jobs) \in Nat
  BY DEF JobsAre
<1>1. p = rest \o now
  <2>1. Translation!Cardinality(I) = n
    BY Zenon DEF Translation!Cardinality, Cardinality
  <2>2. \A T : Translation!Cardinality(T) = Cardinality(T)
    BY Zenon DEF Translation!Cardinality, Cardinality
  <2>3. \A k : Translation!Place(I, k) = Place(I, k)
    BY <2>2, Zenon DEF Translation!Place, Place
  <2> QED BY <2>1, <2>3 DEF Translation!Touch
<1>2. n \in Nat /\ \A k \in 1 .. n : Place(I, k) \in I
  BY <1>0, PlacesInOrder
<1>3. \A i \in DOMAIN jobs : jobs[i] \in Job /\ jobs[i] \in Translation!ToSet(jobs)
  BY <1>0, InSet
<1>4. /\ JobsAre(rest, rs) /\ Follows(jobs, rest, rs)
      /\ Translation!ToSet(rest) = {jobs[i] : i \in DOMAIN jobs \ I}
  BY SomeJobs
<1>5. \A j \in Job : /\ Changed(j) \in Job /\ Changed(j).id = j.id /\ Changed(j).run = j.run
  BY DEF Job
<1>6. \A k \in 1 .. n : \E i \in I : now[k] = Changed(jobs[i])
  <2> SUFFICES ASSUME NEW k \in 1 .. n PROVE \E i \in I : now[k] = Changed(jobs[i])
    OBVIOUS
  <2>1. n + 1 - k \in 1 .. n
    BY <1>2
  <2> QED BY <1>2, <2>1
<1> HIDE DEF Changed, n
<1>7. now \in Seq(Job) /\ DOMAIN now = 1 .. n
  <2>1. \A k \in 1 .. n : now[k] \in Job
    BY <1>3, <1>5, <1>6
  <2>2. now \in [1 .. n -> Job]
    BY <2>1
  <2> HIDE DEF now
  <2> QED BY <1>2, <2>2
<1>8. \A k \in Translation!ToSet(now) : \E i \in I : k = Changed(jobs[i])
  <2>1. Translation!ToSet(now) = {now[k] : k \in DOMAIN now}
    BY DEF Translation!ToSet
  <2> HIDE DEF now, I
  <2> QED BY <1>6, <1>7, <2>1
<1> HIDE DEF now, rest
<1>9. p \in Seq(Job)
      /\ Translation!ToSet(p) \subseteq Translation!ToSet(rest) \cup Translation!ToSet(now)
  BY <1>1, <1>4, <1>7, JoinedSet DEF JobsAre
<1>10. \A k \in Translation!ToSet(p) : \E i \in DOMAIN jobs :
          /\ k.id = jobs[i].id /\ k.run = jobs[i].run
          /\ i \notin I => k = jobs[i]
          /\ i \in I => k = Changed(jobs[i])
  <2> SUFFICES ASSUME NEW k \in Translation!ToSet(p)
               PROVE  \E i \in DOMAIN jobs : /\ k.id = jobs[i].id /\ k.run = jobs[i].run
                                             /\ i \notin I => k = jobs[i]
                                             /\ i \in I => k = Changed(jobs[i])
    OBVIOUS
  <2>1. CASE k \in Translation!ToSet(rest)
    <3>1. PICK i \in DOMAIN jobs \ I : k = jobs[i]
      BY <1>4, <2>1
    <3> QED BY <3>1
  <2>2. CASE k \in Translation!ToSet(now)
    <3>1. PICK i \in I : k = Changed(jobs[i])
      BY <1>8, <2>2
    <3>2. i \in DOMAIN jobs
      OBVIOUS
    <3> QED BY <1>3, <1>5, <3>1, <3>2
  <2> QED BY <1>9, <2>1, <2>2
<1>11. ASSUME NEW i \in DOMAIN jobs, NEW j \in DOMAIN jobs, jobs[i].id = jobs[j].id
       PROVE  jobs[i] = jobs[j] /\ (i \in I <=> j \in I)
  <2>1. jobs[i] = jobs[j]
    BY <1>3, <1>11 DEF JobsAre
  <2> QED BY <2>1
<1>12. \A i \in I : jobs[i].status \notin Translation!Terminal
  BY DEF Translation!Terminal
<1> HIDE DEF I
<1>13. \A j, k \in Translation!ToSet(p) : j.id = k.id => j = k
  <2> SUFFICES ASSUME NEW j \in Translation!ToSet(p), NEW k \in Translation!ToSet(p), j.id = k.id
               PROVE  j = k
    OBVIOUS
  <2>1. PICK a \in DOMAIN jobs : /\ j.id = jobs[a].id
                                 /\ a \notin I => j = jobs[a]
                                 /\ a \in I => j = Changed(jobs[a])
    BY <1>10
  <2>2. PICK b \in DOMAIN jobs : /\ k.id = jobs[b].id
                                 /\ b \notin I => k = jobs[b]
                                 /\ b \in I => k = Changed(jobs[b])
    BY <1>10
  <2>3. jobs[a] = jobs[b] /\ (a \in I <=> b \in I)
    BY <1>11, <2>1, <2>2
  <2> QED BY <2>1, <2>2, <2>3
<1>14. \A k \in Translation!ToSet(p) : k.run \in DOMAIN rs
  BY <1>3, <1>10 DEF JobsAre
<1>15. Follows(jobs, p, rs)
  <2> SUFFICES ASSUME NEW k \in Translation!ToSet(p)
               PROVE  \E j \in Translation!ToSet(jobs) :
                        /\ j.id = k.id /\ j.run = k.run
                        /\ j.status \in Translation!Terminal => k = j
    BY DEF Follows
  <2>1. PICK i \in DOMAIN jobs : /\ k.id = jobs[i].id /\ k.run = jobs[i].run
                                 /\ i \notin I => k = jobs[i]
    BY <1>10
  <2>2. jobs[i].status \in Translation!Terminal => k = jobs[i]
    BY <1>12, <2>1
  <2> QED BY <1>3, <2>1, <2>2
<1> QED BY <1>9, <1>13, <1>14, <1>15 DEF JobsAre
\* A job over stays over, also over two changes of the registry.
LEMMA FollowsOn ==
    ASSUME NEW rs, NEW jobs, NEW more, NEW last, Follows(jobs, more, rs), Follows(more, last, rs),
           \A k \in Translation!ToSet(more) : k.run \in DOMAIN rs
    PROVE  Follows(jobs, last, rs)
<1> SUFFICES ASSUME NEW k \in Translation!ToSet(last), k.run \in DOMAIN rs
             PROVE  \E j \in Translation!ToSet(jobs) :
                      /\ j.id = k.id /\ j.run = k.run
                      /\ j.status \in Translation!Terminal => k = j
  BY DEF Follows
<1>1. PICK m \in Translation!ToSet(more) : /\ m.id = k.id /\ m.run = k.run
                                           /\ m.status \in Translation!Terminal => k = m
  BY Zenon DEF Follows
<1>2. PICK j \in Translation!ToSet(jobs) : /\ j.id = m.id /\ j.run = m.run
                                           /\ j.status \in Translation!Terminal => m = j
  BY Zenon DEF Follows
<1>3. j.status \in Translation!Terminal => k = j
  BY <1>1, <1>2
<1> QED BY <1>1, <1>2, <1>3

LEMMA SameFollows ==
    ASSUME NEW rs, NEW jobs
    PROVE  Follows(jobs, jobs, rs)
BY Zenon DEF Follows

LEMMA OverStays ==
    ASSUME JobsAre(registry, runs), Follows(registry, registry', runs)
    PROVE  Translation!TerminalStep
<1> SUFFICES ASSUME NEW j \in Translation!ToSet(registry), j.status \in Translation!Terminal,
                    NEW k \in Translation!ToSet(registry'), k.id = j.id, k.run = j.run
             PROVE  k.status = j.status
  BY Zenon DEF Translation!TerminalStep
<1>1. k.run \in DOMAIN runs
  BY DEF JobsAre
<1>2. PICK i \in Translation!ToSet(registry) : /\ i.id = k.id /\ i.run = k.run
                                               /\ i.status \in Translation!Terminal => k = i
  BY <1>1, Zenon DEF Follows
<1>3. i = j
  BY <1>2, Zenon DEF JobsAre
<1> QED BY <1>2, <1>3

\* A new job takes the place of the one of its name, and a number no other has.
LEMMA JobStarted ==
    ASSUME NEW rs \in Seq(PageCall), NEW jobs, JobsAre(jobs, rs), NEW more, NEW r \in PageCall,
           more \in Seq(PageCall), Len(more) = Len(rs) + 1,
           NEW page \in Pages, NEW p,
           p = Append(Translation!Without(Translation!Prune(jobs), r.id),
                      [id |-> r.id, page |-> page, status |-> "running", done |-> 0, run |-> Len(rs) + 1])
    PROVE  JobsAre(p, more) /\ Follows(jobs, p, rs)
<1> DEFINE pruned == Translation!Prune(jobs)
           others == Translation!Without(pruned, r.id)
           new == [id |-> r.id, page |-> page, status |-> "running", done |-> 0, run |-> Len(rs) + 1]
<1>1. JobsAre(pruned, rs) /\ Follows(jobs, pruned, rs)
  <2>1. PICK I \in SUBSET DOMAIN jobs : pruned = Translation!Picked(jobs, I)
    BY DEF Translation!Prune
  <2> HIDE DEF pruned
  <2> QED BY <2>1, SomeJobs
<1> HIDE DEF pruned
<1>2. /\ JobsAre(others, rs) /\ Follows(pruned, others, rs)
      /\ \A j \in Translation!ToSet(others) : j.id # r.id
  <2> DEFINE I == {i \in DOMAIN pruned : pruned[i].id # r.id}
  <2>1. I \in SUBSET DOMAIN pruned /\ others = Translation!Picked(pruned, I)
    BY DEF Translation!Without
  <2>2. \A i \in I : pruned[i].id # r.id
    OBVIOUS
  <2> HIDE DEF others, I
  <2>3. /\ JobsAre(others, rs) /\ Follows(pruned, others, rs)
        /\ Translation!ToSet(others) = {pruned[i] : i \in I}
    BY <1>1, <2>1, SomeJobs
  <2> QED BY <2>2, <2>3
<1>3. Follows(jobs, others, rs)
  BY <1>1, <1>2, FollowsOn, Zenon DEF JobsAre
<1>4. p = Append(others, new)
  BY DEF pruned
<1> HIDE DEF others
<1>5. Len(rs) \in Nat /\ DOMAIN rs = 1 .. Len(rs) /\ DOMAIN more = 1 .. Len(rs) + 1
  OBVIOUS
<1>6. new \in Job /\ new.id = r.id /\ new.run \in DOMAIN more /\ new.run \notin DOMAIN rs
  BY <1>5 DEF Job, PageCall
<1> HIDE DEF new
<1>7. p \in Seq(Job) /\ Translation!ToSet(p) = Translation!ToSet(others) \cup {new}
  <2>1. others \in Seq(Job) /\ new \in Job
    BY <1>2, <1>6 DEF JobsAre
  <2>2. /\ Append(others, new) \in Seq(Job)
        /\ Translation!ToSet(Append(others, new)) = Translation!ToSet(others) \cup {new}
    BY <2>1, AddedSet
  <2> QED BY <1>4, <2>2
<1>8. DOMAIN rs \subseteq DOMAIN more
  BY <1>5
<1>9. JobsAre(p, more)
  <2>1. \A j, k \in Translation!ToSet(p) : j.id = k.id => j = k
    BY <1>2, <1>6, <1>7, Zenon DEF JobsAre
  <2>2. \A j \in Translation!ToSet(p) : j.run \in DOMAIN more
    BY <1>2, <1>6, <1>7, <1>8, Zenon DEF JobsAre
  <2> QED BY <1>7, <2>1, <2>2 DEF JobsAre
<1>10. Follows(jobs, p, rs)
  BY <1>3, <1>6, <1>7, Zenon DEF Follows
<1> QED BY <1>9, <1>10

-----------------------------------------------------------------------------
(* The calls of requestTranslation                                         *)

\* Calls alike but for the abort of some.
SomeAborted(rs, more) ==
    /\ more \in Seq(PageCall) /\ Len(more) = Len(rs) /\ DOMAIN more = DOMAIN rs
    /\ \A n \in DOMAIN rs : /\ more[n].id = rs[n].id /\ more[n].key = rs[n].key
                            /\ more[n].reader = rs[n].reader /\ more[n].stage = rs[n].stage
                            /\ more[n].have = rs[n].have /\ more[n].owned = rs[n].owned

LEMMA AbortingSteps ==
    ASSUME NEW rs \in Seq(PageCall), NEW jobs, NEW ids
    PROVE  SomeAborted(rs, Translation!Aborting(rs, jobs, ids))
<1> DEFINE more == Translation!Aborting(rs, jobs, ids)
<1>1. Len(rs) \in Nat /\ DOMAIN rs = 1 .. Len(rs) /\ \A n \in DOMAIN rs : rs[n] \in PageCall
  OBVIOUS
<1>2. DOMAIN more = DOMAIN rs
      /\ \A n \in DOMAIN rs : more[n] \in {rs[n], [rs[n] EXCEPT !.aborted = TRUE]}
  BY DEF Translation!Aborting
<1>3. \A n \in DOMAIN rs : /\ more[n] \in PageCall
                           /\ more[n].id = rs[n].id /\ more[n].key = rs[n].key
                           /\ more[n].reader = rs[n].reader /\ more[n].stage = rs[n].stage
                           /\ more[n].have = rs[n].have /\ more[n].owned = rs[n].owned
  <2>1. \A e \in PageCall : LET a == [e EXCEPT !.aborted = TRUE] IN
          /\ a \in PageCall /\ a.id = e.id /\ a.key = e.key /\ a.reader = e.reader
          /\ a.stage = e.stage /\ a.have = e.have /\ a.owned = e.owned
    BY DEF PageCall
  <2> HIDE DEF more
  <2> QED BY <1>1, <1>2, <2>1
<1>4. more \in [1 .. Len(rs) -> PageCall]
  BY <1>1, <1>2, <1>3 DEF Translation!Aborting
<1> HIDE DEF more
<1>5. more \in Seq(PageCall) /\ Len(more) = Len(rs)
  BY <1>1, <1>4
<1> QED BY <1>2, <1>3, <1>5 DEF SomeAborted, more

\* Calls alike but for the keys that some of a reader lose.
SomeDisowned(rs, more, number, key) ==
    /\ more \in Seq(PageCall) /\ Len(more) = Len(rs) /\ DOMAIN more = DOMAIN rs
    /\ \A n \in DOMAIN rs : /\ more[n].id = rs[n].id /\ more[n].key = rs[n].key
                            /\ more[n].reader = rs[n].reader /\ more[n].stage = rs[n].stage
                            /\ more[n].have = rs[n].have
                            /\ more[n].owned => /\ rs[n].owned
                                                /\ rs[n].reader = number => rs[n].key # key

LEMMA DisownSteps ==
    ASSUME NEW rs \in Seq(PageCall), NEW number, NEW key, NEW ids
    PROVE  SomeDisowned(rs, Translation!Disown(rs, number, key, ids), number, key)
<1> DEFINE more == Translation!Disown(rs, number, key, ids)
<1>1. Len(rs) \in Nat /\ DOMAIN rs = 1 .. Len(rs) /\ \A n \in DOMAIN rs : rs[n] \in PageCall
  OBVIOUS
<1>2. DOMAIN more = DOMAIN rs
      /\ \A n \in DOMAIN rs : \/ more[n] = [rs[n] EXCEPT !.owned = FALSE]
                              \/ /\ more[n] = rs[n]
                                 /\ rs[n].reader = number => rs[n].key # key
  BY DEF Translation!Disown
<1>3. \A n \in DOMAIN rs : /\ more[n] \in PageCall
                           /\ more[n].id = rs[n].id /\ more[n].key = rs[n].key
                           /\ more[n].reader = rs[n].reader /\ more[n].stage = rs[n].stage
                           /\ more[n].have = rs[n].have
                           /\ more[n].owned => /\ rs[n].owned
                                               /\ rs[n].reader = number => rs[n].key # key
  BY <1>1, <1>2 DEF PageCall
<1>4. more \in [1 .. Len(rs) -> PageCall]
  BY <1>1, <1>2, <1>3 DEF Translation!Disown
<1> HIDE DEF more
<1>5. more \in Seq(PageCall) /\ Len(more) = Len(rs)
  BY <1>1, <1>4
<1> QED BY <1>2, <1>3, <1>5 DEF SomeDisowned, more
-----------------------------------------------------------------------------
(* The effect that starts a call                                           *)

LEMMA SettledShows ==
    ASSUME Translation!TranslationAssumption, NEW r, NEW v, NEW c, NEW rs,
           ReaderHolds(r, v, c, rs), Translation!Settles(r, v, c)
    PROVE  PanelShows(r, v, c, rs)
<1> SUFFICES ASSUME r.mounted, r.open, r.text # Nothing PROVE PanelShows(r, v, c, rs)
  BY DEF PanelShows
<1> DEFINE key == Translation!KeyOf(r)
<1>1. key # Nothing
  BY KeyIs DEF ReaderHolds
<1> HIDE DEF key
<1>2. CASE v.dataKey = key /\ v.data # Nothing
  <2>1. v.data.key = key
    BY <1>2 DEF ReaderHolds, PanelIsKeyed
  <2> QED BY <1>2, <2>1 DEF PanelShows, key
<1>3. CASE c.inFlight = key
  <2>1. PICK n \in DOMAIN rs : Owns(r, rs[n]) /\ rs[n].stage # "settled" /\ rs[n].key = key
    BY <1>1, <1>3, Zenon DEF ReaderHolds, FlightIsCall
  <2>2. (1 .. Parts) \ rs[n].have # {}
    BY <2>1, Zenon DEF ReaderHolds, CallsAreKept
  <2>3. rs[n].reader = r.number /\ rs[n].owned
    BY <2>1, Zenon DEF Owns
  <2>4. v.partial # Nothing => v.partial = key
    BY <1>1, <1>3, Zenon DEF ReaderHolds, PanelIsKeyed
  <2> QED BY <1>3, <2>1, <2>2, <2>3, <2>4, Zenon DEF PanelShows, key
<1> QED BY <1>2, <1>3, Zenon DEF Translation!Settles, key

LEMMA KeptIsShown ==
    ASSUME Translation!TranslationAssumption, NEW r, NEW v, NEW c, NEW rs, NEW shown,
           ReaderHolds(r, v, c, rs), r.mounted, Translation!IsKept(c, Translation!KeyOf(r)),
           shown = [v EXCEPT !.data = Translation!PageOf(c, Translation!KeyOf(r)),
                             !.dataKey = Translation!KeyOf(r), !.busy = FALSE]
    PROVE  ReaderHolds(r, shown, c, rs) /\ PanelShows(r, shown, c, rs)
<1> DEFINE key == Translation!KeyOf(r)
           page == Translation!PageOf(c, key)
<1>1. key # Nothing /\ key \in Translation!Keys
  BY KeyIs DEF ReaderHolds
<1>2. page \in Translation!ToSet(c.pages) /\ page.key = key
  BY Zenon DEF Translation!IsKept, Translation!PageOf
<1> HIDE DEF key, page
<1>3. page \in Translation!Data /\ page # Nothing
  <2>1. c.pages \in Seq(Translation!Data)
    BY DEF ReaderHolds, Caches
  <2>2. page \in Translation!Data
    BY <1>2, <2>1, InSet
  <2> QED BY <2>2 DEF Translation!TranslationAssumption
<1>4. /\ shown \in Panel /\ shown.data = page /\ shown.dataKey = key
      /\ shown.partial = v.partial
  <2>1. shown = [v EXCEPT !.data = page, !.dataKey = key, !.busy = FALSE]
    BY DEF page, key
  <2> QED BY <1>1, <1>3, <2>1 DEF ReaderHolds, Panel
<1>5. ShownIsWhole(r, shown, c)
  BY <1>2, <1>4, Zenon DEF ShownIsWhole, ReaderHolds, PagesAreWhole
<1>6. ReaderHolds(r, shown, c, rs)
  BY <1>2, <1>4, <1>5 DEF ReaderHolds, PanelIsKeyed, GoneIsEmpty
<1>7. PanelShows(r, shown, c, rs)
  BY <1>2, <1>3, <1>4 DEF PanelShows, key
<1> QED BY <1>6, <1>7

LEMMA CallStarted ==
    ASSUME Translation!TranslationAssumption, NEW r, NEW v, NEW c, NEW rs, NEW jobs,
           ReaderHolds(r, v, c, rs), r.mounted, JobsAre(jobs, rs),
           Translation!StartJob(r, v, c, rs, jobs)
    PROVE  /\ ReaderHolds(reader', view', kept', runs') /\ PanelShows(reader', view', kept', runs')
           /\ reader' = r /\ kept'.parts = c.parts
           /\ JobsAre(registry', runs') /\ Follows(jobs, registry', rs)
<1> DEFINE key == Translation!KeyOf(r)
           new == Translation!NewRun(key, r, c)
           others == Translation!Disown(rs, r.number, key, {})
           n == Len(rs) + 1
<1>1. /\ reader' = r /\ Len(rs) < MaxRuns
      /\ kept' = [c EXCEPT !.sequence = c.sequence + 1, !.inFlight = key]
      /\ runs' = Append(others, new)
      /\ view' = [v EXCEPT !.data = Nothing, !.partial = Nothing, !.busy = TRUE, !.failed = FALSE]
      /\ registry' = Append(Translation!Without(Translation!Prune(jobs), new.id),
                            [id |-> new.id, page |-> r.page, status |-> "running", done |-> 0,
                             run |-> Len(rs) + 1])
  BY DEF Translation!StartJob
<1>2. key # Nothing /\ key \in Translation!Keys /\ key.page = r.page /\ r.page \in Pages
  BY KeyIs DEF ReaderHolds, ReaderState, Translation!KeyOf
<1>3. /\ c \in Caches /\ rs \in Seq(PageCall) /\ Len(rs) \in Nat /\ DOMAIN rs = 1 .. Len(rs)
      /\ c.sequence \in Nat /\ c.sequence <= Len(rs) /\ MaxRuns \in Nat
      /\ r.number \in Nat
  BY DEF ReaderHolds, Caches, ReaderState, Translation!TranslationAssumption
<1> HIDE DEF key
<1>4. /\ new \in PageCall /\ new.key = key /\ new.reader = r.number /\ new.have = {}
      /\ new.stage = "context" /\ new.owned
  <2>1. c.sequence + 1 \in 1 .. MaxRuns
    BY <1>1, <1>3
  <2>2. <<key.page, c.sequence + 1>> \in Translation!JobIds
    BY <1>2, <2>1 DEF Translation!JobIds
  <2> QED BY <1>2, <1>3, <2>2 DEF Translation!NewRun, PageCall
<1>5. SomeDisowned(rs, others, r.number, key)
  BY <1>3, DisownSteps
<1> HIDE DEF new, others
<1>6. /\ runs' \in Seq(PageCall) /\ Len(runs') = n /\ DOMAIN runs' = 1 .. n
      /\ runs'[n] = new /\ \A i \in DOMAIN rs : runs'[i] = others[i]
  <2>1. others \in Seq(PageCall) /\ Len(others) = Len(rs)
    BY <1>5 DEF SomeDisowned
  <2> QED BY <1>1, <1>3, <1>4, <2>1
<1>7. n \in DOMAIN runs' /\ \A i \in DOMAIN runs' : i = n \/ i \in DOMAIN rs
  BY <1>3, <1>6
<1>8. /\ kept' \in Caches /\ kept'.parts = c.parts /\ kept'.pages = c.pages
      /\ kept'.inFlight = key /\ kept'.sequence = c.sequence + 1
  <2>1. PICK m \in Nat : m = c.sequence + 1
    BY <1>3
  <2>2. kept' = [c EXCEPT !.sequence = m, !.inFlight = key]
    BY <1>1, <2>1
  <2>3. c \in Caches
    BY <1>3
  <2>4. /\ kept' \in Caches /\ kept'.parts = c.parts /\ kept'.pages = c.pages
        /\ kept'.inFlight = key /\ kept'.sequence = m
    BY <1>2, <2>2, <2>3 DEF Caches
  <2> QED BY <2>1, <2>4
<1>9. /\ view' \in Panel /\ view'.data = Nothing /\ view'.partial = Nothing
  BY <1>1 DEF ReaderHolds, Panel
<1> HIDE DEF n
<1>10. Owns(r, new)
  BY <1>4 DEF Owns
<1>11. FlightIsCall(r, kept', runs')
  BY <1>4, <1>6, <1>7, <1>8, <1>10 DEF FlightIsCall
<1>12. CallsAreKept(r, kept', runs')
  <2> SUFFICES ASSUME NEW i \in DOMAIN runs'
               PROVE  /\ runs'[i].stage # "settled" => (1 .. Parts) \ runs'[i].have # {}
                      /\ Owns(r, runs'[i]) =>
                           \A k \in runs'[i].have : Translation!Part(runs'[i], k) \in kept'.parts
    BY DEF CallsAreKept
  <2>1. CASE i = n
    <3>1. 1 \in 1 .. Parts
      BY DEF Translation!TranslationAssumption
    <3> QED BY <1>4, <1>6, <2>1, <3>1
  <2>2. CASE i \in DOMAIN rs
    <3>1. runs'[i] = others[i]
      BY <1>6, <2>2
    <3>2. /\ others[i].key = rs[i].key /\ others[i].reader = rs[i].reader
          /\ others[i].stage = rs[i].stage /\ others[i].have = rs[i].have
          /\ others[i].owned => rs[i].owned
      BY <1>5, <2>2 DEF SomeDisowned
    <3>3. Owns(r, others[i]) => Owns(r, rs[i])
      BY <3>2 DEF Owns
    <3>4. \A k : Translation!Part(others[i], k) = Translation!Part(rs[i], k)
      BY <3>2 DEF Translation!Part
    <3>5. /\ rs[i].stage # "settled" => (1 .. Parts) \ rs[i].have # {}
          /\ Owns(r, rs[i]) => \A k \in rs[i].have : Translation!Part(rs[i], k) \in c.parts
      BY <2>2, Zenon DEF ReaderHolds, CallsAreKept
    <3> QED BY <1>8, <3>1, <3>2, <3>3, <3>4, <3>5
  <2> QED BY <1>7, <2>1, <2>2
<1>13. PagesAreWhole(r, kept')
  BY <1>8, Zenon DEF ReaderHolds, PagesAreWhole, WholeIn
<1>14. \A i \in DOMAIN runs' : runs'[i].reader <= r.number
  <2>1. \A i \in DOMAIN rs : others[i].reader = rs[i].reader /\ rs[i].reader <= r.number
    BY <1>5 DEF SomeDisowned, ReaderHolds
  <2> QED BY <1>3, <1>4, <1>6, <1>7, <2>1
<1>15. kept'.sequence <= Len(runs')
  BY <1>3, <1>6, <1>8 DEF n
<1>16. ReaderHolds(reader', view', kept', runs')
  BY <1>1, <1>6, <1>8, <1>9, <1>11, <1>12, <1>13, <1>14, <1>15
  DEF ReaderHolds, PanelIsKeyed, ShownIsWhole, GoneIsEmpty
<1>17. PanelShows(reader', view', kept', runs')
  BY <1>1, <1>4, <1>6, <1>7, <1>8, <1>9 DEF PanelShows, key
<1>18. JobsAre(registry', runs') /\ Follows(jobs, registry', rs)
  <2>1. Len(runs') = Len(rs) + 1
    BY <1>6 DEF n
  <2> QED BY <1>1, <1>2, <1>3, <1>4, <1>6, <2>1, JobStarted
<1> QED BY <1>1, <1>8, <1>16, <1>17, <1>18
\* A reader that is gone leaves its parts and nothing else.
LEMMA GoneHolds ==
    ASSUME Translation!TranslationAssumption, NEW r, NEW v, NEW c, NEW rs, NEW gone \in ReaderState,
           ReaderHolds(r, v, c, rs), gone.number = r.number, ~gone.mounted, NEW left,
           left = [Translation!EmptyKept EXCEPT !.parts = c.parts]
    PROVE  /\ ReaderHolds(gone, Translation!EmptyView, left, rs)
           /\ PanelShows(gone, Translation!EmptyView, left, rs)
           /\ left.parts = c.parts
<1>1. /\ left \in Caches /\ left.parts = c.parts /\ left.pages = <<>> /\ left.inFlight = Nothing
      /\ left.sequence = 0
  <2>1. c.parts \in SUBSET PagePart
    BY DEF ReaderHolds, Caches
  <2>2. <<>> \in Seq(Translation!Data)
    OBVIOUS
  <2>3. \A none \in Seq(Translation!Data), p \in SUBSET PagePart :
          [pages |-> none, parts |-> p, learned |-> {}, inFlight |-> Nothing, sequence |-> 0] \in Caches
    BY DEF Caches
  <2>4. left = [pages |-> <<>>, parts |-> c.parts, learned |-> {}, inFlight |-> Nothing, sequence |-> 0]
    BY DEF Translation!EmptyKept
  <2>5. left \in Caches
    BY <2>1, <2>2, <2>3, <2>4, Zenon
  <2> QED BY <2>4, <2>5
<1>2. Translation!EmptyView \in Panel
      /\ Translation!EmptyView.data = Nothing /\ Translation!EmptyView.partial = Nothing
  BY DEF Translation!EmptyView, Panel
<1>3. CallsAreKept(gone, left, rs)
  BY DEF CallsAreKept, Owns, ReaderHolds
<1>4. PagesAreWhole(gone, left)
  BY <1>1 DEF PagesAreWhole, Translation!ToSet
<1>5. left.sequence <= Len(rs)
  <2>1. Len(rs) \in Nat
    BY DEF ReaderHolds
  <2> QED BY <1>1, <2>1
<1>6. ReaderHolds(gone, Translation!EmptyView, left, rs)
  BY <1>1, <1>2, <1>3, <1>4, <1>5
  DEF ReaderHolds, FlightIsCall, PanelIsKeyed, ShownIsWhole, GoneIsEmpty
<1>7. PanelShows(gone, Translation!EmptyView, left, rs)
  BY DEF PanelShows
<1> QED BY <1>1, <1>6, <1>7

LEMMA NewReaderIs ==
    ASSUME Translation!TranslationAssumption, NEW n \in 1 .. MaxReaders
    PROVE  /\ Translation!NewReader(n) \in ReaderState /\ Translation!NewReader(n).number = n
           /\ Translation!NewReader(n).mounted /\ ~Translation!NewReader(n).open
<1>1. (CHOOSE s \in Settings : TRUE) \in Settings
  BY DEF Translation!TranslationAssumption
<1>2. 1 \in Pages
  BY DEF Translation!TranslationAssumption
<1> QED BY <1>1, <1>2 DEF Translation!NewReader, ReaderState

LEMMA CommitSteps ==
    ASSUME Translation!TranslationAssumption, NEW r, NEW v, NEW c, NEW rs, NEW jobs,
           ReaderHolds(r, v, c, rs), r.mounted, JobsAre(jobs, rs),
           Translation!Commit(r, v, c, rs, jobs)
    PROVE  /\ ReaderHolds(reader', view', kept', runs') /\ PanelShows(reader', view', kept', runs')
           /\ reader'.number = r.number /\ kept'.parts = c.parts
           /\ JobsAre(registry', runs') /\ Follows(jobs, registry', rs)
<1>1. CASE /\ Translation!Settles(r, v, c)
           /\ reader' = r /\ view' = v /\ kept' = c /\ runs' = rs /\ registry' = jobs
  BY <1>1, SettledShows, SameFollows
<1>2. CASE /\ Translation!IsKept(c, Translation!KeyOf(r))
           /\ view' = [v EXCEPT !.data = Translation!PageOf(c, Translation!KeyOf(r)),
                                !.dataKey = Translation!KeyOf(r), !.busy = FALSE]
           /\ reader' = r /\ kept' = c /\ runs' = rs /\ registry' = jobs
  BY <1>2, KeptIsShown, SameFollows
<1>3. CASE Translation!StartRefused(r, c, rs, jobs)
  <2> DEFINE gone == [Translation!NewReader(r.number) EXCEPT !.mounted = FALSE, !.crashed = TRUE]
  <2>1. /\ reader' = gone /\ kept' = [Translation!EmptyKept EXCEPT !.parts = c.parts]
        /\ runs' = rs /\ registry' = jobs /\ view' = Translation!EmptyView
    BY <1>3 DEF Translation!StartRefused
  <2>2. r.number \in 1 .. MaxReaders
    BY DEF ReaderHolds, ReaderState
  <2>3. gone \in ReaderState /\ gone.number = r.number /\ ~gone.mounted
    BY <2>2, NewReaderIs DEF ReaderState
  <2> HIDE DEF gone
  <2>4. /\ ReaderHolds(gone, Translation!EmptyView, kept', rs)
        /\ PanelShows(gone, Translation!EmptyView, kept', rs)
        /\ kept'.parts = c.parts
    BY <2>1, <2>3, GoneHolds
  <2> QED BY <2>1, <2>3, <2>4, SameFollows
<1>4. CASE Translation!StartJob(r, v, c, rs, jobs)
  BY <1>4, CallStarted
<1> QED BY <1>1, <1>2, <1>3, <1>4, Zenon DEF Translation!Commit

\* What is read of a page and the caches stays while no part is dropped.
LEMMA AnalysisStays ==
    ASSUME NEW r, NEW c, NEW a, AnalysisHolds(r, c, a), NEW other, NEW more,
           other.number = r.number, other.mounted => r.mounted, c.parts \subseteq more.parts
    PROVE  AnalysisHolds(other, more, a)
<1>1. \A key : WholeIn(r, c, key) => WholeIn(other, more, key)
  BY DEF WholeIn
<1> QED BY <1>1 DEF AnalysisHolds

\* The reader turns a page, opens the panel or changes a setting, and the effect runs.
LEMMA CommitPreserves ==
    ASSUME Translation!TranslationAssumption, TranslationInv, NEW r \in ReaderState, NEW v \in Panel,
           reader.mounted, r.mounted, r.number = reader.number, PanelIsKeyed(v, kept),
           v.data \in {view.data, Nothing},
           Translation!Commit(r, v, kept, runs, registry), UNCHANGED analysis
    PROVE  TranslationInv' /\ Translation!TerminalStep
<1>1. ReaderHolds(reader, view, kept, runs) /\ JobsAre(registry, runs)
      /\ AnalysisHolds(reader, kept, analysis)
  BY DEF TranslationInv
<1>2. \A e : Owns(r, e) <=> Owns(reader, e)
  BY DEF Owns
<1>3. \A key : WholeIn(r, kept, key) <=> WholeIn(reader, kept, key)
  BY DEF WholeIn
<1>4. FlightIsCall(r, kept, runs) /\ CallsAreKept(r, kept, runs)
  BY <1>1, <1>2, Zenon DEF ReaderHolds, FlightIsCall, CallsAreKept
<1>5. PagesAreWhole(r, kept) /\ ShownIsWhole(r, v, kept)
  BY <1>1, <1>3, Zenon DEF ReaderHolds, PagesAreWhole, ShownIsWhole
<1>6. ReaderHolds(r, v, kept, runs)
  BY <1>1, <1>4, <1>5, Zenon DEF ReaderHolds, GoneIsEmpty
<1>7. /\ ReaderHolds(reader', view', kept', runs') /\ PanelShows(reader', view', kept', runs')
      /\ reader'.number = r.number /\ kept'.parts = kept.parts
      /\ JobsAre(registry', runs') /\ Follows(registry, registry', runs)
  BY <1>1, <1>6, CommitSteps
<1>8. AnalysisHolds(reader', kept', analysis')
  BY <1>1, <1>7, AnalysisStays
<1>9. Translation!TerminalStep
  BY <1>1, <1>7, OverStays
<1> QED BY <1>7, <1>8, <1>9, Zenon DEF TranslationInv
-----------------------------------------------------------------------------
(* What the reader of the book does                                        *)

LEMMA ReaderFields ==
    ASSUME TranslationInv
    PROVE  reader \in ReaderState /\ view \in Panel /\ kept \in Caches /\ runs \in Seq(PageCall)
BY DEF TranslationInv, ReaderHolds

LEMMA TurnSteps ==
    ASSUME Translation!TranslationAssumption, TranslationInv,
           \/ Translation!TurnPage \/ Translation!SyncText \/ Translation!ExtractText
           \/ Translation!OpenPanel \/ Translation!ShowJob \/ Translation!ChangeTimeout
    PROVE  TranslationInv' /\ Translation!TerminalStep
<1>1. reader \in ReaderState /\ view \in Panel /\ PanelIsKeyed(view, kept)
  BY DEF TranslationInv, ReaderHolds
<1> SUFFICES ASSUME NEW r \in ReaderState, r.mounted, r.number = reader.number, reader.mounted,
                    Translation!Commit(r, view, kept, runs, registry), UNCHANGED analysis
             PROVE  TranslationInv' /\ Translation!TerminalStep
  <2>1. CASE Translation!TurnPage
    <3>1. PICK p \in Pages :
            /\ Translation!Commit([reader EXCEPT !.page = p, !.settled = FALSE], view, kept, runs, registry)
            /\ UNCHANGED analysis /\ reader.mounted
      BY <2>1, Zenon DEF Translation!TurnPage, Translation!UserActs
    <3> DEFINE r == [reader EXCEPT !.page = p, !.settled = FALSE]
    <3>2. r \in ReaderState /\ r.mounted /\ r.number = reader.number
      BY <1>1, <3>1 DEF ReaderState
    <3> HIDE DEF r
    <3> QED BY <3>1, <3>2 DEF r
  <2>2. CASE Translation!SyncText
    <3>1. PICK t \in {Nothing} \cup (TextPages \cap {reader.page}) :
            /\ Translation!Commit([reader EXCEPT !.settled = TRUE, !.text = t], view, kept, runs, registry)
            /\ UNCHANGED analysis /\ reader.mounted
      BY <2>2, Zenon DEF Translation!SyncText
    <3> DEFINE r == [reader EXCEPT !.settled = TRUE, !.text = t]
    <3>2. r \in ReaderState /\ r.mounted /\ r.number = reader.number
      BY <1>1, <3>1 DEF ReaderState
    <3> HIDE DEF r
    <3> QED BY <3>1, <3>2 DEF r
  <2>3. CASE Translation!ExtractText
    <3> DEFINE r == [reader EXCEPT !.text = reader.page]
    <3>1. /\ Translation!Commit(r, view, kept, runs, registry)
          /\ UNCHANGED analysis /\ reader.mounted
      BY <2>3, Zenon DEF Translation!ExtractText, Translation!UserActs
    <3>2. r \in ReaderState /\ r.mounted /\ r.number = reader.number
      BY <1>1, <3>1 DEF ReaderState
    <3> HIDE DEF r
    <3> QED BY <3>1, <3>2
  <2>4. CASE Translation!OpenPanel
    <3> DEFINE r == [reader EXCEPT !.open = TRUE]
    <3>1. /\ Translation!Commit(r, view, kept, runs, registry)
          /\ UNCHANGED analysis /\ reader.mounted
      BY <2>4, Zenon DEF Translation!OpenPanel, Translation!UserActs
    <3>2. r \in ReaderState /\ r.mounted /\ r.number = reader.number
      BY <1>1, <3>1 DEF ReaderState
    <3> HIDE DEF r
    <3> QED BY <3>1, <3>2
  <2>5. CASE Translation!ShowJob
    <3>1. PICK j \in Translation!ToSet(registry) :
            /\ Translation!Commit([reader EXCEPT !.open = TRUE, !.page = j.page, !.settled = FALSE],
                                  view, kept, runs, registry)
            /\ UNCHANGED analysis /\ reader.mounted
      BY <2>5, Zenon DEF Translation!ShowJob, Translation!UserActs
    <3>2. j.page \in Pages
      <4>1. registry \in Seq(Job)
        BY DEF TranslationInv, JobsAre
      <4>2. j \in Job
        BY <4>1, InSet
      <4> QED BY <4>2 DEF Job
    <3> DEFINE r == [reader EXCEPT !.open = TRUE, !.page = j.page, !.settled = FALSE]
    <3>3. r \in ReaderState /\ r.mounted /\ r.number = reader.number
      BY <1>1, <3>1, <3>2 DEF ReaderState
    <3> HIDE DEF r
    <3> QED BY <3>1, <3>3 DEF r
  <2>6. CASE Translation!ChangeTimeout
    <3>1. /\ Translation!Commit(reader, view, kept, runs, registry)
          /\ UNCHANGED analysis /\ reader.mounted
      BY <2>6, Zenon DEF Translation!ChangeTimeout, Translation!UserActs
    <3> QED BY <1>1, <3>1
  <2> QED BY <2>1, <2>2, <2>3, <2>4, <2>5, <2>6
<1> QED BY <1>1, CommitPreserves

\* A new setting takes the page that is shown away.
LEMMA SettingSteps ==
    ASSUME Translation!TranslationAssumption, TranslationInv,
           Translation!ChangeLanguage \/ Translation!ChangeModel
    PROVE  TranslationInv' /\ Translation!TerminalStep
<1>1. reader \in ReaderState /\ view \in Panel
  BY ReaderFields
<1>2. ASSUME NEW s \in Settings, NEW v,
             v \in {Translation!EmptyView,
                    [view EXCEPT !.data = Nothing, !.dataKey = Nothing, !.partial = Nothing]},
             reader.mounted, UNCHANGED analysis,
             Translation!Commit([reader EXCEPT !.settings = s], v, kept, runs, registry)
      PROVE  TranslationInv' /\ Translation!TerminalStep
  <2> DEFINE r == [reader EXCEPT !.settings = s]
  <2>1. r \in ReaderState /\ r.mounted /\ r.number = reader.number
    BY <1>1, <1>2 DEF ReaderState
  <2>2. v \in Panel /\ v.data = Nothing /\ v.partial = Nothing
    <3>1. CASE v = Translation!EmptyView
      BY <3>1 DEF Panel, Translation!EmptyView
    <3>2. CASE v = [view EXCEPT !.data = Nothing, !.dataKey = Nothing, !.partial = Nothing]
      BY <1>1, <3>2 DEF Panel
    <3> QED BY <1>2, <3>1, <3>2
  <2>3. PanelIsKeyed(v, kept)
    BY <2>2 DEF PanelIsKeyed
  <2> HIDE DEF r
  <2>4. Translation!Commit(r, v, kept, runs, registry)
    BY <1>2 DEF r
  <2> QED BY <1>2, <2>1, <2>2, <2>3, <2>4, CommitPreserves
<1>3. CASE Translation!ChangeLanguage
  <2>1. PICK s \in Settings :
          /\ Translation!Commit([reader EXCEPT !.settings = s],
                [view EXCEPT !.data = Nothing, !.dataKey = Nothing, !.partial = Nothing],
                kept, runs, registry)
          /\ reader.mounted /\ UNCHANGED analysis
    BY <1>3, Zenon DEF Translation!ChangeLanguage, Translation!UserActs
  <2> QED BY <1>2, <2>1
<1>4. CASE Translation!ChangeModel
  <2>1. PICK s \in Settings :
          /\ Translation!Commit([reader EXCEPT !.settings = s], Translation!EmptyView, kept, runs, registry)
          /\ reader.mounted /\ UNCHANGED analysis
    BY <1>4, Zenon DEF Translation!ChangeModel, Translation!UserActs
  <2> QED BY <1>2, <2>1
<1> QED BY <1>3, <1>4

\* Calls of which some are aborted hold what they held.
LEMMA AbortedHold ==
    ASSUME NEW r, NEW v, NEW c, NEW rs, NEW more, SomeAborted(rs, more)
    PROVE  /\ ReaderHolds(r, v, c, rs) => ReaderHolds(r, v, c, more)
           /\ PanelShows(r, v, c, rs) => PanelShows(r, v, c, more)
           /\ \A jobs : JobsAre(jobs, rs) => JobsAre(jobs, more)
<1>1. \A n \in DOMAIN rs : /\ Owns(r, more[n]) <=> Owns(r, rs[n])
                           /\ \A i : Translation!Part(more[n], i) = Translation!Part(rs[n], i)
  BY DEF SomeAborted, Owns, Translation!Part
<1>2. FlightIsCall(r, c, rs) => FlightIsCall(r, c, more)
  BY <1>1, Zenon DEF SomeAborted, FlightIsCall
<1>3. CallsAreKept(r, c, rs) => CallsAreKept(r, c, more)
  BY <1>1 DEF SomeAborted, CallsAreKept
<1>4. ReaderHolds(r, v, c, rs) => ReaderHolds(r, v, c, more)
  BY <1>2, <1>3 DEF ReaderHolds, SomeAborted
<1>5. PanelShows(r, v, c, rs) => PanelShows(r, v, c, more)
  BY DEF PanelShows, SomeAborted
<1>6. \A jobs : JobsAre(jobs, rs) => JobsAre(jobs, more)
  BY DEF JobsAre, SomeAborted
<1> QED BY <1>4, <1>5, <1>6

LEMMA StopSteps ==
    ASSUME Translation!TranslationAssumption, TranslationInv,
           Translation!Stop \/ Translation!ClosePanel
    PROVE  TranslationInv' /\ Translation!TerminalStep
<1>1. /\ ReaderHolds(reader, view, kept, runs) /\ PanelShows(reader, view, kept, runs)
      /\ AnalysisHolds(reader, kept, analysis) /\ JobsAre(registry, runs)
  BY DEF TranslationInv
<1>2. CASE Translation!Stop
  <2>1. PICK id : /\ registry' = Translation!Cancel(registry, {id})
                  /\ runs' = Translation!Aborting(runs, registry, {id})
                  /\ UNCHANGED <<reader, view, kept, analysis>>
    BY <1>2, Zenon DEF Translation!Stop
  <2>2. SomeAborted(runs, runs')
    <3>1. runs \in Seq(PageCall)
      BY ReaderFields
    <3> QED BY <2>1, <3>1, AbortingSteps
  <2>3. JobsAre(registry', runs) /\ Follows(registry, registry', runs)
    <3>1. "cancelled" \in Translation!Terminal \cup {"running"} /\ Nothing \in Nat \cup {Nothing}
      BY DEF Translation!Terminal
    <3>2. registry' = Translation!Touch(registry, {id}, "cancelled", Nothing)
      BY <2>1 DEF Translation!Cancel
    <3> QED BY <1>1, <3>1, <3>2, TouchSteps
  <2>4. /\ ReaderHolds(reader, view, kept, runs') /\ PanelShows(reader, view, kept, runs')
        /\ JobsAre(registry', runs')
    BY <1>1, <2>2, <2>3, AbortedHold
  <2>5. TranslationInv'
    BY <1>1, <2>1, <2>4, Zenon DEF TranslationInv
  <2> QED BY <1>1, <2>3, <2>5, OverStays
<1>3. CASE Translation!ClosePanel
  <2>1. reader' = [reader EXCEPT !.open = FALSE] /\ UNCHANGED <<view, kept, analysis, runs, registry>>
    BY <1>3, Zenon DEF Translation!ClosePanel
  <2>2. /\ reader' \in ReaderState /\ reader'.number = reader.number /\ reader'.mounted = reader.mounted
        /\ ~reader'.open
    <3>1. reader \in ReaderState
      BY ReaderFields
    <3> QED BY <2>1, <3>1 DEF ReaderState
  <2>3. /\ \A e : Owns(reader', e) <=> Owns(reader, e)
        /\ \A key : WholeIn(reader', kept, key) <=> WholeIn(reader, kept, key)
    BY <2>2 DEF Owns, WholeIn
  <2>4. ReaderHolds(reader', view, kept, runs)
    <3>1. FlightIsCall(reader', kept, runs) /\ CallsAreKept(reader', kept, runs)
      BY <1>1, <2>3, Zenon DEF ReaderHolds, FlightIsCall, CallsAreKept
    <3>2. PagesAreWhole(reader', kept) /\ ShownIsWhole(reader', view, kept)
      BY <1>1, <2>2, <2>3, Zenon DEF ReaderHolds, PagesAreWhole, ShownIsWhole
    <3> QED BY <1>1, <2>2, <3>1, <3>2, Zenon DEF ReaderHolds, GoneIsEmpty
  <2>5. PanelShows(reader', view, kept, runs)
    BY <2>2 DEF PanelShows
  <2>6. AnalysisHolds(reader', kept, analysis)
    BY <1>1, <2>2, AnalysisStays
  <2>7. TranslationInv'
    BY <1>1, <2>1, <2>4, <2>5, <2>6, Zenon DEF TranslationInv
  <2>8. Translation!TerminalStep
    BY <1>1, <2>1, SameFollows, OverStays
  <2> QED BY <2>7, <2>8
<1> QED BY <1>2, <1>3

\* "Resume translation" takes the page out of the caches, and from its calls the page.
LEMMA ResumeSteps ==
    ASSUME Translation!TranslationAssumption, TranslationInv, Translation!Resume
    PROVE  TranslationInv' /\ Translation!TerminalStep
<1> DEFINE key == Translation!KeyOf(reader)
           here == {j.id : j \in {j \in Translation!ToSet(registry) :
                                    j.page = reader.page /\ j.status = "running"}}
           I == {i \in DOMAIN kept.pages : kept.pages[i].key # key}
           others == Translation!Picked(kept.pages, I)
           parts == {p \in kept.parts : p.reader # reader.number \/ p.key # key}
           v == [Translation!EmptyView EXCEPT !.busy = view.busy]
           c == [kept EXCEPT !.pages = others, !.parts = parts, !.learned = kept.learned \ {key},
                             !.inFlight = Nothing]
           stopped == Translation!Aborting(runs, registry, here)
           rs == Translation!Disown(stopped, reader.number, key, here)
           jobs == Translation!Cancel(registry, here)
<1>1. /\ reader.mounted /\ Translation!Commit(reader, v, c, rs, jobs)
      /\ analysis' = [analysis EXCEPT !.sequence = analysis.sequence + 1, !.busy = FALSE]
  BY DEF Translation!Resume, Translation!UserActs, Translation!CurrentKey
<1>2. /\ reader \in ReaderState /\ view \in Panel /\ kept \in Caches /\ runs \in Seq(PageCall)
      /\ ReaderHolds(reader, view, kept, runs) /\ JobsAre(registry, runs)
      /\ AnalysisHolds(reader, kept, analysis)
  BY ReaderFields DEF TranslationInv
<1>3. SomeAborted(runs, stopped)
  BY <1>2, AbortingSteps
<1>4. SomeDisowned(stopped, rs, reader.number, key)
  BY <1>3, DisownSteps DEF SomeAborted
<1>5. /\ rs \in Seq(PageCall) /\ Len(rs) = Len(runs) /\ DOMAIN rs = DOMAIN runs
      /\ \A n \in DOMAIN runs : /\ rs[n].key = runs[n].key /\ rs[n].reader = runs[n].reader
                                /\ rs[n].stage = runs[n].stage /\ rs[n].have = runs[n].have
                                /\ rs[n].owned => /\ runs[n].owned
                                                  /\ runs[n].reader = reader.number => runs[n].key # key
  BY <1>3, <1>4 DEF SomeAborted, SomeDisowned
<1>6. JobsAre(jobs, runs) /\ Follows(registry, jobs, runs)
  <2>1. "cancelled" \in Translation!Terminal \cup {"running"} /\ Nothing \in Nat \cup {Nothing}
    BY DEF Translation!Terminal
  <2>2. jobs = Translation!Touch(registry, here, "cancelled", Nothing)
    BY DEF Translation!Cancel
  <2> HIDE DEF jobs, here
  <2> QED BY <1>2, <2>1, <2>2, TouchSteps
<1>7. /\ others \in Seq(Translation!Data)
      /\ \A e \in Translation!ToSet(others) : e \in Translation!ToSet(kept.pages) /\ e.key # key
  <2>1. kept.pages \in Seq(Translation!Data) /\ I \in SUBSET DOMAIN kept.pages
    BY <1>2 DEF Caches
  <2>2. \A i \in I : kept.pages[i].key # key /\ i \in DOMAIN kept.pages
    OBVIOUS
  <2> HIDE DEF I, others
  <2>3. others = Translation!Picked(kept.pages, I)
    BY DEF others
  <2>4. others \in Seq(Translation!Data) /\ Translation!ToSet(others) = {kept.pages[i] : i \in I}
    BY <2>1, <2>3, PartsPicked
  <2>5. Translation!ToSet(kept.pages) = {kept.pages[i] : i \in DOMAIN kept.pages}
    BY DEF Translation!ToSet
  <2> QED BY <2>2, <2>4, <2>5
<1> HIDE DEF others, I, here, stopped, rs, jobs
<1>8. /\ c \in Caches /\ c.pages = others /\ c.parts = parts /\ c.inFlight = Nothing
      /\ c.sequence = kept.sequence
  BY <1>2, <1>7 DEF Caches
<1>9. v \in Panel /\ v.data = Nothing /\ v.partial = Nothing
  BY <1>2 DEF Panel, Translation!EmptyView
<1> HIDE DEF c, v
<1>10. \A k, i : /\ [reader |-> reader.number, key |-> k, part |-> i] \in kept.parts
                 /\ k # key
                 => [reader |-> reader.number, key |-> k, part |-> i] \in parts
  OBVIOUS
<1>11. PagesAreWhole(reader, c)
  <2> SUFFICES ASSUME NEW e \in Translation!ToSet(c.pages), "translation" \in e.has
               PROVE  WholeIn(reader, c, e.key)
    BY Zenon DEF PagesAreWhole
  <2>1. e \in Translation!ToSet(kept.pages) /\ e.key # key
    BY <1>7, <1>8
  <2>2. WholeIn(reader, kept, e.key)
    BY <1>2, <2>1, Zenon DEF ReaderHolds, PagesAreWhole
  <2> HIDE DEF parts
  <2> QED BY <1>8, <1>10, <2>1, <2>2 DEF WholeIn
<1>12. CallsAreKept(reader, c, rs)
  <2> SUFFICES ASSUME NEW n \in DOMAIN runs
               PROVE  /\ rs[n].stage # "settled" => (1 .. Parts) \ rs[n].have # {}
                      /\ Owns(reader, rs[n]) =>
                           \A i \in rs[n].have : Translation!Part(rs[n], i) \in c.parts
    BY <1>5, Zenon DEF CallsAreKept
  <2>1. /\ runs[n].stage # "settled" => (1 .. Parts) \ runs[n].have # {}
        /\ Owns(reader, runs[n]) => \A i \in runs[n].have : Translation!Part(runs[n], i) \in kept.parts
    BY <1>2, Zenon DEF ReaderHolds, CallsAreKept
  <2>2. ASSUME Owns(reader, rs[n]), NEW i \in rs[n].have PROVE Translation!Part(rs[n], i) \in c.parts
    <3>1. Owns(reader, runs[n]) /\ runs[n].key # key /\ runs[n].reader = reader.number
      BY <1>5, <2>2 DEF Owns
    <3>2. Translation!Part(runs[n], i) \in kept.parts
      BY <1>5, <2>1, <2>2, <3>1
    <3>3. Translation!Part(rs[n], i) = [reader |-> reader.number, key |-> runs[n].key, part |-> i]
          /\ Translation!Part(runs[n], i) = [reader |-> reader.number, key |-> runs[n].key, part |-> i]
      BY <1>5, <3>1 DEF Translation!Part
    <3> HIDE DEF parts
    <3> QED BY <1>8, <1>10, <3>1, <3>2, <3>3
  <2> QED BY <1>5, <2>1, <2>2
<1>13. \A n \in DOMAIN rs : rs[n].reader <= reader.number
  BY <1>2, <1>5 DEF ReaderHolds
<1>14. c.sequence <= Len(rs)
  BY <1>2, <1>5, <1>8 DEF ReaderHolds
<1>15. ReaderHolds(reader, v, c, rs)
  BY <1>1, <1>2, <1>5, <1>8, <1>9, <1>11, <1>12, <1>13, <1>14
  DEF ReaderHolds, FlightIsCall, PanelIsKeyed, ShownIsWhole, GoneIsEmpty
<1>16. JobsAre(jobs, rs)
  BY <1>5, <1>6 DEF JobsAre
<1>17. /\ ReaderHolds(reader', view', kept', runs') /\ PanelShows(reader', view', kept', runs')
       /\ reader'.number = reader.number /\ kept'.parts = c.parts
       /\ JobsAre(registry', runs') /\ Follows(jobs, registry', rs)
  BY <1>1, <1>15, <1>16, CommitSteps
<1>18. Translation!TerminalStep
  <2>1. Follows(jobs, registry', runs)
    BY <1>5, <1>17 DEF Follows
  <2>2. Follows(registry, registry', runs)
    BY <1>6, <2>1, FollowsOn, Zenon DEF JobsAre
  <2> QED BY <1>2, <2>2, OverStays
<1>19. AnalysisHolds(reader', kept', analysis')
  <2>1. /\ analysis.sequence \in Nat /\ analysis.calls \in Seq(AnalysisCall)
        /\ analysis' \in [sequence : Nat, busy : BOOLEAN, calls : Seq(AnalysisCall)]
        /\ analysis'.calls = analysis.calls /\ analysis'.sequence = analysis.sequence + 1
    <3>1. analysis \in [sequence : Nat, busy : BOOLEAN, calls : Seq(AnalysisCall)]
      BY <1>2 DEF AnalysisHolds
    <3>2. PICK n \in Nat : n = analysis.sequence + 1
      BY <3>1
    <3>3. analysis' = [analysis EXCEPT !.sequence = n, !.busy = FALSE]
      BY <1>1, <3>2
    <3>4. /\ analysis' \in [sequence : Nat, busy : BOOLEAN, calls : Seq(AnalysisCall)]
          /\ analysis'.calls = analysis.calls /\ analysis'.sequence = n
      BY <3>1, <3>3
    <3> QED BY <3>1, <3>2, <3>4
  <2>2. \A i \in DOMAIN analysis.calls :
          /\ analysis.calls[i].sequence \in Nat
          /\ analysis.calls[i].sequence <= analysis.sequence
          /\ analysis.calls[i].base # Nothing => analysis.calls[i].base.key = analysis.calls[i].key
    <3>1. \A i \in DOMAIN analysis.calls : analysis.calls[i] \in AnalysisCall
      BY <2>1
    <3> QED BY <1>1, <1>2, <3>1 DEF AnalysisHolds, AnalysisCall
  <2>3. \A i \in DOMAIN analysis.calls :
          /\ analysis.calls[i].sequence <= analysis'.sequence
          /\ analysis.calls[i].sequence # analysis'.sequence
    BY <2>1, <2>2
  <2> QED BY <2>1, <2>2, <2>3 DEF AnalysisHolds
<1> QED BY <1>17, <1>18, <1>19, Zenon DEF TranslationInv

\* The reader leaves, and opens the book again, as another one.
LEMMA LeaveSteps ==
    ASSUME Translation!TranslationAssumption, TranslationInv,
           Translation!Leave \/ Translation!Reopen
    PROVE  TranslationInv' /\ Translation!TerminalStep
<1>1. /\ reader \in ReaderState /\ view \in Panel /\ kept \in Caches /\ runs \in Seq(PageCall)
      /\ ReaderHolds(reader, view, kept, runs) /\ JobsAre(registry, runs)
      /\ AnalysisHolds(reader, kept, analysis)
  BY ReaderFields DEF TranslationInv
<1>2. \A r, c : AnalysisHolds(r, c, Translation!NoAnalysis)
  <2>1. <<>> \in Seq(AnalysisCall) /\ DOMAIN <<>> = {}
    OBVIOUS
  <2>2. /\ Translation!NoAnalysis \in [sequence : Nat, busy : BOOLEAN, calls : Seq(AnalysisCall)]
        /\ Translation!NoAnalysis.calls = <<>>
    BY <2>1 DEF Translation!NoAnalysis
  <2> QED BY <2>1, <2>2 DEF AnalysisHolds
<1>3. UNCHANGED <<runs, registry>> /\ analysis' = Translation!NoAnalysis
  BY Zenon DEF Translation!Leave, Translation!Reopen
<1>4. CASE Translation!Leave
  <2> DEFINE gone == [Translation!NewReader(reader.number) EXCEPT !.mounted = FALSE]
  <2>1. /\ reader' = gone /\ view' = Translation!EmptyView
        /\ kept' = [Translation!EmptyKept EXCEPT !.parts = kept.parts]
    BY <1>4, Zenon DEF Translation!Leave
  <2>2. reader.number \in 1 .. MaxReaders
    BY <1>1 DEF ReaderState
  <2>3. gone \in ReaderState /\ gone.number = reader.number /\ ~gone.mounted
    BY <2>2, NewReaderIs DEF ReaderState
  <2> HIDE DEF gone
  <2>4. /\ ReaderHolds(gone, Translation!EmptyView, kept', runs)
        /\ PanelShows(gone, Translation!EmptyView, kept', runs)
    BY <1>1, <2>1, <2>3, GoneHolds
  <2>5. TranslationInv'
    BY <1>1, <1>2, <1>3, <2>1, <2>4 DEF TranslationInv
  <2> QED BY <1>1, <1>3, <2>5, SameFollows, OverStays
<1>5. CASE Translation!Reopen
  <2>1. /\ ~reader.mounted /\ reader.number < MaxReaders
        /\ reader' = Translation!NewReader(reader.number + 1) /\ UNCHANGED <<view, kept>>
    BY <1>5, Zenon DEF Translation!Reopen
  <2>2. reader.number \in 1 .. MaxReaders /\ MaxReaders \in Nat
    BY <1>1 DEF ReaderState, Translation!TranslationAssumption
  <2>3. reader.number + 1 \in 1 .. MaxReaders
    BY <2>1, <2>2
  <2>4. /\ reader' \in ReaderState /\ reader'.number = reader.number + 1 /\ reader'.mounted
        /\ ~reader'.open
    BY <2>1, <2>3, NewReaderIs
  <2>5. view = Translation!EmptyView /\ kept.inFlight = Nothing /\ kept.pages = <<>>
    BY <1>1, <2>1 DEF ReaderHolds, GoneIsEmpty
  <2>6. \A n \in DOMAIN runs : runs[n].reader \in Nat /\ runs[n].reader <= reader.number
    <3>1. \A n \in DOMAIN runs : runs[n] \in PageCall
      BY <1>1
    <3> QED BY <1>1, <3>1 DEF ReaderHolds, PageCall
  <2>7. \A n \in DOMAIN runs : runs[n].reader # reader'.number /\ runs[n].reader <= reader'.number
    BY <2>2, <2>4, <2>6
  <2>8. CallsAreKept(reader', kept, runs)
    BY <1>1, <2>7 DEF ReaderHolds, CallsAreKept, Owns
  <2>9. PagesAreWhole(reader', kept)
    BY <2>5 DEF PagesAreWhole, Translation!ToSet
  <2>10. view.data = Nothing /\ view.partial = Nothing
    BY <2>5 DEF Translation!EmptyView
  <2>11. ReaderHolds(reader', view, kept, runs)
    BY <1>1, <2>4, <2>5, <2>7, <2>8, <2>9, <2>10
    DEF ReaderHolds, FlightIsCall, PanelIsKeyed, ShownIsWhole, GoneIsEmpty
  <2>12. PanelShows(reader', view, kept, runs)
    BY <2>4 DEF PanelShows
  <2>13. TranslationInv'
    BY <1>1, <1>2, <1>3, <2>1, <2>11, <2>12 DEF TranslationInv
  <2> QED BY <1>1, <1>3, <2>13, SameFollows, OverStays
<1> QED BY <1>4, <1>5

-----------------------------------------------------------------------------
(* The calls end                                                           *)

\* The caches keep a page in the place it had, or as the latest, and may lose the oldest.
LEMMA KeepSteps ==
    ASSUME Translation!TranslationAssumption, NEW pages \in Seq(Translation!Data),
           NEW key \in Translation!Keys, NEW has \in SUBSET (Translation!Whole \cup Translation!Notes),
           NEW p, p \in {Translation!Keep(pages, key, has),
                         Translation!EvictOldest(Translation!Keep(pages, key, has))}
    PROVE  /\ p \in Seq(Translation!Data)
           /\ \A e \in Translation!ToSet(p) : e \in Translation!ToSet(pages) \/ e = [key |-> key, has |-> has]
<1> DEFINE new == [key |-> key, has |-> has]
           all == Translation!Keep(pages, key, has)
           replaced == [i \in DOMAIN pages |-> IF pages[i].key = key THEN new ELSE pages[i]]
<1>1. new \in Translation!Data
  BY DEF Translation!Data
<1> HIDE DEF new
<1>2. DOMAIN pages = 1 .. Len(pages) /\ Len(pages) \in Nat /\ \A i \in DOMAIN pages : pages[i] \in Translation!Data
  OBVIOUS
<1>3. all = replaced \/ all = Append(pages, new)
  BY DEF Translation!Keep, new
<1>4. all \in Seq(Translation!Data)
      /\ \A e \in Translation!ToSet(all) : e \in Translation!ToSet(pages) \/ e = new
  <2>1. CASE all = replaced
    <3>1. replaced \in [1 .. Len(pages) -> Translation!Data]
      BY <1>1, <1>2
    <3>2. replaced \in Seq(Translation!Data) /\ DOMAIN replaced = DOMAIN pages
      BY <1>2, <3>1
    <3>3. \A i \in DOMAIN replaced : replaced[i] = new \/ replaced[i] = pages[i]
      OBVIOUS
    <3> HIDE DEF replaced
    <3>4. \A e \in Translation!ToSet(replaced) : e \in Translation!ToSet(pages) \/ e = new
      BY <3>2, <3>3 DEF Translation!ToSet
    <3> QED BY <2>1, <3>2, <3>4
  <2>2. CASE all = Append(pages, new)
    <3>1. Append(pages, new) \in Seq(Translation!Data)
          /\ Translation!ToSet(Append(pages, new)) = Translation!ToSet(pages) \cup {new}
      BY <1>1, AddedSet
    <3> QED BY <2>2, <3>1
  <2> QED BY <1>3, <2>1, <2>2
<1> HIDE DEF all
<1>5. CASE p = all
  BY <1>4, <1>5 DEF new
<1>6. CASE p = Tail(all) /\ Len(all) > KeptPages
  <2>1. KeptPages \in Nat /\ Len(all) \in Nat /\ DOMAIN all = 1 .. Len(all)
    BY <1>4 DEF Translation!TranslationAssumption
  <2>2. Len(all) # 0
    BY <1>6, <2>1
  <2>3. /\ p \in Seq(Translation!Data) /\ DOMAIN p = 1 .. Len(all) - 1
        /\ \A i \in 1 .. Len(all) - 1 : p[i] = all[i + 1]
    BY <1>4, <1>6, <2>1, <2>2
  <2>4. \A i \in DOMAIN p : i + 1 \in DOMAIN all /\ p[i] = all[i + 1]
    BY <2>1, <2>3
  <2>5. \A e \in Translation!ToSet(p) : e \in Translation!ToSet(all)
    BY <2>4 DEF Translation!ToSet
  <2> QED BY <1>4, <2>3, <2>5 DEF new
<1> QED BY <1>5, <1>6 DEF Translation!EvictOldest, all

\* A call ends: it gives up its key, the key in flight and the spinner.
LEMMA SettleSteps ==
    ASSUME Translation!TranslationAssumption, TranslationInv, NEW n \in DOMAIN runs,
           runs[n].stage # "settled",
           NEW r \in PageCall, r.key = runs[n].key, r.reader = runs[n].reader, r.owned = runs[n].owned,
           NEW rs, SomeAborted(runs, rs), NEW v \in Panel, NEW c \in Caches,
           c.inFlight = kept.inFlight, c.sequence = kept.sequence, kept.parts \subseteq c.parts,
           PagesAreWhole(reader, c), ~reader.mounted => v = view /\ c.pages = kept.pages,
           v.busy = view.busy,
           \/ /\ v.data = view.data /\ v.dataKey = view.dataKey
              /\ ~Translation!IsCurrent(r) \/ (1 .. Parts) \ r.have # {}
           \/ /\ v.data = [key |-> r.key, has |-> Translation!Whole] /\ v.dataKey = r.key
              /\ Translation!IsCurrent(r) /\ WholeIn(reader, c, r.key),
           \/ v.partial \in {view.partial, Nothing}
           \/ v.partial = r.key /\ Translation!IsCurrent(r) /\ kept.inFlight = r.key,
           Translation!Settle(n, r, rs, v, c), UNCHANGED <<reader, analysis>>,
           JobsAre(registry', runs), Follows(registry, registry', runs)
    PROVE  TranslationInv' /\ Translation!TerminalStep
<1> DEFINE key == Translation!KeyOf(reader)
           ended == [r EXCEPT !.stage = "settled", !.owned = FALSE]
<1>0. /\ reader \in ReaderState /\ view \in Panel /\ kept \in Caches /\ runs \in Seq(PageCall)
      /\ ReaderHolds(reader, view, kept, runs) /\ PanelShows(reader, view, kept, runs)
      /\ AnalysisHolds(reader, kept, analysis) /\ JobsAre(registry, runs)
  BY ReaderFields DEF TranslationInv
<1>1. /\ runs' = [rs EXCEPT ![n] = ended]
      /\ kept' = IF r.owned /\ Translation!Mine(r) /\ c.inFlight = r.key
                 THEN [c EXCEPT !.inFlight = Nothing] ELSE c
      /\ view' = IF Translation!IsCurrent(r) THEN [v EXCEPT !.busy = FALSE] ELSE v
  BY Zenon DEF Translation!Settle
<1>2. Translation!IsCurrent(r) <=> Owns(reader, r) /\ r.key = key
  BY DEF Translation!IsCurrent, Translation!Mine, Translation!CurrentKey, Owns
<1>3. (r.owned /\ Translation!Mine(r)) <=> Owns(reader, r)
  BY DEF Translation!Mine, Owns
<1>4. Owns(reader, r) <=> Owns(reader, runs[n])
  BY DEF Owns
<1>5. /\ ended \in PageCall /\ ended.key = r.key /\ ended.reader = r.reader /\ ended.have = r.have
      /\ ended.stage = "settled" /\ ~ended.owned
  BY DEF PageCall
<1>6. key \in Translation!Keys /\ key # Nothing /\ r.key # Nothing
  BY <1>0, KeyIs DEF PageCall, Translation!TranslationAssumption
<1> HIDE DEF key, ended
<1>7. /\ runs' \in Seq(PageCall) /\ Len(runs') = Len(runs) /\ DOMAIN runs' = DOMAIN runs
      /\ runs'[n] = ended /\ \A m \in DOMAIN runs : m # n => runs'[m] = rs[m]
  BY <1>1, <1>5 DEF SomeAborted
<1>8. \A m \in DOMAIN runs : m # n =>
        /\ runs'[m].key = runs[m].key /\ runs'[m].reader = runs[m].reader
        /\ runs'[m].stage = runs[m].stage /\ runs'[m].have = runs[m].have
        /\ runs'[m].owned = runs[m].owned
  BY <1>7 DEF SomeAborted
<1>9. /\ kept' \in Caches /\ kept'.pages = c.pages /\ kept'.parts = c.parts
      /\ kept'.sequence = kept.sequence
      /\ IF Owns(reader, r) /\ kept.inFlight = r.key THEN kept'.inFlight = Nothing
         ELSE kept'.inFlight = kept.inFlight
  BY <1>1, <1>3 DEF Caches
<1>10. /\ view' \in Panel /\ view'.data = v.data /\ view'.dataKey = v.dataKey
       /\ view'.partial = v.partial
       /\ IF Translation!IsCurrent(r) THEN ~view'.busy ELSE view'.busy = view.busy
       /\ ~Translation!IsCurrent(r) => view' = v
  BY <1>1 DEF Panel
<1>11. FlightIsCall(reader, kept', runs')
  <2> SUFFICES ASSUME kept'.inFlight # Nothing
               PROVE  \E m \in DOMAIN runs' : /\ Owns(reader, runs'[m]) /\ runs'[m].stage # "settled"
                                              /\ runs'[m].key = kept'.inFlight
    BY DEF FlightIsCall
  <2>1. kept'.inFlight = kept.inFlight /\ ~(Owns(reader, r) /\ kept.inFlight = r.key)
    BY <1>9
  <2>2. PICK m \in DOMAIN runs : /\ Owns(reader, runs[m]) /\ runs[m].stage # "settled"
                                 /\ runs[m].key = kept.inFlight
    BY <1>0, <2>1, Zenon DEF ReaderHolds, FlightIsCall
  <2>3. m # n
    BY <1>4, <2>1, <2>2
  <2>4. Owns(reader, runs'[m])
    BY <1>8, <2>2, <2>3 DEF Owns
  <2> QED BY <1>7, <1>8, <2>1, <2>2, <2>3, <2>4
<1>12. CallsAreKept(reader, kept', runs')
  <2> SUFFICES ASSUME NEW m \in DOMAIN runs
               PROVE  /\ runs'[m].stage # "settled" => (1 .. Parts) \ runs'[m].have # {}
                      /\ Owns(reader, runs'[m]) =>
                           \A k \in runs'[m].have : Translation!Part(runs'[m], k) \in kept'.parts
    BY <1>7, Zenon DEF CallsAreKept
  <2>1. CASE m = n
    BY <1>5, <1>7, <2>1 DEF Owns
  <2>2. CASE m # n
    <3>1. Owns(reader, runs'[m]) <=> Owns(reader, runs[m])
      BY <1>8, <2>2 DEF Owns
    <3>2. \A k : Translation!Part(runs'[m], k) = Translation!Part(runs[m], k)
      BY <1>8, <2>2 DEF Translation!Part
    <3>3. /\ runs[m].stage # "settled" => (1 .. Parts) \ runs[m].have # {}
          /\ Owns(reader, runs[m]) => \A k \in runs[m].have : Translation!Part(runs[m], k) \in kept.parts
      BY <1>0, Zenon DEF ReaderHolds, CallsAreKept
    <3> QED BY <1>8, <1>9, <2>2, <3>1, <3>2, <3>3
  <2> QED BY <2>1, <2>2
<1>13. \A k : (WholeIn(reader, kept, k) => WholeIn(reader, kept', k))
              /\ (WholeIn(reader, c, k) <=> WholeIn(reader, kept', k))
  BY <1>9 DEF WholeIn
<1>14. PagesAreWhole(reader, kept')
  BY <1>9, <1>13, Zenon DEF PagesAreWhole
<1>15. PanelIsKeyed(view', kept')
  <2>1. PanelIsKeyed(view, kept)
    BY <1>0 DEF ReaderHolds
  <2>2. view'.data # Nothing => view'.data.key = view'.dataKey
    BY <1>10, <2>1 DEF PanelIsKeyed
  <2>3. view'.partial # Nothing /\ kept'.inFlight # Nothing => view'.partial = kept'.inFlight
    BY <1>9, <1>10, <2>1 DEF PanelIsKeyed
  <2> QED BY <2>2, <2>3 DEF PanelIsKeyed
<1>16. ShownIsWhole(reader, view', kept')
  <2>1. CASE v.data = view.data
    BY <1>0, <1>10, <1>13, <2>1 DEF ReaderHolds, ShownIsWhole
  <2>2. CASE v.data = [key |-> r.key, has |-> Translation!Whole] /\ WholeIn(reader, c, r.key)
    BY <1>10, <1>13, <2>2 DEF ShownIsWhole
  <2> QED BY <2>1, <2>2
<1>17. GoneIsEmpty(reader, view', kept')
  <2>1. ~reader.mounted => ~Translation!IsCurrent(r)
    BY <1>2 DEF Owns
  <2> QED BY <1>0, <1>9, <1>10, <2>1 DEF ReaderHolds, GoneIsEmpty
<1>18. \A m \in DOMAIN runs' : runs'[m].reader <= reader.number
  BY <1>0, <1>5, <1>7, <1>8 DEF ReaderHolds
<1>19. ReaderHolds(reader, view', kept', runs')
  BY <1>0, <1>7, <1>9, <1>10, <1>11, <1>12, <1>14, <1>15, <1>16, <1>17, <1>18 DEF ReaderHolds
<1>20. PanelShows(reader, view', kept', runs')
  <2> SUFFICES ASSUME reader.mounted, reader.settled, reader.open, reader.text # Nothing
               PROVE  PanelShows(reader, view', kept', runs')
    BY DEF PanelShows
  <2>1. ASSUME view'.data # Nothing, view'.data.key # key
        PROVE  \E m \in DOMAIN runs' : /\ runs'[m].reader = reader.number /\ runs'[m].key = key
                                       /\ (1 .. Parts) \ runs'[m].have # {}
                                       /\ runs'[m].stage # "settled" => runs'[m].owned
    <3>1. v.data = view.data /\ (~Translation!IsCurrent(r) \/ (1 .. Parts) \ r.have # {})
      BY <1>2, <1>10, <2>1
    <3>2. PICK m \in DOMAIN runs : /\ runs[m].reader = reader.number /\ runs[m].key = key
                                   /\ (1 .. Parts) \ runs[m].have # {}
                                   /\ runs[m].stage # "settled" => runs[m].owned
      BY <1>0, <1>10, <2>1, <3>1, Zenon DEF PanelShows, key
    <3>3. CASE m = n
      <4>1. Translation!IsCurrent(r)
        BY <1>2, <1>4, <3>2, <3>3 DEF Owns
      <4> QED BY <1>5, <1>7, <3>1, <3>2, <3>3, <4>1
    <3>4. CASE m # n
      BY <1>7, <1>8, <3>2, <3>4
    <3> QED BY <3>3, <3>4
  <2>2. ASSUME view'.data = Nothing
        PROVE  /\ view'.partial # Nothing => view'.partial = key
               /\ view'.busy => kept'.inFlight = key
               /\ \E m \in DOMAIN runs' : runs'[m].reader = reader.number /\ runs'[m].key = key
    <3>1. view.data = Nothing
      <4>1. [key |-> r.key, has |-> Translation!Whole] # Nothing
        <5>1. [key |-> r.key, has |-> Translation!Whole] \in Translation!Data
          BY DEF PageCall, Translation!Data
        <5> QED BY <5>1 DEF Translation!TranslationAssumption
      <4> QED BY <1>10, <2>2, <4>1
    <3>2. /\ view.partial # Nothing => view.partial = key
          /\ view.busy => kept.inFlight = key
          /\ \E m \in DOMAIN runs : runs[m].reader = reader.number /\ runs[m].key = key
      BY <1>0, <3>1, Zenon DEF PanelShows, key
    <3>3. view'.partial # Nothing => view'.partial = key
      BY <1>2, <1>10, <3>2
    <3>4. view'.busy => kept'.inFlight = key
      <4> SUFFICES ASSUME view'.busy PROVE kept'.inFlight = key
        OBVIOUS
      <4>1. ~Translation!IsCurrent(r) /\ view.busy
        BY <1>10
      <4> QED BY <1>2, <1>9, <3>2, <4>1
    <3>5. \E m \in DOMAIN runs' : runs'[m].reader = reader.number /\ runs'[m].key = key
      BY <1>5, <1>7, <1>8, <3>2
    <3> QED BY <3>3, <3>4, <3>5
  <2> QED BY <2>1, <2>2, Zenon DEF PanelShows, key
<1>21. AnalysisHolds(reader, kept', analysis)
  BY <1>0, <1>9, AnalysisStays
<1>22. JobsAre(registry', runs')
  BY <1>7 DEF JobsAre
<1>23. Translation!TerminalStep
  BY <1>0, OverStays
<1> QED BY <1>19, <1>20, <1>21, <1>22, <1>23, Zenon DEF TranslationInv

\* A partial translation is shown of the page that is read, while its own call is in flight.
LEMMA PartialIs ==
    ASSUME TranslationInv, NEW r \in PageCall, NEW v, v \in {view, Translation!WithPartial(r)}
    PROVE  /\ v \in Panel /\ v.data = view.data /\ v.dataKey = view.dataKey /\ v.busy = view.busy
           /\ v.failed = view.failed
           /\ \/ v.partial = view.partial
              \/ v.partial = r.key /\ Translation!IsCurrent(r) /\ kept.inFlight = r.key
           /\ ~reader.mounted => v = view
<1>1. view \in Panel
  BY ReaderFields
<1>2. CASE v = view
  BY <1>1, <1>2
<1>3. CASE Translation!Publishes(r) /\ v = [view EXCEPT !.partial = r.key]
  <2>1. Translation!IsCurrent(r) /\ kept.inFlight = r.key
    BY <1>3, Zenon DEF Translation!Publishes
  <2>2. reader.mounted
    BY <2>1, Zenon DEF Translation!IsCurrent, Translation!Mine
  <2>3. r.key \in Translation!Keys
    BY DEF PageCall
  <2> QED BY <1>1, <1>3, <2>1, <2>2, <2>3 DEF Panel
<1> QED BY <1>2, <1>3, Zenon DEF Translation!WithPartial

\* A call goes on, with a part more or none.
LEMMA CallGoesOn ==
    ASSUME Translation!TranslationAssumption, TranslationInv, NEW n \in DOMAIN runs,
           runs[n].stage # "settled",
           NEW r \in PageCall, r.key = runs[n].key, r.reader = runs[n].reader, r.owned = runs[n].owned,
           r.stage # "settled", (1 .. Parts) \ r.have # {},
           runs' = [runs EXCEPT ![n] = r], kept' \in Caches,
           kept'.inFlight = kept.inFlight, kept'.sequence = kept.sequence, kept'.pages = kept.pages,
           kept.parts \subseteq kept'.parts,
           Owns(reader, r) => \A i \in r.have : Translation!Part(r, i) \in kept'.parts,
           view' \in {view, Translation!WithPartial(runs[n])}, UNCHANGED <<reader, analysis>>,
           JobsAre(registry', runs), Follows(registry, registry', runs)
    PROVE  TranslationInv' /\ Translation!TerminalStep
<1> DEFINE key == Translation!KeyOf(reader)
<1>0. /\ reader \in ReaderState /\ view \in Panel /\ kept \in Caches /\ runs \in Seq(PageCall)
      /\ ReaderHolds(reader, view, kept, runs) /\ PanelShows(reader, view, kept, runs)
      /\ AnalysisHolds(reader, kept, analysis) /\ JobsAre(registry, runs)
  BY ReaderFields DEF TranslationInv
<1>1. /\ view' \in Panel /\ view'.data = view.data /\ view'.dataKey = view.dataKey
      /\ view'.busy = view.busy
      /\ \/ view'.partial = view.partial
         \/ /\ view'.partial = r.key /\ Translation!IsCurrent(runs[n])
            /\ kept.inFlight = r.key
      /\ ~reader.mounted => view' = view
  <2>1. runs[n] \in PageCall
    BY <1>0
  <2> QED BY <2>1, PartialIs
<1>2. Translation!IsCurrent(runs[n]) => r.key = key
  BY DEF Translation!IsCurrent, Translation!CurrentKey
<1>3. r.key # Nothing
  BY DEF PageCall, Translation!TranslationAssumption
<1> HIDE DEF key
<1>4. /\ runs' \in Seq(PageCall) /\ Len(runs') = Len(runs) /\ DOMAIN runs' = DOMAIN runs
      /\ runs'[n] = r /\ \A m \in DOMAIN runs : m # n => runs'[m] = runs[m]
  BY <1>0
<1>5. \A m \in DOMAIN runs : /\ runs'[m].key = runs[m].key /\ runs'[m].reader = runs[m].reader
                             /\ runs'[m].owned = runs[m].owned
                             /\ runs'[m].stage = "settled" <=> runs[m].stage = "settled"
  BY <1>4
<1>6. \A m \in DOMAIN runs : Owns(reader, runs'[m]) <=> Owns(reader, runs[m])
  BY <1>5 DEF Owns
<1>7. FlightIsCall(reader, kept', runs')
  BY <1>0, <1>4, <1>5, <1>6, Zenon DEF ReaderHolds, FlightIsCall
<1>8. CallsAreKept(reader, kept', runs')
  <2> SUFFICES ASSUME NEW m \in DOMAIN runs
               PROVE  /\ runs'[m].stage # "settled" => (1 .. Parts) \ runs'[m].have # {}
                      /\ Owns(reader, runs'[m]) =>
                           \A k \in runs'[m].have : Translation!Part(runs'[m], k) \in kept'.parts
    BY <1>4, Zenon DEF CallsAreKept
  <2>1. CASE m = n
    BY <1>4, <2>1
  <2>2. CASE m # n
    <3>1. /\ runs[m].stage # "settled" => (1 .. Parts) \ runs[m].have # {}
          /\ Owns(reader, runs[m]) => \A k \in runs[m].have : Translation!Part(runs[m], k) \in kept.parts
      BY <1>0, Zenon DEF ReaderHolds, CallsAreKept
    <3> QED BY <1>4, <2>2, <3>1
  <2> QED BY <2>1, <2>2
<1>9. \A k : WholeIn(reader, kept, k) => WholeIn(reader, kept', k)
  BY DEF WholeIn
<1>10. PagesAreWhole(reader, kept') /\ ShownIsWhole(reader, view', kept')
  BY <1>0, <1>1, <1>9, Zenon DEF ReaderHolds, PagesAreWhole, ShownIsWhole
<1>11. PanelIsKeyed(view', kept')
  BY <1>0, <1>1 DEF ReaderHolds, PanelIsKeyed
<1>12. GoneIsEmpty(reader, view', kept')
  BY <1>0, <1>1, Zenon DEF ReaderHolds, GoneIsEmpty
<1>13. \A m \in DOMAIN runs' : runs'[m].reader <= reader.number
  BY <1>0, <1>4, <1>5 DEF ReaderHolds
<1>14. ReaderHolds(reader, view', kept', runs')
  BY <1>0, <1>1, <1>4, <1>7, <1>8, <1>10, <1>11, <1>12, <1>13 DEF ReaderHolds
<1>15. PanelShows(reader, view', kept', runs')
  <2> SUFFICES ASSUME reader.mounted, reader.settled, reader.open, reader.text # Nothing
               PROVE  PanelShows(reader, view', kept', runs')
    BY DEF PanelShows
  <2>1. ASSUME view'.data # Nothing, view'.data.key # key
        PROVE  \E m \in DOMAIN runs' : /\ runs'[m].reader = reader.number /\ runs'[m].key = key
                                       /\ (1 .. Parts) \ runs'[m].have # {}
                                       /\ runs'[m].stage # "settled" => runs'[m].owned
    <3>1. PICK m \in DOMAIN runs : /\ runs[m].reader = reader.number /\ runs[m].key = key
                                   /\ (1 .. Parts) \ runs[m].have # {}
                                   /\ runs[m].stage # "settled" => runs[m].owned
      BY <1>0, <1>1, <2>1, Zenon DEF PanelShows, key
    <3>2. (1 .. Parts) \ runs'[m].have # {}
      BY <1>4, <3>1
    <3> QED BY <1>4, <1>5, <3>1, <3>2
  <2>2. ASSUME view'.data = Nothing
        PROVE  /\ view'.partial # Nothing => view'.partial = key
               /\ view'.busy => kept'.inFlight = key
               /\ \E m \in DOMAIN runs' : runs'[m].reader = reader.number /\ runs'[m].key = key
    <3>1. /\ view.partial # Nothing => view.partial = key
          /\ view.busy => kept.inFlight = key
          /\ \E m \in DOMAIN runs : runs[m].reader = reader.number /\ runs[m].key = key
      BY <1>0, <1>1, <2>2, Zenon DEF PanelShows, key
    <3> QED BY <1>1, <1>2, <1>4, <1>5, <3>1
  <2> QED BY <2>1, <2>2, Zenon DEF PanelShows, key
<1>16. AnalysisHolds(reader, kept', analysis)
  BY <1>0, AnalysisStays
<1>17. JobsAre(registry', runs')
  BY <1>4 DEF JobsAre
<1>18. Translation!TerminalStep
  BY <1>0, OverStays
<1> QED BY <1>14, <1>15, <1>16, <1>17, <1>18, Zenon DEF TranslationInv

\* The changes of one job.
LEMMA JobSteps ==
    ASSUME Translation!TranslationAssumption, NEW rs, NEW jobs, JobsAre(jobs, rs), NEW id, NEW p,
           \/ \E done \in Nat : p = Translation!Progress(jobs, id, done)
           \/ p = Translation!Complete(jobs, id) \/ p = Translation!Fail(jobs, id)
           \/ p = Translation!Cancel(jobs, {id})
    PROVE  JobsAre(p, rs) /\ Follows(jobs, p, rs)
<1>1. Parts \in Nat
  BY DEF Translation!TranslationAssumption
<1>2. PICK status \in Translation!Terminal \cup {"running"}, done \in Nat \cup {Nothing} :
        p = Translation!Touch(jobs, {id}, status, done)
  BY <1>1 DEF Translation!Progress, Translation!Complete, Translation!Fail, Translation!Cancel,
              Translation!Terminal
<1> QED BY <1>2, TouchSteps

LEMMA SucceedSteps ==
    ASSUME Translation!TranslationAssumption, TranslationInv, NEW n \in DOMAIN runs,
           runs[n].stage # "settled",
           NEW r \in PageCall, r.key = runs[n].key, r.reader = runs[n].reader, r.owned = runs[n].owned,
           ~r.aborted, NEW c \in Caches,
           c.inFlight = kept.inFlight, c.sequence = kept.sequence, c.pages = kept.pages,
           kept.parts \subseteq c.parts, Owns(reader, r) => WholeIn(reader, c, r.key),
           Translation!Succeed(n, r, c), UNCHANGED <<reader, analysis>>
    PROVE  TranslationInv' /\ Translation!TerminalStep
<1> DEFINE jobs == Translation!Progress(registry, r.id, Parts)
           shown == [view EXCEPT !.data = [key |-> r.key, has |-> Translation!Whole],
                                 !.dataKey = r.key, !.partial = Nothing]
           cached == Translation!EvictOldest(Translation!Keep(c.pages, r.key, Translation!Whole))
           v == IF r.owned /\ Translation!IsCurrent(r) THEN shown ELSE view
           d == IF r.owned /\ Translation!Mine(r) THEN [c EXCEPT !.pages = cached] ELSE c
<1>0. /\ reader \in ReaderState /\ view \in Panel /\ kept \in Caches /\ runs \in Seq(PageCall)
      /\ ReaderHolds(reader, view, kept, runs) /\ JobsAre(registry, runs)
  BY ReaderFields DEF TranslationInv
<1>1. /\ registry' = IF r.owned THEN Translation!Complete(jobs, r.id) ELSE jobs
      /\ Translation!Settle(n, r, runs, v, d)
  BY DEF Translation!Succeed
<1>2. JobsAre(registry', runs) /\ Follows(registry, registry', runs)
  <2>1. \E done \in Nat : jobs = Translation!Progress(registry, r.id, done)
    BY DEF Translation!TranslationAssumption
  <2> HIDE DEF jobs
  <2>2. JobsAre(jobs, runs) /\ Follows(registry, jobs, runs)
    BY <1>0, <2>1, JobSteps
  <2>3. CASE registry' = jobs
    BY <2>2, <2>3
  <2>4. CASE registry' = Translation!Complete(jobs, r.id)
    <3>1. JobsAre(registry', runs) /\ Follows(jobs, registry', runs)
      BY <2>2, <2>4, JobSteps
    <3> QED BY <2>2, <3>1, FollowsOn, Zenon DEF JobsAre
  <2> QED BY <1>1, <2>3, <2>4
<1> HIDE DEF jobs
<1>3. /\ Translation!IsCurrent(r) => Owns(reader, r) /\ r.owned /\ reader.mounted
      /\ r.owned /\ Translation!Mine(r) => Owns(reader, r) /\ reader.mounted
  BY DEF Translation!IsCurrent, Translation!Mine, Owns
<1>4. r.key \in Translation!Keys /\ [key |-> r.key, has |-> Translation!Whole] \in Translation!Data
  BY DEF PageCall, Translation!Data
<1>5. /\ cached \in Seq(Translation!Data)
      /\ \A e \in Translation!ToSet(cached) :
           e \in Translation!ToSet(c.pages) \/ e = [key |-> r.key, has |-> Translation!Whole]
  <2>1. c.pages \in Seq(Translation!Data)
    BY DEF Caches
  <2>2. Translation!Whole \in SUBSET (Translation!Whole \cup Translation!Notes)
    OBVIOUS
  <2> QED BY <1>4, <2>1, <2>2, KeepSteps
<1> HIDE DEF cached
<1>6. /\ d \in Caches /\ d.inFlight = c.inFlight /\ d.sequence = c.sequence /\ d.parts = c.parts
      /\ d.pages = IF r.owned /\ Translation!Mine(r) THEN cached ELSE c.pages
  BY <1>5 DEF Caches
<1>7. /\ v \in Panel /\ v.busy = view.busy
      /\ IF Translation!IsCurrent(r)
         THEN /\ v.data = [key |-> r.key, has |-> Translation!Whole] /\ v.dataKey = r.key
              /\ v.partial = Nothing
         ELSE v = view
  <2>1. CASE Translation!IsCurrent(r)
    <3>1. v = shown
      BY <1>3, <2>1
    <3> QED BY <1>0, <1>4, <2>1, <3>1 DEF Panel
  <2>2. CASE ~Translation!IsCurrent(r)
    BY <1>0, <2>2
  <2> QED BY <2>1, <2>2
<1> HIDE DEF v, d
<1>8. \A k : (WholeIn(reader, kept, k) => WholeIn(reader, d, k))
             /\ (WholeIn(reader, c, k) <=> WholeIn(reader, d, k))
  BY <1>6 DEF WholeIn
<1>9. PagesAreWhole(reader, d)
  <2> SUFFICES ASSUME NEW e \in Translation!ToSet(d.pages), "translation" \in e.has
               PROVE  WholeIn(reader, d, e.key)
    BY Zenon DEF PagesAreWhole
  <2>1. CASE e \in Translation!ToSet(kept.pages)
    BY <1>0, <1>8, <2>1, Zenon DEF ReaderHolds, PagesAreWhole
  <2>2. CASE e = [key |-> r.key, has |-> Translation!Whole] /\ r.owned /\ Translation!Mine(r)
    BY <1>3, <1>8, <2>2
  <2> QED BY <1>5, <1>6, <2>1, <2>2
<1>10. ~reader.mounted => v = view /\ d.pages = kept.pages
  BY <1>3, <1>6, <1>7
<1>11. \/ /\ v.data = view.data /\ v.dataKey = view.dataKey
          /\ ~Translation!IsCurrent(r) \/ (1 .. Parts) \ r.have # {}
       \/ /\ v.data = [key |-> r.key, has |-> Translation!Whole] /\ v.dataKey = r.key
          /\ Translation!IsCurrent(r) /\ WholeIn(reader, d, r.key)
  BY <1>3, <1>7, <1>8
<1>12. v.partial \in {view.partial, Nothing}
  BY <1>7
<1>13. SomeAborted(runs, runs)
  BY <1>0 DEF SomeAborted
<1>14. d.inFlight = kept.inFlight /\ d.sequence = kept.sequence /\ kept.parts \subseteq d.parts
  BY <1>6
<1> QED BY <1>1, <1>2, <1>6, <1>7, <1>9, <1>10, <1>11, <1>12, <1>13, <1>14, SettleSteps

LEMMA RejectSteps ==
    ASSUME Translation!TranslationAssumption, TranslationInv, NEW n \in DOMAIN runs,
           runs[n].stage # "settled", NEW jobs, JobsAre(jobs, runs), Follows(registry, jobs, runs),
           NEW u, u \in {view, Translation!WithPartial(runs[n])},
           Translation!Reject(n, runs[n], jobs, u), UNCHANGED <<reader, analysis>>
    PROVE  TranslationInv' /\ Translation!TerminalStep
<1> DEFINE r == runs[n]
           rs == IF r.aborted THEN Translation!Aborting(runs, jobs, {r.id}) ELSE runs
           v == IF Translation!IsCurrent(r) /\ ~r.aborted THEN [u EXCEPT !.failed = TRUE] ELSE u
<1>0. /\ reader \in ReaderState /\ view \in Panel /\ kept \in Caches /\ runs \in Seq(PageCall)
      /\ ReaderHolds(reader, view, kept, runs) /\ JobsAre(registry, runs) /\ r \in PageCall
  BY ReaderFields DEF TranslationInv
<1>1. /\ registry' = IF r.aborted THEN Translation!Cancel(jobs, {r.id}) ELSE Translation!Fail(jobs, r.id)
      /\ Translation!Settle(n, r, rs, v, kept)
  BY DEF Translation!Reject
<1>2. JobsAre(registry', runs) /\ Follows(registry, registry', runs)
  <2>1. JobsAre(registry', runs) /\ Follows(jobs, registry', runs)
    BY <1>1, JobSteps
  <2> QED BY <2>1, FollowsOn, Zenon DEF JobsAre
<1>3. SomeAborted(runs, rs)
  <2>1. SomeAborted(runs, runs)
    BY <1>0 DEF SomeAborted
  <2>2. SomeAborted(runs, Translation!Aborting(runs, jobs, {r.id}))
    BY <1>0, AbortingSteps
  <2> QED BY <2>1, <2>2
<1>4. /\ u \in Panel /\ u.data = view.data /\ u.dataKey = view.dataKey /\ u.busy = view.busy
      /\ \/ u.partial = view.partial
         \/ u.partial = r.key /\ Translation!IsCurrent(r) /\ kept.inFlight = r.key
      /\ ~reader.mounted => u = view
  BY <1>0, PartialIs
<1>5. Translation!IsCurrent(r) => reader.mounted
  BY DEF Translation!IsCurrent, Translation!Mine
<1>6. /\ v \in Panel /\ v.data = view.data /\ v.dataKey = view.dataKey /\ v.busy = view.busy
      /\ v.partial = u.partial /\ (~reader.mounted => v = view)
  BY <1>4, <1>5 DEF Panel
<1>7. (1 .. Parts) \ r.have # {}
  BY <1>0, Zenon DEF ReaderHolds, CallsAreKept
<1>8. PagesAreWhole(reader, kept)
  BY <1>0 DEF ReaderHolds
<1> HIDE DEF rs, v
<1>9. \/ v.partial \in {view.partial, Nothing}
      \/ v.partial = r.key /\ Translation!IsCurrent(r) /\ kept.inFlight = r.key
  BY <1>4, <1>6
<1> QED BY <1>0, <1>1, <1>2, <1>3, <1>6, <1>7, <1>8, <1>9, SettleSteps

\* The parts a call has are a number of parts.
LEMMA PartsCount ==
    ASSUME Translation!TranslationAssumption, NEW S \in SUBSET (1 .. Parts)
    PROVE  Translation!Cardinality(S) \in Nat
<1>1. Translation!Cardinality(S) = Cardinality(S)
  BY Zenon DEF Translation!Cardinality, Cardinality
<1>2. Parts \in Nat
  BY DEF Translation!TranslationAssumption
<1>3. IsFiniteSet(1 .. Parts)
  BY <1>2, FS_Interval
<1> QED BY <1>1, <1>3, FS_Subset, FS_CardinalityType

LEMMA ContextSteps ==
    ASSUME Translation!TranslationAssumption, TranslationInv, NEW n \in DOMAIN runs,
           Translation!ContextRead(n)
    PROVE  TranslationInv' /\ Translation!TerminalStep
<1> DEFINE r == runs[n]
           found == {i \in 1 .. Parts : Translation!Part(r, i) \in kept.parts}
           ready == [r EXCEPT !.stage = "parts", !.have = found]
<1>0. /\ kept \in Caches /\ runs \in Seq(PageCall) /\ r \in PageCall /\ JobsAre(registry, runs)
  BY ReaderFields DEF TranslationInv
<1>1. /\ r.stage = "context" /\ UNCHANGED <<reader, analysis>>
      /\ \/ r.aborted /\ Translation!Reject(n, r, registry, view)
         \/ ~r.aborted /\ found = 1 .. Parts /\ Translation!Succeed(n, ready, kept)
         \/ /\ ~r.aborted /\ found # 1 .. Parts
            /\ runs' = [runs EXCEPT ![n] = ready]
            /\ registry' = Translation!Progress(registry, r.id, Translation!Cardinality(found))
            /\ view' = IF 1 \in found THEN Translation!WithPartial(r) ELSE view
            /\ UNCHANGED kept
  BY Zenon DEF Translation!ContextRead
<1>2. /\ ready \in PageCall /\ ready.key = r.key /\ ready.reader = r.reader /\ ready.owned = r.owned
      /\ ready.stage = "parts" /\ ready.have = found /\ ready.aborted = r.aborted
  BY <1>0 DEF PageCall
<1>3. \A i : Translation!Part(ready, i) = Translation!Part(r, i)
  BY <1>2 DEF Translation!Part
<1>4. \A i \in found : i \in 1 .. Parts /\ Translation!Part(ready, i) \in kept.parts
  BY <1>3
<1>5. CASE r.aborted /\ Translation!Reject(n, r, registry, view)
  <2>1. Follows(registry, registry, runs)
    BY SameFollows
  <2> HIDE DEF found, ready
  <2> QED BY <1>0, <1>1, <1>5, <2>1, RejectSteps
<1>6. CASE ~r.aborted /\ found = 1 .. Parts /\ Translation!Succeed(n, ready, kept)
  <2>1. Owns(reader, ready) => WholeIn(reader, kept, ready.key)
    BY <1>4, <1>6 DEF WholeIn, Owns, Translation!Part
  <2> HIDE DEF found, ready
  <2> QED BY <1>0, <1>1, <1>2, <1>6, <2>1, SucceedSteps
<1>7. CASE /\ ~r.aborted /\ found # 1 .. Parts
           /\ runs' = [runs EXCEPT ![n] = ready]
           /\ registry' = Translation!Progress(registry, r.id, Translation!Cardinality(found))
           /\ view' = IF 1 \in found THEN Translation!WithPartial(r) ELSE view
           /\ UNCHANGED kept
  <2>1. (1 .. Parts) \ found # {}
    BY <1>7
  <2>2. Translation!Cardinality(found) \in Nat
    BY PartsCount
  <2>3. JobsAre(registry', runs) /\ Follows(registry, registry', runs)
    BY <1>0, <1>7, <2>2, JobSteps
  <2> HIDE DEF found, ready
  <2>4. \A i \in ready.have : Translation!Part(ready, i) \in kept'.parts
    BY <1>2, <1>4, <1>7
  <2> QED BY <1>0, <1>1, <1>2, <1>7, <2>1, <2>3, <2>4, CallGoesOn
<1> QED BY <1>1, <1>5, <1>6, <1>7

LEMMA StreamSteps ==
    ASSUME Translation!TranslationAssumption, TranslationInv, NEW n \in DOMAIN runs,
           Translation!StreamArrives(n)
    PROVE  TranslationInv' /\ Translation!TerminalStep
<1> DEFINE r == runs[n]
<1>0. /\ kept \in Caches /\ runs \in Seq(PageCall) /\ r \in PageCall /\ JobsAre(registry, runs)
      /\ CallsAreKept(reader, kept, runs)
  BY ReaderFields DEF TranslationInv, ReaderHolds
<1>1. /\ r.stage = "parts" /\ view' = Translation!WithPartial(r)
      /\ UNCHANGED <<reader, kept, analysis, runs, registry>>
  BY Zenon DEF Translation!StreamArrives
<1>2. runs' = [runs EXCEPT ![n] = r]
  BY <1>0, <1>1
<1>3. /\ (1 .. Parts) \ r.have # {}
      /\ Owns(reader, r) => \A i \in r.have : Translation!Part(r, i) \in kept'.parts
  BY <1>0, <1>1 DEF CallsAreKept
<1>4. JobsAre(registry', runs) /\ Follows(registry, registry', runs)
  BY <1>0, <1>1, SameFollows
<1> QED BY <1>0, <1>1, <1>2, <1>3, <1>4, CallGoesOn

LEMMA PartSteps ==
    ASSUME Translation!TranslationAssumption, TranslationInv, NEW n \in DOMAIN runs,
           Translation!PartTranslated(n)
    PROVE  TranslationInv' /\ Translation!TerminalStep
<1> DEFINE r == runs[n]
           i == Translation!Min(Translation!Missing(r))
           more == [r EXCEPT !.have = @ \cup {i}]
           c == [kept EXCEPT !.parts = @ \cup {Translation!Part(r, i)}]
<1>0. /\ kept \in Caches /\ runs \in Seq(PageCall) /\ r \in PageCall /\ JobsAre(registry, runs)
      /\ CallsAreKept(reader, kept, runs)
  BY ReaderFields DEF TranslationInv, ReaderHolds
<1>1. /\ r.stage = "parts" /\ ~r.aborted /\ UNCHANGED <<reader, analysis>>
      /\ IF Translation!Missing(more) = {}
         THEN Translation!Succeed(n, more, c)
         ELSE /\ runs' = [runs EXCEPT ![n] = more]
              /\ kept' = c
              /\ view' = Translation!WithPartial(r)
              /\ registry' = Translation!Progress(registry, r.id, Translation!Cardinality(more.have))
  BY Zenon DEF Translation!PartTranslated
<1>2. i \in 1 .. Parts
  <2> DEFINE M == Translation!Missing(r)
  <2>1. M = (1 .. Parts) \ r.have
    BY DEF Translation!Missing
  <2>2. M # {}
    BY <1>0, <1>1, <2>1 DEF CallsAreKept
  <2>3. M \in SUBSET Nat
    BY <2>1
  <2>4. \E m \in M : \A k \in M : m <= k
    BY <2>2, <2>3, Least
  <2> HIDE DEF M
  <2>5. Translation!Min(M) \in M
    BY <2>4, Zenon DEF Translation!Min
  <2> QED BY <2>1, <2>5 DEF M
<1> HIDE DEF i
<1>3. /\ more \in PageCall /\ more.key = r.key /\ more.reader = r.reader /\ more.owned = r.owned
      /\ more.stage = "parts" /\ more.have = r.have \cup {i} /\ more.aborted = r.aborted
      /\ more.have \in SUBSET (1 .. Parts)
  BY <1>0, <1>1, <1>2 DEF PageCall
<1>4. \A k : Translation!Part(more, k) = Translation!Part(r, k)
  BY <1>3 DEF Translation!Part
<1>5. Translation!Part(r, i) \in PagePart
  <2>1. i \in Nat
    BY <1>2 DEF Translation!TranslationAssumption
  <2> QED BY <1>0, <2>1 DEF PageCall, PagePart, Translation!Part
<1>6. /\ c \in Caches /\ c.inFlight = kept.inFlight /\ c.sequence = kept.sequence
      /\ c.pages = kept.pages /\ c.parts = kept.parts \cup {Translation!Part(r, i)}
  BY <1>0, <1>5 DEF Caches
<1> HIDE DEF more, c
<1>7. Owns(reader, more) => \A k \in more.have : Translation!Part(more, k) \in c.parts
  <2>1. Owns(reader, more) <=> Owns(reader, r)
    BY <1>3 DEF Owns
  <2>2. Owns(reader, r) => \A k \in r.have : Translation!Part(r, k) \in kept.parts
    BY <1>0, Zenon DEF CallsAreKept
  <2> QED BY <1>3, <1>4, <1>6, <2>1, <2>2
<1>8. CASE Translation!Missing(more) = {} /\ Translation!Succeed(n, more, c)
  <2>1. \A k \in 1 .. Parts : k \in more.have
    BY <1>8 DEF Translation!Missing
  <2>2. Owns(reader, more) => WholeIn(reader, c, more.key)
    BY <1>7, <2>1 DEF WholeIn, Owns, Translation!Part
  <2> QED BY <1>1, <1>3, <1>6, <1>8, <2>2, SucceedSteps
<1>9. CASE /\ Translation!Missing(more) # {} /\ runs' = [runs EXCEPT ![n] = more] /\ kept' = c
           /\ view' = Translation!WithPartial(r)
           /\ registry' = Translation!Progress(registry, r.id, Translation!Cardinality(more.have))
  <2>1. (1 .. Parts) \ more.have # {}
    BY <1>9 DEF Translation!Missing
  <2>2. Translation!Cardinality(more.have) \in Nat
    BY <1>3, PartsCount
  <2>3. JobsAre(registry', runs) /\ Follows(registry, registry', runs)
    BY <1>0, <1>9, <2>2, JobSteps
  <2> QED BY <1>0, <1>1, <1>3, <1>6, <1>7, <1>9, <2>1, <2>3, CallGoesOn
<1> QED BY <1>1, <1>8, <1>9

LEMMA FailSteps ==
    ASSUME Translation!TranslationAssumption, TranslationInv, NEW n \in DOMAIN runs,
           Translation!PartFails(n)
    PROVE  TranslationInv' /\ Translation!TerminalStep
<1> DEFINE r == runs[n]
           jobs == Translation!Progress(registry, r.id, Translation!Cardinality(r.have))
           u == IF 1 \in r.have THEN Translation!WithPartial(r) ELSE view
<1>0. runs \in Seq(PageCall) /\ r \in PageCall /\ JobsAre(registry, runs)
  BY ReaderFields DEF TranslationInv
<1>1. /\ r.stage = "parts" /\ UNCHANGED <<reader, analysis>>
      /\ Translation!Reject(n, r, jobs, u)
  BY Zenon DEF Translation!PartFails
<1>2. Translation!Cardinality(r.have) \in Nat
  <2>1. r.have \in SUBSET (1 .. Parts)
    BY <1>0 DEF PageCall
  <2> QED BY <2>1, PartsCount
<1>3. JobsAre(jobs, runs) /\ Follows(registry, jobs, runs)
  BY <1>0, <1>2, JobSteps
<1>4. u \in {view, Translation!WithPartial(r)}
  OBVIOUS
<1> HIDE DEF jobs, u
<1> QED BY <1>1, <1>3, <1>4, RejectSteps

-----------------------------------------------------------------------------
(* The analysis                                                            *)

\* The panel and the caches change; the reader, its calls and the jobs do not.
LEMMA PanelChanges ==
    ASSUME Translation!TranslationAssumption, TranslationInv, reader.mounted,
           UNCHANGED <<reader, runs, registry>>, view' \in Panel, kept' \in Caches,
           kept'.inFlight = kept.inFlight, kept'.sequence = kept.sequence,
           kept.parts \subseteq kept'.parts, PagesAreWhole(reader, kept'),
           view'.partial = view.partial, view'.busy = view.busy,
           \/ view'.data = view.data /\ view'.dataKey = view.dataKey
           \/ /\ view'.data # Nothing /\ view'.data.key = Translation!KeyOf(reader)
              /\ view'.dataKey = view'.data.key
              /\ "translation" \in view'.data.has => WholeIn(reader, kept', view'.data.key),
           AnalysisHolds(reader, kept', analysis')
    PROVE  TranslationInv' /\ Translation!TerminalStep
<1>0. /\ ReaderHolds(reader, view, kept, runs) /\ PanelShows(reader, view, kept, runs)
      /\ JobsAre(registry, runs)
  BY DEF TranslationInv
<1>1. \A k : WholeIn(reader, kept, k) => WholeIn(reader, kept', k)
  BY DEF WholeIn
<1>2. FlightIsCall(reader, kept', runs)
  BY <1>0, Zenon DEF ReaderHolds, FlightIsCall
<1>3. CallsAreKept(reader, kept', runs)
  <2> SUFFICES ASSUME NEW m \in DOMAIN runs
               PROVE  /\ runs[m].stage # "settled" => (1 .. Parts) \ runs[m].have # {}
                      /\ Owns(reader, runs[m]) =>
                           \A k \in runs[m].have : Translation!Part(runs[m], k) \in kept'.parts
    BY Zenon DEF CallsAreKept
  <2>1. /\ runs[m].stage # "settled" => (1 .. Parts) \ runs[m].have # {}
        /\ Owns(reader, runs[m]) => \A k \in runs[m].have : Translation!Part(runs[m], k) \in kept.parts
    BY <1>0, Zenon DEF ReaderHolds, CallsAreKept
  <2> QED BY <2>1
<1>4. PanelIsKeyed(view', kept')
  BY <1>0 DEF ReaderHolds, PanelIsKeyed
<1>5. ShownIsWhole(reader, view', kept')
  <2>1. CASE view'.data = view.data
    BY <1>0, <1>1, <2>1 DEF ReaderHolds, ShownIsWhole
  <2>2. CASE "translation" \in view'.data.has => WholeIn(reader, kept', view'.data.key)
    BY <2>2 DEF ShownIsWhole
  <2> QED BY <2>1, <2>2
<1>6. GoneIsEmpty(reader, view', kept')
  BY DEF GoneIsEmpty
<1>7. ReaderHolds(reader, view', kept', runs)
  BY <1>0, <1>2, <1>3, <1>4, <1>5, <1>6 DEF ReaderHolds
<1>8. PanelShows(reader, view', kept', runs)
  <2>1. CASE view'.data = view.data
    BY <1>0, <2>1, Zenon DEF PanelShows
  <2>2. CASE view'.data # Nothing /\ view'.data.key = Translation!KeyOf(reader)
    BY <2>2, Zenon DEF PanelShows
  <2> QED BY <2>1, <2>2
<1>9. Translation!TerminalStep
  <2>1. Follows(registry, registry', runs)
    BY SameFollows
  <2> QED BY <1>0, <2>1, OverStays
<1> QED BY <1>0, <1>7, <1>8, <1>9, Zenon DEF TranslationInv

\* A page with its notes is whole when the page they are added to was.
LEMMA CombinedIs ==
    ASSUME Translation!TranslationAssumption, TranslationInv, NEW key \in Translation!Keys,
           NEW base \in Translation!Data \cup {Nothing}, NEW looksUp \in BOOLEAN,
           ~looksUp /\ base # Nothing /\ "translation" \in base.has => WholeIn(reader, kept, key),
           NEW p, p = Translation!Combined(kept, key, base, looksUp)
    PROVE  /\ p \in Translation!Data /\ p # Nothing /\ p.key = key
           /\ p.has \in SUBSET (Translation!Whole \cup Translation!Notes)
           /\ "translation" \in p.has => WholeIn(reader, kept, key)
<1> DEFINE has == IF ~looksUp THEN IF base = Nothing THEN {} ELSE base.has
                  ELSE IF Translation!IsKept(kept, key) THEN Translation!PageOf(kept, key).has ELSE {}
<1>1. kept \in Caches /\ PagesAreWhole(reader, kept)
  BY DEF TranslationInv, ReaderHolds
<1>2. /\ has \in SUBSET (Translation!Whole \cup Translation!Notes)
      /\ "translation" \in has => WholeIn(reader, kept, key)
  <2>1. CASE ~looksUp
    BY <2>1 DEF Translation!Data
  <2>2. CASE looksUp /\ Translation!IsKept(kept, key)
    <3> DEFINE e == Translation!PageOf(kept, key)
    <3>1. e \in Translation!ToSet(kept.pages) /\ e.key = key
      BY <2>2, Zenon DEF Translation!IsKept, Translation!PageOf
    <3> HIDE DEF e
    <3>2. kept.pages \in Seq(Translation!Data)
      BY <1>1 DEF Caches
    <3>3. e \in Translation!Data
      BY <3>1, <3>2, InSet
    <3>4. "translation" \in e.has => WholeIn(reader, kept, key)
      BY <1>1, <3>1 DEF PagesAreWhole
    <3>5. has = e.has
      BY <2>2 DEF e
    <3> QED BY <3>3, <3>4, <3>5 DEF Translation!Data
  <2>3. CASE looksUp /\ ~Translation!IsKept(kept, key)
    BY <2>3
  <2> QED BY <2>1, <2>2, <2>3
<1>3. p = [key |-> key, has |-> Translation!Notes \cup has]
  BY DEF Translation!Combined
<1> HIDE DEF has
<1>4. p \in Translation!Data
  BY <1>2, <1>3 DEF Translation!Data
<1>5. "translation" \notin Translation!Notes
  BY DEF Translation!Notes
<1> QED BY <1>2, <1>3, <1>4, <1>5 DEF Translation!TranslationAssumption

\* The page with its notes is shown and kept.
LEMMA NotesShown ==
    ASSUME Translation!TranslationAssumption, TranslationInv, reader.mounted,
           UNCHANGED <<reader, runs, registry>>, NEW p \in Translation!Data, p # Nothing,
           p.key = Translation!KeyOf(reader),
           p.has \in SUBSET (Translation!Whole \cup Translation!Notes),
           "translation" \in p.has => WholeIn(reader, kept, p.key),
           NEW c \in Caches, c.inFlight = kept.inFlight, c.sequence = kept.sequence,
           c.pages = kept.pages, kept.parts \subseteq c.parts,
           Translation!ShowNotes(p.key, p, view, c), AnalysisHolds(reader, kept, analysis')
    PROVE  TranslationInv' /\ Translation!TerminalStep
<1> DEFINE pages == Translation!Keep(kept.pages, p.key, p.has)
<1>0. view \in Panel /\ kept \in Caches /\ PagesAreWhole(reader, kept)
  BY DEF TranslationInv, ReaderHolds
<1>1. /\ view' = [view EXCEPT !.data = p, !.dataKey = p.key]
      /\ kept' = [c EXCEPT !.pages = pages]
  BY DEF Translation!ShowNotes, Caches
<1>2. p.key \in Translation!Keys
  BY DEF Translation!Data
<1>3. /\ view' \in Panel /\ view'.data = p /\ view'.dataKey = p.key
      /\ view'.partial = view.partial /\ view'.busy = view.busy
  BY <1>0, <1>1, <1>2 DEF Panel
<1>4. /\ pages \in Seq(Translation!Data)
      /\ \A e \in Translation!ToSet(pages) :
           e \in Translation!ToSet(kept.pages) \/ e = [key |-> p.key, has |-> p.has]
  <2>1. kept.pages \in Seq(Translation!Data)
    BY <1>0 DEF Caches
  <2> QED BY <1>2, <2>1, KeepSteps
<1> HIDE DEF pages
<1>5. /\ kept' \in Caches /\ kept'.pages = pages /\ kept'.parts = c.parts
      /\ kept'.inFlight = kept.inFlight /\ kept'.sequence = kept.sequence
  BY <1>1, <1>4 DEF Caches
<1>6. \A k : WholeIn(reader, kept, k) => WholeIn(reader, kept', k)
  BY <1>5 DEF WholeIn
<1>7. PagesAreWhole(reader, kept')
  <2> SUFFICES ASSUME NEW e \in Translation!ToSet(pages), "translation" \in e.has
               PROVE  WholeIn(reader, kept', e.key)
    BY <1>5, Zenon DEF PagesAreWhole
  <2>1. CASE e \in Translation!ToSet(kept.pages)
    BY <1>0, <1>6, <2>1, Zenon DEF PagesAreWhole
  <2>2. CASE e = [key |-> p.key, has |-> p.has]
    BY <1>6, <2>2
  <2> QED BY <1>4, <2>1, <2>2
<1>8. AnalysisHolds(reader, kept', analysis')
  BY <1>5, AnalysisStays
<1> QED BY <1>3, <1>5, <1>6, <1>7, <1>8, PanelChanges

LEMMA AskSteps ==
    ASSUME Translation!TranslationAssumption, TranslationInv, Translation!AskAnalysis
    PROVE  TranslationInv' /\ Translation!TerminalStep
<1> DEFINE key == Translation!KeyOf(reader)
           looksUp == view.dataKey # key
           base == Translation!Base(key)
           queue == analysis.calls
           call == [key |-> key, sequence |-> analysis.sequence + 1, looksUp |-> looksUp,
                    base |-> base]
           p == Translation!Combined(kept, key, base, looksUp)
<1>0. /\ reader \in ReaderState /\ view \in Panel /\ kept \in Caches
      /\ PanelIsKeyed(view, kept) /\ ShownIsWhole(reader, view, kept) /\ PagesAreWhole(reader, kept)
      /\ AnalysisHolds(reader, kept, analysis)
  BY DEF TranslationInv, ReaderHolds
<1>1. /\ reader.mounted /\ UNCHANGED <<reader, runs, registry>>
      /\ \/ /\ Translation!ShowNotes(key, p, view, kept)
            /\ analysis' = [analysis EXCEPT !.sequence = @ + 1]
         \/ /\ analysis' = [sequence |-> analysis.sequence + 1, busy |-> TRUE,
                            calls |-> Append(queue, call)]
            /\ view' = [view EXCEPT !.failed = FALSE] /\ UNCHANGED kept
  BY Zenon DEF Translation!AskAnalysis, Translation!UserActs, Translation!CurrentKey
<1>2. key \in Translation!Keys /\ key # Nothing
  BY <1>0, KeyIs
<1>3. /\ base \in Translation!Data \cup {Nothing} /\ looksUp \in BOOLEAN
      /\ base # Nothing => base.key = key /\ ("translation" \in base.has => WholeIn(reader, kept, key))
  BY <1>0, <1>1 DEF Translation!Base, Panel, PanelIsKeyed, ShownIsWhole
<1>4. /\ p \in Translation!Data /\ p # Nothing /\ p.key = key
      /\ p.has \in SUBSET (Translation!Whole \cup Translation!Notes)
      /\ "translation" \in p.has => WholeIn(reader, kept, key)
  <2> HIDE DEF key, looksUp, base
  <2> QED BY <1>2, <1>3, CombinedIs
<1>5. /\ analysis \in [sequence : Nat, busy : BOOLEAN, calls : Seq(AnalysisCall)]
      /\ queue \in Seq(AnalysisCall) /\ analysis.sequence \in Nat
      /\ \A i \in DOMAIN queue : /\ queue[i].sequence <= analysis.sequence
                                 /\ queue[i].sequence \in Nat
                                 /\ queue[i].base # Nothing => queue[i].base.key = queue[i].key
  <2>1. /\ analysis \in [sequence : Nat, busy : BOOLEAN, calls : Seq(AnalysisCall)]
        /\ \A i \in DOMAIN queue : /\ queue[i].sequence <= analysis.sequence
                                   /\ queue[i].base # Nothing => queue[i].base.key = queue[i].key
    BY <1>0, <1>1 DEF AnalysisHolds
  <2>2. queue \in Seq(AnalysisCall) /\ analysis.sequence \in Nat
    BY <2>1
  <2>3. \A i \in DOMAIN queue : queue[i] \in AnalysisCall
    BY <2>2
  <2>4. \A i \in DOMAIN queue : queue[i].sequence \in Nat
    BY <2>3 DEF AnalysisCall
  <2> QED BY <2>1, <2>2, <2>4
<1>6. CASE /\ Translation!ShowNotes(key, p, view, kept)
           /\ analysis' = [analysis EXCEPT !.sequence = @ + 1]
  <2>1. /\ analysis' \in [sequence : Nat, busy : BOOLEAN, calls : Seq(AnalysisCall)]
        /\ analysis'.calls = queue /\ analysis'.sequence = analysis.sequence + 1
    BY <1>5, <1>6
  <2>2. AnalysisHolds(reader, kept, analysis')
    <3> SUFFICES ASSUME NEW i \in DOMAIN queue
                 PROVE  /\ queue[i].sequence <= analysis'.sequence
                        /\ queue[i].base # Nothing =>
                             /\ queue[i].base.key = queue[i].key
                             /\ queue[i].sequence # analysis'.sequence
      BY <2>1, Zenon DEF AnalysisHolds
    <3>1. /\ queue[i].sequence \in Nat /\ queue[i].sequence <= analysis.sequence
          /\ queue[i].base # Nothing => queue[i].base.key = queue[i].key
      BY <1>5
    <3>2. analysis.sequence \in Nat /\ analysis'.sequence = analysis.sequence + 1
      BY <1>5, <2>1
    <3> HIDE DEF queue
    <3> QED BY <3>1, <3>2
  <2> HIDE DEF key, p
  <2> QED BY <1>0, <1>1, <1>4, <1>6, <2>2, NotesShown DEF key
<1>7. CASE /\ analysis' = [sequence |-> analysis.sequence + 1, busy |-> TRUE,
                           calls |-> Append(queue, call)]
           /\ view' = [view EXCEPT !.failed = FALSE] /\ UNCHANGED kept
  <2>1. /\ call \in AnalysisCall /\ call.sequence = analysis.sequence + 1 /\ call.key = key
        /\ call.base = base
    BY <1>2, <1>3, <1>5 DEF AnalysisCall
  <2> HIDE DEF call, base, looksUp
  <2>2. /\ analysis'.calls \in Seq(AnalysisCall)
        /\ analysis'.calls = Append(queue, call) /\ analysis'.sequence = analysis.sequence + 1
        /\ analysis' \in [sequence : Nat, busy : BOOLEAN, calls : Seq(AnalysisCall)]
    BY <1>5, <1>7, <2>1
  <2>3. \A i \in DOMAIN analysis'.calls :
          \/ analysis'.calls[i] = call
          \/ i \in DOMAIN queue /\ analysis'.calls[i] = queue[i]
    BY <1>5, <2>1, <2>2
  <2>4. ASSUME NEW i \in DOMAIN analysis'.calls
        PROVE  /\ analysis'.calls[i].sequence <= analysis'.sequence
               /\ analysis'.calls[i].base # Nothing =>
                    /\ analysis'.calls[i].base.key = analysis'.calls[i].key
                    /\ analysis'.calls[i].sequence = analysis'.sequence
                       /\ "translation" \in analysis'.calls[i].base.has =>
                         WholeIn(reader, kept', analysis'.calls[i].key)
    <3>1. CASE analysis'.calls[i] = call
      BY <1>3, <1>5, <1>7, <2>1, <2>2, <3>1
    <3>2. CASE i \in DOMAIN queue /\ analysis'.calls[i] = queue[i]
      <4>1. /\ queue[i].sequence \in Nat /\ queue[i].sequence <= analysis.sequence
            /\ queue[i].base # Nothing => queue[i].base.key = queue[i].key
        BY <1>5, <3>2
      <4>2. analysis.sequence \in Nat /\ analysis'.sequence = analysis.sequence + 1
        BY <1>5, <2>2
      <4> HIDE DEF queue
      <4> QED BY <3>2, <4>1, <4>2
    <3> QED BY <2>3, <3>1, <3>2
  <2>5. AnalysisHolds(reader, kept', analysis')
    BY <2>2, <2>4, Zenon DEF AnalysisHolds
  <2>6. /\ view' \in Panel /\ view'.data = view.data /\ view'.dataKey = view.dataKey
        /\ view'.partial = view.partial /\ view'.busy = view.busy
    BY <1>0, <1>7 DEF Panel
  <2> QED BY <1>0, <1>1, <1>7, <2>5, <2>6, PanelChanges
<1> QED BY <1>1, <1>6, <1>7

LEMMA AnswerSteps ==
    ASSUME Translation!TranslationAssumption, TranslationInv, NEW i \in DOMAIN analysis.calls,
           NEW accepted \in BOOLEAN, Translation!AnalysisAnswers(i, accepted)
    PROVE  TranslationInv' /\ Translation!TerminalStep
<1> DEFINE queue == analysis.calls
           call == queue[i]
           note == [reader |-> reader.number, key |-> call.key, part |-> 0]
           latest == call.sequence = analysis.sequence
           withNote == [kept EXCEPT !.parts = @ \cup {note},
                                    !.learned = IF latest THEN @ \cup {call.key} ELSE @]
           p == Translation!Combined(kept, call.key, call.base, call.looksUp)
<1>0. /\ reader \in ReaderState /\ view \in Panel /\ kept \in Caches /\ PagesAreWhole(reader, kept)
      /\ AnalysisHolds(reader, kept, analysis)
  BY DEF TranslationInv, ReaderHolds
<1>1. /\ reader.mounted /\ UNCHANGED <<reader, runs, registry>>
      /\ analysis' = [analysis EXCEPT !.calls = RemoveAt(@, i), !.busy = @ /\ ~latest]
      /\ \/ /\ latest /\ call.key = Translation!KeyOf(reader)
            /\ Translation!ShowNotes(call.key, p, view, withNote)
         \/ kept' = withNote /\ view' = view
         \/ view' = [view EXCEPT !.failed = TRUE] /\ kept' = kept
         \/ view' = view /\ kept' = kept
  <2>1. /\ reader.mounted /\ UNCHANGED <<reader, runs, registry>>
        /\ analysis' = [analysis EXCEPT !.calls = Translation!RemoveAt(@, i), !.busy = @ /\ ~latest]
        /\ \/ /\ accepted
              /\ IF latest /\ call.key = Translation!CurrentKey
                 THEN Translation!ShowNotes(call.key, p, view, withNote)
                 ELSE kept' = withNote /\ UNCHANGED view
           \/ /\ ~accepted /\ note \notin kept.parts
              /\ view' = IF call.key = Translation!CurrentKey THEN [view EXCEPT !.failed = TRUE] ELSE view
              /\ UNCHANGED kept
    BY Zenon DEF Translation!AnalysisAnswers
  <2>2. Translation!RemoveAt(queue, i) = RemoveAt(queue, i)
    BY Zenon DEF Translation!RemoveAt, RemoveAt
  <2> HIDE DEF call, note, withNote, p
  <2> QED BY <2>1, <2>2 DEF Translation!CurrentKey
<1>2. /\ analysis \in [sequence : Nat, busy : BOOLEAN, calls : Seq(AnalysisCall)]
      /\ queue \in Seq(AnalysisCall)
      /\ \A k \in DOMAIN queue :
           /\ queue[k].sequence <= analysis.sequence
           /\ queue[k].base # Nothing =>
                /\ queue[k].base.key = queue[k].key
                /\ queue[k].sequence = analysis.sequence /\ "translation" \in queue[k].base.has =>
                     WholeIn(reader, kept, queue[k].key)
  <2>1. analysis \in [sequence : Nat, busy : BOOLEAN, calls : Seq(AnalysisCall)]
    BY <1>0 DEF AnalysisHolds
  <2> QED BY <1>0, <1>1, <2>1, Zenon DEF AnalysisHolds
<1>3. call \in AnalysisCall
  BY <1>2
<1>4. call.key \in Translation!Keys /\ call.base \in Translation!Data \cup {Nothing}
      /\ call.looksUp \in BOOLEAN
  BY <1>3 DEF AnalysisCall
<1>5. note \in PagePart
  BY <1>0, <1>4 DEF PagePart, ReaderState, Translation!TranslationAssumption
<1> HIDE DEF note
<1>6. /\ withNote \in Caches /\ withNote.inFlight = kept.inFlight /\ withNote.pages = kept.pages
      /\ withNote.sequence = kept.sequence /\ kept.parts \subseteq withNote.parts
  <2>1. (IF latest THEN kept.learned \cup {call.key} ELSE kept.learned) \in SUBSET Translation!Keys
    BY <1>0, <1>4 DEF Caches
  <2> HIDE DEF latest, call
  <2> QED BY <1>0, <1>5, <2>1 DEF Caches
<1> DEFINE left == RemoveAt(queue, i)
<1>7. /\ left \in Seq(AnalysisCall)
      /\ \A k \in DOMAIN left : \E m \in DOMAIN queue : left[k] = queue[m]
  <2>1. i \in 1 .. Len(queue) /\ DOMAIN queue = 1 .. Len(queue) /\ Len(queue) \in Nat
    BY <1>2
  <2>2. /\ left \in Seq(AnalysisCall) /\ Len(left) = Len(queue) - 1
        /\ \A k \in 1 .. Len(queue) - 1 : left[k] = IF k < i THEN queue[k] ELSE queue[k + 1]
    <3> HIDE DEF queue
    <3> QED BY <1>2, <2>1, WithoutOne
  <2> HIDE DEF left
  <2>3. ASSUME NEW k \in DOMAIN left
        PROVE  \E m \in DOMAIN queue : left[k] = queue[m]
    <3> HIDE DEF queue
    <3>1. k \in 1 .. Len(queue) - 1 /\ k \in DOMAIN queue /\ k + 1 \in DOMAIN queue
      BY <2>1, <2>2
    <3> QED BY <2>2, <3>1
  <2> QED BY <2>2, <2>3
<1> HIDE DEF left
<1>8. /\ analysis' \in [sequence : Nat, busy : BOOLEAN, calls : Seq(AnalysisCall)]
      /\ analysis'.calls = left /\ analysis'.sequence = analysis.sequence
  BY <1>1, <1>2, <1>7 DEF left
<1>9. AnalysisHolds(reader, kept, analysis')
  <2> SUFFICES ASSUME NEW k \in DOMAIN left
               PROVE  /\ left[k].sequence <= analysis.sequence
                      /\ left[k].base # Nothing =>
                           /\ left[k].base.key = left[k].key
                           /\ left[k].sequence = analysis.sequence /\ "translation" \in left[k].base.has =>
                                WholeIn(reader, kept, left[k].key)
    BY <1>8, Zenon DEF AnalysisHolds
  <2>1. PICK m \in DOMAIN queue : left[k] = queue[m]
    BY <1>7
  <2> QED BY <1>2, <2>1
<1>10. CASE /\ latest /\ call.key = Translation!KeyOf(reader)
            /\ Translation!ShowNotes(call.key, p, view, withNote)
  <2>1. ~call.looksUp /\ call.base # Nothing /\ "translation" \in call.base.has =>
          WholeIn(reader, kept, call.key)
    BY <1>2, <1>10
  <2> HIDE DEF call, withNote
  <2>2. /\ p \in Translation!Data /\ p # Nothing /\ p.key = call.key
        /\ p.has \in SUBSET (Translation!Whole \cup Translation!Notes)
        /\ "translation" \in p.has => WholeIn(reader, kept, call.key)
    BY <1>4, <2>1, CombinedIs
  <2> HIDE DEF p
  <2> QED BY <1>1, <1>6, <1>9, <1>10, <2>2, NotesShown
<1> HIDE DEF withNote
<1>11. CASE kept' = withNote /\ view' = view
  <2>1. AnalysisHolds(reader, kept', analysis')
    BY <1>6, <1>9, <1>11, AnalysisStays
  <2>2. \A k : WholeIn(reader, kept, k) => WholeIn(reader, kept', k)
    BY <1>6, <1>11 DEF WholeIn
  <2>3. PagesAreWhole(reader, kept')
    BY <1>0, <1>6, <1>11, <2>2, Zenon DEF PagesAreWhole
  <2> QED BY <1>0, <1>1, <1>6, <1>11, <2>1, <2>3, PanelChanges
<1>12. CASE view' = [view EXCEPT !.failed = TRUE] /\ kept' = kept
  <2>1. /\ view' \in Panel /\ view'.data = view.data /\ view'.dataKey = view.dataKey
        /\ view'.partial = view.partial /\ view'.busy = view.busy
    BY <1>0, <1>12 DEF Panel
  <2> QED BY <1>0, <1>1, <1>9, <1>12, <2>1, PanelChanges
<1>13. CASE view' = view /\ kept' = kept
  BY <1>0, <1>1, <1>9, <1>13, PanelChanges
<1> QED BY <1>1, <1>10, <1>11, <1>12, <1>13

-----------------------------------------------------------------------------
(* A translated page is its own                                            *)

LEMMA TranslationStarts ==
    ASSUME Translation!TranslationAssumption, Translation!TranslationInit
    PROVE  TranslationInv
<1>1. /\ reader = Translation!NewReader(1) /\ view = Translation!EmptyView
      /\ kept = Translation!EmptyKept /\ analysis = Translation!NoAnalysis
      /\ runs = <<>> /\ registry = <<>>
  BY DEF Translation!TranslationInit
<1>2. /\ reader \in ReaderState /\ reader.mounted
  <2>1. 1 \in 1 .. MaxReaders
    BY DEF Translation!TranslationAssumption
  <2> QED BY <1>1, <2>1, NewReaderIs
<1>3. /\ view \in Panel /\ view.data = Nothing /\ view.partial = Nothing
  BY <1>1 DEF Panel, Translation!EmptyView
<1>4. kept \in Caches /\ kept.inFlight = Nothing /\ kept.pages = <<>> /\ kept.sequence = 0
  BY <1>1 DEF Caches, Translation!EmptyKept
<1>5. ReaderHolds(reader, view, kept, runs)
  <2>1. Translation!ToSet(kept.pages) = {}
    BY <1>4 DEF Translation!ToSet
  <2>2. FlightIsCall(reader, kept, runs) /\ PanelIsKeyed(view, kept) /\ CallsAreKept(reader, kept, runs)
    BY <1>1, <1>3, <1>4 DEF FlightIsCall, PanelIsKeyed, CallsAreKept
  <2>3. PagesAreWhole(reader, kept) /\ ShownIsWhole(reader, view, kept) /\ GoneIsEmpty(reader, view, kept)
    BY <1>2, <1>3, <2>1 DEF PagesAreWhole, ShownIsWhole, GoneIsEmpty
  <2> QED BY <1>1, <1>2, <1>3, <1>4, <2>2, <2>3 DEF ReaderHolds
<1>6. PanelShows(reader, view, kept, runs)
  <2>1. ~reader.open
    BY <1>1 DEF Translation!NewReader
  <2> QED BY <2>1 DEF PanelShows
<1>7. AnalysisHolds(reader, kept, analysis)
  BY <1>1 DEF AnalysisHolds, Translation!NoAnalysis
<1>8. JobsAre(registry, runs)
  BY <1>1 DEF JobsAre, Translation!ToSet
<1> QED BY <1>5, <1>6, <1>7, <1>8 DEF TranslationInv

LEMMA TranslationStep ==
    ASSUME Translation!TranslationAssumption, TranslationInv,
           [Translation!TranslationNext]_(Translation!translationVars)
    PROVE  TranslationInv' /\ [Translation!TerminalStep]_(Translation!translationVars)
<1>1. CASE UNCHANGED Translation!translationVars
  BY <1>1, Zenon DEF Translation!translationVars, TranslationInv, ReaderHolds, PanelShows, AnalysisHolds,
     JobsAre, FlightIsCall, PanelIsKeyed, CallsAreKept, PagesAreWhole, ShownIsWhole, GoneIsEmpty
<1>2. CASE Translation!Acts
  BY <1>2, TurnSteps, SettingSteps, StopSteps, ResumeSteps, LeaveSteps, AskSteps, Zenon
     DEF Translation!Acts
<1>3. CASE Translation!Arrives
  BY <1>3, TurnSteps, ContextSteps, StreamSteps, PartSteps, FailSteps, AnswerSteps, Zenon
     DEF Translation!Arrives
<1> QED BY <1>1, <1>2, <1>3, Zenon DEF Translation!TranslationNext

LEMMA TranslationHolds ==
    ASSUME Translation!TranslationAssumption, TranslationInv
    PROVE  /\ Translation!TranslationTypeOK /\ Translation!OtherPageOnlyWhileUnfinished
           /\ Translation!BlankPageHasReason /\ Translation!KeptPagesAreWhole
<1> DEFINE key == Translation!KeyOf(reader)
<1>0. /\ reader \in ReaderState /\ view \in Panel /\ kept \in Caches /\ runs \in Seq(PageCall)
      /\ ReaderHolds(reader, view, kept, runs) /\ PanelShows(reader, view, kept, runs)
      /\ JobsAre(registry, runs)
  BY ReaderFields DEF TranslationInv
<1>1. Translation!TranslationTypeOK
  <2>1. Translation!ToSet(kept.pages) \subseteq Translation!Data
        /\ kept.learned \subseteq Translation!Keys /\ kept.inFlight \in Translation!Keys \cup {Nothing}
    <3>1. kept.pages \in Seq(Translation!Data)
      BY <1>0 DEF Caches
    <3> QED BY <1>0, <3>1, InSet DEF Caches
  <2>2. \A r \in Translation!ToSet(runs) : /\ r.id \in Translation!JobIds /\ r.key \in Translation!Keys
                                           /\ r.have \subseteq 1 .. Parts
    <3>1. \A r \in PageCall : /\ r.id \in Translation!JobIds /\ r.key \in Translation!Keys
                              /\ r.have \subseteq 1 .. Parts
      BY DEF PageCall
    <3> QED BY <1>0, <3>1, InSet
  <2>3. \A j \in Translation!ToSet(registry) : j.id \in Translation!JobIds /\ j.run \in DOMAIN runs
    <3>1. registry \in Seq(Job) /\ \A j \in Translation!ToSet(registry) : j.run \in DOMAIN runs
      BY <1>0 DEF JobsAre
    <3>2. \A j \in Job : j.id \in Translation!JobIds
      BY DEF Job
    <3> QED BY <3>1, <3>2, InSet
  <2> QED BY <1>0, <2>1, <2>2, <2>3 DEF Translation!TranslationTypeOK, ReaderState, Panel
<1>2. \A n \in DOMAIN runs : runs[n] \in Translation!ToSet(runs)
  BY DEF Translation!ToSet
<1>3. Translation!Watching => /\ reader.mounted /\ reader.settled /\ reader.open
                              /\ reader.text # Nothing
  BY Zenon DEF Translation!Watching, Translation!UserActs
<1>4. Translation!OtherPageOnlyWhileUnfinished
  <2>1. ASSUME Translation!Watching, view.data # Nothing, view.data.key # key
        PROVE  Translation!Unfinished(key)
    <3>1. PICK n \in DOMAIN runs : /\ runs[n].reader = reader.number /\ runs[n].key = key
                                   /\ (1 .. Parts) \ runs[n].have # {}
      BY <1>0, <1>3, <2>1, Zenon DEF PanelShows
    <3>2. Translation!Mine(runs[n]) /\ Translation!Missing(runs[n]) # {}
      BY <1>3, <2>1, <3>1 DEF Translation!Mine, Translation!Missing
    <3> QED BY <1>2, <3>1, <3>2, Zenon DEF Translation!Unfinished
  <2>2. ASSUME Translation!Watching, view.data = Nothing, view.partial # Nothing
        PROVE  view.partial = key
    BY <1>0, <1>3, <2>2, Zenon DEF PanelShows
  <2> QED BY <2>1, <2>2, Zenon DEF Translation!OtherPageOnlyWhileUnfinished, Translation!CurrentKey
<1>5. Translation!BlankPageHasReason
  <2> SUFFICES ASSUME Translation!Watching, view.data = Nothing
               PROVE  \E r \in Translation!ToSet(runs) :
                        /\ Translation!Mine(r) /\ r.key = key
                        /\ view.busy => /\ Translation!Live(r) /\ r.owned
                                        /\ kept.inFlight = r.key
    BY Zenon DEF Translation!BlankPageHasReason, Translation!CurrentKey
  <2>1. CASE view.busy
    <3>1. kept.inFlight = key /\ key # Nothing
      BY <1>0, <1>3, <2>1, KeyIs, Zenon DEF PanelShows
    <3> HIDE DEF key
    <3>2. PICK n \in DOMAIN runs : /\ Owns(reader, runs[n]) /\ runs[n].stage # "settled"
                                   /\ runs[n].key = kept.inFlight
      BY <1>0, <3>1, Zenon DEF ReaderHolds, FlightIsCall
    <3>3. Translation!Mine(runs[n]) /\ Translation!Live(runs[n]) /\ runs[n].owned
      BY <3>2 DEF Owns, Translation!Mine, Translation!Live
    <3> QED BY <1>2, <3>1, <3>2, <3>3
  <2>2. CASE ~view.busy
    <3>1. PICK n \in DOMAIN runs : runs[n].reader = reader.number /\ runs[n].key = key
      BY <1>0, <1>3, Zenon DEF PanelShows
    <3>2. Translation!Mine(runs[n])
      BY <1>3, <3>1 DEF Translation!Mine
    <3> QED BY <1>2, <2>2, <3>1, <3>2
  <2> QED BY <2>1, <2>2
<1>6. Translation!KeptPagesAreWhole
  BY <1>0, Zenon DEF ReaderHolds, PagesAreWhole, WholeIn, Translation!KeptPagesAreWhole
<1> QED BY <1>1, <1>4, <1>5, <1>6

(* What the panel shows for a page was made for that page, in the language it is *)
(* read in and by the model that was chosen, unless the page's own call did not  *)
(* bring all its parts; a page without a translation was asked for, and a        *)
(* spinner is stopped by a call that still runs; a page is kept as translated    *)
(* only when all its parts were; and a job that is over stays as it ended.  All  *)
(* of it whatever is turned, changed, stopped, left or reopened while the calls  *)
(* are under way (requestTranslation and the registry of jobs).                  *)
THEOREM TranslatedPageIsItsOwn ==
    ASSUME Translation!TranslationAssumption
    PROVE  Translation!TranslationSpec =>
             /\ []( /\ Translation!TranslationTypeOK /\ Translation!OtherPageOnlyWhileUnfinished
                    /\ Translation!BlankPageHasReason /\ Translation!KeptPagesAreWhole )
             /\ Translation!TerminalIsFinal
<1> DEFINE Right == /\ Translation!TranslationTypeOK /\ Translation!OtherPageOnlyWhileUnfinished
                    /\ Translation!BlankPageHasReason /\ Translation!KeptPagesAreWhole
<1>1. Translation!TranslationInit => TranslationInv
  BY TranslationStarts
<1>2. TranslationInv /\ [Translation!TranslationNext]_(Translation!translationVars)
        => TranslationInv' /\ [Translation!TerminalStep]_(Translation!translationVars)
  BY TranslationStep
<1>3. TranslationInv => Right
  BY TranslationHolds
<1> QED BY <1>1, <1>2, <1>3, PTL DEF Translation!TranslationSpec, Translation!TerminalIsFinal

-----------------------------------------------------------------------------
(* The page on screen                                                      *)

Stage == INSTANCE ReaderPages

StageKeys == [page : 1 .. NumPages, scale : Scales]

Screen == [page : 1 .. NumPages, scale : Scales, error : BOOLEAN, rendering : BOOLEAN,
           textLoading : BOOLEAN, pixels : StageKeys \cup {Nothing},
           layer : StageKeys \cup {Nothing}, interactive : BOOLEAN,
           text : 1 .. NumPages \cup {Nothing}]

Turn == [key : StageKeys, stage : {"raster", "text", "layer", "done"}, ahead : BOOLEAN]

LastTurn == turns[Len(turns)]

\* A cache of rasters that are drawn or being drawn.
Rasters(cache) == /\ DOMAIN cache \subseteq StageKeys
                  /\ \A k \in DOMAIN cache : cache[k] \in {"drawing", "ready"}

\* What is on screen while the live run of the page effect is at its stage.
StageAgrees ==
    /\ LastTurn.key = Stage!Here
    /\ screen.rendering <=> LastTurn.stage = "raster"
    /\ screen.textLoading <=> LastTurn.stage \in {"text", "layer"}
    /\ screen.layer # Nothing => screen.layer = screen.pixels
    /\ LastTurn.stage # "done" => ~screen.interactive
    /\ LastTurn.stage = "raster" =>
         LastTurn.key \in DOMAIN rasters /\ rasters[LastTurn.key] = "drawing"
    /\ LastTurn.stage = "text" => screen.pixels = Stage!Here /\ screen.layer = Nothing
    /\ LastTurn.stage = "layer" => /\ screen.pixels = Stage!Here /\ screen.layer = Stage!Here
                                   /\ screen.text = screen.page
    /\ LastTurn.stage = "done" =>
         /\ screen.pixels \in {Nothing, Stage!Here}
         /\ screen.layer # Nothing => screen.layer = Stage!Here /\ screen.text = screen.page

StageShown ==
    /\ screen \in Screen
    /\ Rasters(rasters)
    /\ turns \in Seq(Turn) /\ turns # <<>>
    /\ StageAgrees

SearchKnown ==
    /\ texts \subseteq 1 .. NumPages
    /\ search \in [query : Queries \cup {Nothing}, busy : BOOLEAN, asked : SUBSET (1 .. NumPages),
                   from : 1 .. NumPages, direction : {1}, pages : SUBSET (1 .. NumPages)]

ProgressKnown ==
    /\ progress \in [timer : 1 .. NumPages \cup {Nothing}, flights : Seq(1 .. NumPages),
                     current : 1 .. NumPages]

StageInv == StageShown /\ SearchKnown /\ ProgressKnown

LEMMA PageBounds ==
    ASSUME Stage!PagesAssumption, NEW S \in SUBSET (1 .. NumPages), S # {}
    PROVE  Stage!Min(S) \in S /\ Stage!Max(S) \in S
<1>1. NumPages \in Nat \ {0}
  BY DEF Stage!PagesAssumption
<1>2. S \subseteq Nat /\ \A p \in S : NumPages - p \in Nat
  BY <1>1
<1>3. \E x \in S : \A y \in S : x <= y
  BY <1>2, Least
<1>4. \E x \in S : \A y \in S : x >= y
  <2> DEFINE R == {NumPages - p : p \in S}
  <2>1. R \subseteq Nat /\ R # {}
    BY <1>2
  <2>2. PICK r \in R : \A y \in R : r <= y
    BY <2>1, Least
  <2>3. PICK x \in S : r = NumPages - x
    BY <2>2
  <2>4. \A y \in S : NumPages - y \in R /\ NumPages - x <= NumPages - y
    BY <2>2, <2>3
  <2>5. \A y \in S : x \in Int /\ y \in Int /\ NumPages \in Int
    BY <1>1
  <2> HIDE DEF R
  <2>6. ASSUME NEW y \in S PROVE x >= y
    BY <2>4, <2>5
  <2> QED BY <2>6
<1> QED BY <1>3, <1>4, Zenon DEF Stage!Min, Stage!Max

LEMMA TurnAdded ==
    ASSUME turns \in Seq(Turn), NEW t \in Turn, turns' = Append(turns, t)
    PROVE  turns' \in Seq(Turn) /\ turns' # <<>> /\ LastTurn' = t /\ Len(turns') \in Nat
BY DEF LastTurn

LEMMA TurnsChanged ==
    ASSUME turns \in Seq(Turn), turns # <<>>, turns' \in [DOMAIN turns -> Turn]
    PROVE  turns' \in Seq(Turn) /\ turns' # <<>> /\ Len(turns') = Len(turns)
           /\ LastTurn' = turns'[Len(turns)] /\ Len(turns) \in DOMAIN turns
<1>1. DOMAIN turns = 1 .. Len(turns) /\ Len(turns) \in Nat \ {0}
  OBVIOUS
<1>2. turns' \in Seq(Turn) /\ Len(turns') = Len(turns)
  BY <1>1
<1> QED BY <1>1, <1>2 DEF LastTurn

LEMMA EnsureKeeps ==
    ASSUME NEW cache, Rasters(cache), NEW key \in [page : Int, scale : Scales],
           Stage!PagesAssumption
    PROVE  /\ Rasters(Stage!Ensure(cache, key))
           /\ \A k \in DOMAIN cache : /\ k \in DOMAIN Stage!Ensure(cache, key)
                                      /\ Stage!Ensure(cache, key)[k] = cache[k]
           /\ key \in StageKeys /\ key \notin DOMAIN cache =>
                key \in DOMAIN Stage!Ensure(cache, key) /\ Stage!Ensure(cache, key)[key] = "drawing"
<1>1. key.page \in 1 .. NumPages => key \in StageKeys
  BY DEF StageKeys
<1>2. CASE key.page \in 1 .. NumPages /\ key \notin DOMAIN cache
  <2>1. Stage!Ensure(cache, key) = [k \in DOMAIN cache \cup {key} |-> IF k = key THEN "drawing" ELSE cache[k]]
    BY <1>2 DEF Stage!Ensure, Stage!AllPages
  <2> QED BY <1>1, <1>2, <2>1 DEF Rasters
<1>3. CASE ~(key.page \in 1 .. NumPages /\ key \notin DOMAIN cache)
  <2>1. Stage!Ensure(cache, key) = cache
    BY <1>3 DEF Stage!Ensure, Stage!AllPages
  <2>2. key \in StageKeys => key.page \in 1 .. NumPages
    BY DEF StageKeys
  <2> QED BY <1>3, <2>1, <2>2 DEF Rasters
<1> QED BY <1>2, <1>3

LEMMA GoToStep ==
    ASSUME Stage!PagesAssumption, StageShown, texts \subseteq 1 .. NumPages,
           NEW key \in StageKeys, Stage!GoTo(key)
    PROVE  StageShown' /\ screen'.page = key.page
<1>0. /\ screen \in Screen /\ Rasters(rasters) /\ turns \in Seq(Turn)
      /\ key = [page |-> key.page, scale |-> key.scale]
      /\ key.page \in 1 .. NumPages /\ key.scale \in Scales
  BY DEF StageShown, StageKeys
<1>1. CASE screen.error /\ Stage!RunEffectWithoutStage(key)
  <2> DEFINE t == [key |-> key, stage |-> "done", ahead |-> FALSE]
  <2>1. t \in Turn /\ t.key = key /\ t.stage = "done"
    BY DEF Turn
  <2> HIDE DEF t
  <2>2. turns' = Append(turns, t)
    BY <1>1 DEF Stage!RunEffectWithoutStage, t
  <2>3. turns' \in Seq(Turn) /\ turns' # <<>> /\ LastTurn' = t
    BY <1>0, <2>1, <2>2, TurnAdded
  <2>4. /\ screen' \in Screen /\ screen'.page = key.page /\ screen'.scale = key.scale
        /\ screen'.rendering = FALSE /\ screen'.textLoading = FALSE
        /\ screen'.pixels = Nothing /\ screen'.layer = Nothing
    BY <1>0, <1>1 DEF Stage!RunEffectWithoutStage, Screen
  <2>5. Stage!Here' = key
    BY <1>0, <2>4 DEF Stage!Here
  <2>6. rasters' = rasters
    BY <1>1 DEF Stage!RunEffectWithoutStage
  <2>7. StageAgrees'
    BY <2>1, <2>3, <2>4, <2>5 DEF StageAgrees
  <2> QED BY <1>0, <2>3, <2>4, <2>6, <2>7 DEF StageShown
<1>2. CASE Stage!RunEffect(key)
  <2> DEFINE near == Stage!Forget(rasters, Stage!FarFrom(key))
             ready == key \in DOMAIN near /\ near[key] = "ready"
             begun == [screen EXCEPT !.page = key.page, !.scale = key.scale,
                         !.rendering = ~ready, !.textLoading = FALSE, !.interactive = FALSE,
                         !.text = IF key.page \in texts THEN key.page ELSE Nothing]
             cache == Stage!Ensure(near, key)
             t == [key |-> key, stage |-> IF ready THEN "text" ELSE "raster", ahead |-> ready]
  <2>1. /\ screen' = IF ready THEN Stage!Painted(begun, key) ELSE begun
        /\ rasters' = IF ready THEN Stage!Ensure(cache, Stage!NextOf(key)) ELSE cache
        /\ turns' = Append(turns, t)
    BY <1>2, Zenon DEF Stage!RunEffect
  <2>2. Rasters(near)
    BY <1>0 DEF Stage!Forget, Rasters
  <2>3. ready \in BOOLEAN /\ (ready => t.stage = "text") /\ (~ready => t.stage = "raster")
        /\ t.key = key /\ t \in Turn
    BY DEF Turn
  <2>4. /\ begun \in Screen /\ begun.page = key.page /\ begun.scale = key.scale
        /\ begun.rendering = ~ready /\ begun.textLoading = FALSE /\ begun.interactive = FALSE
        /\ begun.pixels = screen.pixels /\ begun.layer = screen.layer
    BY <1>0 DEF Screen
  <2> HIDE DEF near, begun, t
  <2>5. turns' \in Seq(Turn) /\ turns' # <<>> /\ LastTurn' = t
    BY <1>0, <2>1, <2>3, TurnAdded
  <2>6. key \in [page : Int, scale : Scales] /\ Stage!NextOf(key) \in [page : Int, scale : Scales]
    BY <1>0, Stage!PagesAssumption DEF StageKeys, Stage!NextOf, Stage!PagesAssumption
  <2>7. /\ Rasters(cache)
        /\ key \notin DOMAIN near => key \in DOMAIN cache /\ cache[key] = "drawing"
        /\ \A k \in DOMAIN near : k \in DOMAIN cache /\ cache[k] = near[k]
    BY <2>2, <2>6, EnsureKeeps
  <2> HIDE DEF cache
  <2>8. /\ Rasters(Stage!Ensure(cache, Stage!NextOf(key)))
        /\ \A k \in DOMAIN cache : /\ k \in DOMAIN Stage!Ensure(cache, Stage!NextOf(key))
                                   /\ Stage!Ensure(cache, Stage!NextOf(key))[k] = cache[k]
    BY <2>6, <2>7, EnsureKeeps
  <2>9. Rasters(rasters')
    BY <2>1, <2>7, <2>8
  <2>10. CASE ready
    <3>1. /\ screen' \in Screen /\ screen'.page = key.page /\ screen'.scale = key.scale
          /\ screen'.rendering = FALSE /\ screen'.textLoading = TRUE /\ screen'.interactive = FALSE
          /\ screen'.pixels = key /\ screen'.layer = Nothing
      BY <2>1, <2>4, <2>10 DEF Stage!Painted, Screen
    <3>2. Stage!Here' = key
      BY <1>0, <3>1 DEF Stage!Here
    <3>3. StageAgrees'
      BY <2>3, <2>5, <2>10, <3>1, <3>2 DEF StageAgrees
    <3> QED BY <2>5, <2>9, <3>1, <3>3 DEF StageShown
  <2>11. CASE ~ready
    <3>1. /\ screen' \in Screen /\ screen'.page = key.page /\ screen'.scale = key.scale
          /\ screen'.rendering = TRUE /\ screen'.textLoading = FALSE /\ screen'.interactive = FALSE
          /\ screen'.pixels = screen.pixels /\ screen'.layer = screen.layer
      BY <2>1, <2>4, <2>11
    <3>2. Stage!Here' = key
      BY <1>0, <3>1 DEF Stage!Here
    <3>3. key \in DOMAIN rasters' /\ rasters'[key] = "drawing"
      BY <2>1, <2>2, <2>7, <2>11 DEF Rasters
    <3>4. StageAgrees'
      BY <2>3, <2>5, <2>11, <3>1, <3>2, <3>3 DEF StageAgrees, StageShown
    <3> QED BY <2>5, <2>9, <3>1, <3>4 DEF StageShown
  <2> QED BY <2>10, <2>11
<1> QED BY <1>1, <1>2 DEF Stage!GoTo

\* The runs of the page effect keep their pages; After leaves those that do not wait alone.
LEMMA RunsAfter ==
    ASSUME StageShown, NEW key \in StageKeys, NEW drawn \in BOOLEAN,
           turns' = Stage!After(key, drawn)
    PROVE  /\ turns' \in Seq(Turn) /\ turns' # <<>> /\ LastTurn'.key = LastTurn.key
           /\ LastTurn'.stage = IF LastTurn.stage = "raster" /\ LastTurn.key = key
                                THEN IF drawn THEN "text" ELSE "done"
                                ELSE LastTurn.stage
           /\ (\E n \in Stage!Waiting(key) : Stage!Live(n)) <=>
                LastTurn.stage = "raster" /\ LastTurn.key = key
<1>0. turns \in Seq(Turn) /\ turns # <<>> /\ Len(turns) \in DOMAIN turns
      /\ \A n \in DOMAIN turns : turns[n] \in Turn
  BY DEF StageShown
<1>1. ASSUME NEW n \in DOMAIN turns
      PROVE  turns'[n] \in Turn /\ turns'[n].key = turns[n].key
  <2>1. turns[n] \in Turn
    BY <1>0
  <2>2. turns'[n] \in {turns[n], [turns[n] EXCEPT !.stage = "text", !.ahead = TRUE],
                       [turns[n] EXCEPT !.stage = "done"]}
    BY DEF Stage!After
  <2> QED BY <2>1, <2>2 DEF Turn
<1>2. turns' \in [DOMAIN turns -> Turn]
  BY <1>1 DEF Stage!After
<1>3. turns' \in Seq(Turn) /\ turns' # <<>> /\ LastTurn' = turns'[Len(turns)]
  BY <1>0, <1>2, TurnsChanged
<1>4. Len(turns) \in Stage!Waiting(key) <=> LastTurn.stage = "raster" /\ LastTurn.key = key
  BY <1>0 DEF Stage!Waiting, LastTurn
<1>5. (\E n \in Stage!Waiting(key) : Stage!Live(n)) <=> Len(turns) \in Stage!Waiting(key)
  BY DEF Stage!Live
<1>6. turns'[Len(turns)] = IF Len(turns) \notin Stage!Waiting(key) THEN LastTurn
                           ELSE IF drawn THEN [LastTurn EXCEPT !.stage = "text", !.ahead = TRUE]
                           ELSE [LastTurn EXCEPT !.stage = "done"]
  BY <1>0, Zenon DEF Stage!After, Stage!Live, LastTurn
<1>7. LastTurn \in Turn
  BY <1>0 DEF LastTurn
<1>8. LastTurn'.key = LastTurn.key
      /\ LastTurn'.stage = IF LastTurn.stage = "raster" /\ LastTurn.key = key
                           THEN IF drawn THEN "text" ELSE "done"
                           ELSE LastTurn.stage
  BY <1>3, <1>4, <1>6, <1>7 DEF Turn
<1> QED BY <1>3, <1>4, <1>5, <1>8

LEMMA RasterDrawnStep ==
    ASSUME Stage!PagesAssumption, StageShown, Stage!RasterDrawn
    PROVE  StageShown' /\ screen'.page = screen.page
<1>1. PICK key \in DOMAIN rasters :
        LET cache == [rasters EXCEPT ![key] = "ready"]
            shown == \E n \in Stage!Waiting(key) : Stage!Live(n)
        IN /\ rasters[key] = "drawing"
           /\ turns' = Stage!After(key, TRUE)
           /\ screen' = IF shown THEN Stage!Painted(screen, key) ELSE screen
           /\ rasters' = IF shown THEN Stage!Ensure(cache, Stage!NextOf(key)) ELSE cache
  BY Zenon DEF Stage!RasterDrawn
<1> DEFINE cache == [rasters EXCEPT ![key] = "ready"]
           shown == \E n \in Stage!Waiting(key) : Stage!Live(n)
<1>2. /\ screen' = IF shown THEN Stage!Painted(screen, key) ELSE screen
      /\ rasters' = IF shown THEN Stage!Ensure(cache, Stage!NextOf(key)) ELSE cache
      /\ turns' = Stage!After(key, TRUE) /\ rasters[key] = "drawing"
  BY <1>1
<1>3. /\ screen \in Screen /\ Rasters(rasters) /\ key \in StageKeys /\ StageAgrees
      /\ LastTurn.key = Stage!Here
  BY DEF StageShown, Rasters, StageAgrees
<1>4. /\ turns' \in Seq(Turn) /\ turns' # <<>> /\ LastTurn'.key = LastTurn.key
      /\ LastTurn'.stage = IF LastTurn.stage = "raster" /\ LastTurn.key = key
                           THEN "text" ELSE LastTurn.stage
      /\ shown <=> LastTurn.stage = "raster" /\ LastTurn.key = key
  BY <1>2, <1>3, RunsAfter
<1>5. Rasters(cache) /\ DOMAIN cache = DOMAIN rasters
      /\ \A k \in DOMAIN rasters : k # key => cache[k] = rasters[k]
  BY <1>3 DEF Rasters
<1>6. Stage!NextOf(key) \in [page : Int, scale : Scales]
  BY <1>3 DEF StageKeys, Stage!NextOf, Stage!PagesAssumption
<1> HIDE DEF cache, shown
<1>7. Rasters(Stage!Ensure(cache, Stage!NextOf(key)))
  BY <1>5, <1>6, EnsureKeeps
<1>8. Rasters(rasters')
  BY <1>2, <1>5, <1>7
<1>9. CASE shown
  <2>1. /\ screen' \in Screen /\ screen'.page = screen.page /\ screen'.scale = screen.scale
        /\ screen'.rendering = FALSE /\ screen'.textLoading = TRUE
        /\ screen'.interactive = screen.interactive
        /\ screen'.pixels = key /\ screen'.layer = Nothing
    BY <1>2, <1>3, <1>9 DEF Stage!Painted, Screen
  <2>2. Stage!Here' = key /\ LastTurn'.key = key /\ LastTurn'.stage = "text"
        /\ ~screen.interactive
    BY <1>3, <1>4, <1>9, <2>1 DEF Stage!Here, StageAgrees
  <2>3. StageAgrees'
    BY <2>1, <2>2 DEF StageAgrees
  <2> QED BY <1>4, <1>8, <2>1, <2>3 DEF StageShown
<1>10. CASE ~shown
  <2>1. screen' = screen /\ Stage!Here' = Stage!Here /\ LastTurn'.stage = LastTurn.stage
    BY <1>2, <1>4, <1>10 DEF Stage!Here
  <2>2. LastTurn.stage = "raster" =>
          LastTurn.key \in DOMAIN rasters' /\ rasters'[LastTurn.key] = "drawing"
    BY <1>2, <1>3, <1>4, <1>5, <1>10 DEF StageAgrees
  <2>3. StageAgrees'
    BY <1>3, <1>4, <2>1, <2>2 DEF StageAgrees
  <2> QED BY <1>3, <1>4, <1>8, <2>1, <2>3 DEF StageShown
<1> QED BY <1>9, <1>10

LEMMA RasterFailsStep ==
    ASSUME Stage!PagesAssumption, StageShown, Stage!RasterFails
    PROVE  StageShown' /\ screen'.page = screen.page
<1> DEFINE blank == [screen EXCEPT !.error = TRUE, !.rendering = FALSE, !.textLoading = FALSE,
                                   !.interactive = TRUE, !.pixels = Nothing, !.layer = Nothing]
<1>1. PICK key \in DOMAIN rasters :
           /\ rasters[key] = "drawing"
           /\ turns' = Stage!After(key, FALSE)
           /\ screen' = IF \E n \in Stage!Waiting(key) : Stage!Live(n) THEN blank ELSE screen
           /\ rasters' = Stage!Forget(rasters, {key})
  BY Zenon DEF Stage!RasterFails
<1> DEFINE shown == \E n \in Stage!Waiting(key) : Stage!Live(n)
<1>3. /\ screen \in Screen /\ Rasters(rasters) /\ key \in StageKeys /\ StageAgrees
      /\ LastTurn.key = Stage!Here
  BY DEF StageShown, Rasters, StageAgrees
<1>4. /\ turns' \in Seq(Turn) /\ turns' # <<>> /\ LastTurn'.key = LastTurn.key
      /\ LastTurn'.stage = IF LastTurn.stage = "raster" /\ LastTurn.key = key
                           THEN "done" ELSE LastTurn.stage
      /\ shown <=> LastTurn.stage = "raster" /\ LastTurn.key = key
  BY <1>1, <1>3, RunsAfter
<1>5. screen' = IF shown THEN blank ELSE screen
  BY <1>1
<1> HIDE DEF shown
<1>8. Rasters(rasters') /\ \A k \in DOMAIN rasters \ {key} :
                             k \in DOMAIN rasters' /\ rasters'[k] = rasters[k]
  BY <1>1, <1>3 DEF Rasters, Stage!Forget
<1>9. CASE shown
  <2>1. /\ screen' \in Screen /\ screen'.page = screen.page /\ screen'.scale = screen.scale
        /\ screen'.rendering = FALSE /\ screen'.textLoading = FALSE
        /\ screen'.pixels = Nothing /\ screen'.layer = Nothing
    BY <1>3, <1>5, <1>9 DEF Screen
  <2>2. Stage!Here' = Stage!Here /\ LastTurn'.stage = "done"
    BY <1>3, <1>4, <1>9, <2>1 DEF Stage!Here
  <2>3. StageAgrees'
    BY <1>3, <1>4, <2>1, <2>2 DEF StageAgrees
  <2> QED BY <1>4, <1>8, <2>1, <2>3 DEF StageShown
<1>10. CASE ~shown
  <2>1. screen' = screen /\ Stage!Here' = Stage!Here /\ LastTurn'.stage = LastTurn.stage
    BY <1>4, <1>5, <1>10 DEF Stage!Here
  <2>2. LastTurn.stage = "raster" =>
          LastTurn.key \in DOMAIN rasters' /\ rasters'[LastTurn.key] = "drawing"
    BY <1>3, <1>4, <1>8, <1>10 DEF StageAgrees
  <2>3. StageAgrees'
    BY <1>3, <1>4, <2>1, <2>2 DEF StageAgrees
  <2> QED BY <1>3, <1>4, <1>8, <2>1, <2>3 DEF StageShown
<1> QED BY <1>9, <1>10

\* A run that is over, or whose wait is no longer the live one, changes nothing on screen.
LEMMA OtherRunMoves ==
    ASSUME StageShown, NEW n \in DOMAIN turns, NEW t \in Turn, t.key = turns[n].key,
           n = Len(turns) => t.stage = LastTurn.stage,
           turns' = [turns EXCEPT ![n] = t], UNCHANGED screen,
           Rasters(rasters'), \A k \in DOMAIN rasters : k \in DOMAIN rasters' /\ rasters'[k] = rasters[k]
    PROVE  StageShown'
<1>1. turns \in Seq(Turn) /\ turns # <<>> /\ turns' \in [DOMAIN turns -> Turn]
      /\ Len(turns) \in DOMAIN turns /\ LastTurn = turns[Len(turns)]
  BY DEF StageShown, LastTurn
<1>2. turns' \in Seq(Turn) /\ turns' # <<>> /\ LastTurn' = turns'[Len(turns)]
  BY <1>1, TurnsChanged
<1>3. LastTurn'.key = LastTurn.key /\ LastTurn'.stage = LastTurn.stage
  BY <1>1, <1>2
<1>4. Stage!Here' = Stage!Here
  BY DEF Stage!Here
<1>5. StageAgrees'
  BY <1>3, <1>4 DEF StageShown, StageAgrees
<1> QED BY <1>2, <1>5 DEF StageShown

LEMMA DrawPreviousStep ==
    ASSUME Stage!PagesAssumption, StageShown, Stage!DrawPrevious
    PROVE  StageShown' /\ screen'.page = screen.page
<1>1. PICK n \in DOMAIN turns :
        /\ turns' = [turns EXCEPT ![n].ahead = FALSE]
        /\ rasters' = IF Stage!Live(n) THEN Stage!Ensure(rasters, Stage!PreviousOf(turns[n].key))
                      ELSE rasters
        /\ UNCHANGED screen
  BY Zenon DEF Stage!DrawPrevious
<1> DEFINE t == [turns[n] EXCEPT !.ahead = FALSE]
<1>2. turns[n] \in Turn /\ turns \in Seq(Turn) /\ Rasters(rasters)
  BY DEF StageShown
<1>3. t \in Turn /\ t.key = turns[n].key /\ t.stage = turns[n].stage /\ turns[n].key \in StageKeys
  BY <1>2 DEF Turn
<1>4. turns' = [turns EXCEPT ![n] = t]
  BY <1>1
<1> HIDE DEF t
<1>5. Stage!PreviousOf(turns[n].key) \in [page : Int, scale : Scales]
  BY <1>3 DEF StageKeys, Stage!PreviousOf, Stage!PagesAssumption
<1>6. Rasters(rasters') /\ \A k \in DOMAIN rasters : k \in DOMAIN rasters' /\ rasters'[k] = rasters[k]
  BY <1>1, <1>2, <1>5, EnsureKeeps
<1>7. n = Len(turns) => t.stage = LastTurn.stage
  BY <1>3 DEF LastTurn
<1> QED BY <1>1, <1>3, <1>4, <1>6, <1>7, OtherRunMoves

LEMMA TextArrivesStep ==
    ASSUME Stage!PagesAssumption, StageShown, Stage!TextArrives, texts \subseteq 1 .. NumPages
    PROVE  StageShown' /\ screen'.page = screen.page /\ texts' \subseteq 1 .. NumPages
<1>1. PICK n \in DOMAIN turns, extracted \in BOOLEAN :
        LET page == turns[n].key.page
            builds == Stage!Live(n) /\ extracted
        IN /\ turns[n].stage = "text"
           /\ turns' = [turns EXCEPT ![n].stage = IF builds THEN "layer" ELSE "done"]
           /\ texts' = IF builds THEN texts \cup {page} ELSE texts
           /\ screen' = IF ~Stage!Live(n) THEN screen
                        ELSE IF extracted
                             THEN [screen EXCEPT !.text = page, !.layer = turns[n].key]
                             ELSE [screen EXCEPT !.interactive = TRUE, !.textLoading = FALSE]
           /\ UNCHANGED rasters
  BY Zenon DEF Stage!TextArrives
<1> DEFINE stage == IF Stage!Live(n) /\ extracted THEN "layer" ELSE "done"
           t == [turns[n] EXCEPT !.stage = stage]
<1>2. /\ turns[n].stage = "text" /\ turns' = [turns EXCEPT ![n].stage = stage]
      /\ texts' \in {texts, texts \cup {turns[n].key.page}}
      /\ screen' = IF ~Stage!Live(n) THEN screen
                   ELSE IF extracted
                        THEN [screen EXCEPT !.text = turns[n].key.page, !.layer = turns[n].key]
                        ELSE [screen EXCEPT !.interactive = TRUE, !.textLoading = FALSE]
      /\ rasters' = rasters
  BY <1>1
<1>3. turns[n] \in Turn /\ turns \in Seq(Turn) /\ turns # <<>> /\ Rasters(rasters) /\ screen \in Screen
      /\ StageAgrees /\ LastTurn.key = Stage!Here
  BY DEF StageShown, StageAgrees
<1>4. t \in Turn /\ t.key = turns[n].key /\ t.stage = stage /\ turns[n].key \in StageKeys
      /\ turns[n].key.page \in 1 .. NumPages
  BY <1>3 DEF Turn, StageKeys
<1>5. turns' = [turns EXCEPT ![n] = t]
  BY <1>2
<1>6. texts' \subseteq 1 .. NumPages
  BY <1>2, <1>4
<1>7. CASE n # Len(turns)
  <2>1. screen' = screen
    BY <1>2, <1>7 DEF Stage!Live
  <2> QED BY <1>2, <1>3, <1>4, <1>5, <1>6, <1>7, <2>1, OtherRunMoves
<1>8. CASE n = Len(turns)
  <2>1. LastTurn = turns[n] /\ LastTurn.stage = "text" /\ Stage!Live(n)
    BY <1>2, <1>8 DEF LastTurn, Stage!Live
  <2> HIDE DEF t, stage
  <2>2. turns' \in [DOMAIN turns -> Turn] /\ turns'[n] = t
    BY <1>3, <1>4, <1>5
  <2>3. turns' \in Seq(Turn) /\ turns' # <<>> /\ LastTurn' = t
    BY <1>3, <1>8, <2>2, TurnsChanged
  <2>4. /\ screen.pixels = LastTurn.key /\ screen.layer = Nothing
        /\ ~screen.interactive /\ screen.textLoading /\ ~screen.rendering
    BY <1>3, <2>1 DEF StageAgrees, Screen
  <2>5. CASE extracted
    <3>1. /\ screen' \in Screen /\ screen'.page = screen.page /\ screen'.scale = screen.scale
          /\ screen'.layer = LastTurn.key /\ screen'.text = LastTurn.key.page
          /\ screen'.pixels = LastTurn.key /\ screen'.interactive = screen.interactive
          /\ screen'.textLoading = screen.textLoading /\ screen'.rendering = screen.rendering
      BY <1>2, <1>3, <1>4, <2>1, <2>4, <2>5 DEF Screen
    <3>2. Stage!Here' = LastTurn.key /\ LastTurn.key.page = screen.page
      BY <1>3, <3>1 DEF Stage!Here
    <3>3. LastTurn'.stage = "layer" /\ LastTurn'.key = LastTurn.key
      BY <1>4, <2>1, <2>3, <2>5 DEF stage
    <3>4. StageAgrees'
      BY <2>4, <3>1, <3>2, <3>3 DEF StageAgrees
    <3> QED BY <1>2, <1>3, <1>6, <2>3, <3>1, <3>4 DEF StageShown
  <2>6. CASE ~extracted
    <3>1. /\ screen' \in Screen /\ screen'.page = screen.page /\ screen'.scale = screen.scale
          /\ screen'.layer = Nothing /\ screen'.pixels = LastTurn.key
          /\ screen'.textLoading = FALSE /\ screen'.rendering = screen.rendering
      BY <1>2, <1>3, <2>1, <2>4, <2>6 DEF Screen
    <3>2. Stage!Here' = LastTurn.key
      BY <1>3, <3>1 DEF Stage!Here
    <3>3. LastTurn'.stage = "done" /\ LastTurn'.key = LastTurn.key
      BY <1>4, <2>1, <2>3, <2>6 DEF stage
    <3>4. StageAgrees'
      BY <2>4, <3>1, <3>2, <3>3 DEF StageAgrees
    <3> QED BY <1>2, <1>3, <1>6, <2>3, <3>1, <3>4 DEF StageShown
  <2> QED BY <2>5, <2>6
<1> QED BY <1>7, <1>8

LEMMA LayerRenderedStep ==
    ASSUME Stage!PagesAssumption, StageShown, Stage!LayerRendered
    PROVE  StageShown' /\ screen'.page = screen.page
<1>1. PICK n \in DOMAIN turns :
        /\ turns[n].stage = "layer"
        /\ turns' = [turns EXCEPT ![n].stage = "done"]
        /\ screen' = IF Stage!Live(n)
                     THEN [screen EXCEPT !.interactive = TRUE, !.textLoading = FALSE] ELSE screen
        /\ UNCHANGED rasters
  BY Zenon DEF Stage!LayerRendered
<1> DEFINE t == [turns[n] EXCEPT !.stage = "done"]
<1>3. turns[n] \in Turn /\ turns \in Seq(Turn) /\ turns # <<>> /\ Rasters(rasters) /\ screen \in Screen
      /\ StageAgrees /\ LastTurn.key = Stage!Here
  BY DEF StageShown, StageAgrees
<1>4. t \in Turn /\ t.key = turns[n].key /\ t.stage = "done"
  BY <1>3 DEF Turn
<1>5. turns' = [turns EXCEPT ![n] = t]
  BY <1>1
<1> HIDE DEF t
<1>7. CASE n # Len(turns)
  <2>1. screen' = screen
    BY <1>1, <1>7 DEF Stage!Live
  <2> QED BY <1>1, <1>3, <1>4, <1>5, <1>7, <2>1, OtherRunMoves
<1>8. CASE n = Len(turns)
  <2>1. LastTurn = turns[n] /\ LastTurn.stage = "layer" /\ Stage!Live(n)
    BY <1>1, <1>8 DEF LastTurn, Stage!Live
  <2>2. turns' \in [DOMAIN turns -> Turn] /\ turns'[n] = t
    BY <1>3, <1>4, <1>5
  <2>3. turns' \in Seq(Turn) /\ turns' # <<>> /\ LastTurn' = t
    BY <1>3, <1>8, <2>2, TurnsChanged
  <2>4. /\ screen.pixels = Stage!Here /\ screen.layer = Stage!Here /\ screen.text = screen.page
        /\ ~screen.rendering
    BY <1>3, <2>1 DEF StageAgrees, Screen
  <2>5. /\ screen' \in Screen /\ screen'.page = screen.page /\ screen'.scale = screen.scale
        /\ screen'.layer = screen.layer /\ screen'.text = screen.text
        /\ screen'.pixels = screen.pixels /\ screen'.textLoading = FALSE
        /\ screen'.rendering = screen.rendering
    BY <1>1, <1>3, <2>1 DEF Screen
  <2>6. Stage!Here' = Stage!Here /\ LastTurn'.stage = "done" /\ LastTurn'.key = LastTurn.key
    BY <1>4, <2>1, <2>3, <2>5 DEF Stage!Here
  <2>7. StageAgrees'
    BY <1>3, <2>4, <2>5, <2>6 DEF StageAgrees
  <2> QED BY <1>1, <1>3, <2>3, <2>5, <2>7 DEF StageShown
<1> QED BY <1>7, <1>8

LEMMA StayOrTurnStep ==
    ASSUME Stage!PagesAssumption, StageShown, ProgressKnown, texts \subseteq 1 .. NumPages,
           NEW page \in 1 .. NumPages, NEW flights \in Seq(1 .. NumPages),
           NEW current \in 1 .. NumPages, Stage!TurnTo(page, flights, current)
    PROVE  StageShown' /\ ProgressKnown'
<1>1. screen \in Screen
  BY DEF StageShown
<1> DEFINE key == [Stage!Here EXCEPT !.page = page]
<1>2. key \in StageKeys
  BY <1>1 DEF Screen, StageKeys, Stage!Here
<1>3. Stage!GoTo(key) /\ progress' = [timer |-> page, flights |-> flights, current |-> current]
  BY Zenon DEF Stage!TurnTo
<1> HIDE DEF key
<1>4. StageShown'
  BY <1>2, <1>3, GoToStep
<1>5. ProgressKnown'
  BY <1>3 DEF ProgressKnown
<1> QED BY <1>4, <1>5

LEMMA MatchStep ==
    ASSUME Stage!PagesAssumption, StageShown, ProgressKnown, texts \subseteq 1 .. NumPages,
           NEW page \in 1 .. NumPages, Stage!StayOrTurn(page)
    PROVE  StageShown' /\ ProgressKnown'
<1>1. CASE UNCHANGED <<screen, rasters, turns, progress>>
  BY <1>1 DEF StageShown, ProgressKnown, StageAgrees, LastTurn, Stage!Here, Rasters
<1>2. CASE Stage!TurnTo(page, progress.flights, progress.current)
  <2>1. progress.flights \in Seq(1 .. NumPages) /\ progress.current \in 1 .. NumPages
    BY DEF ProgressKnown
  <2> QED BY <1>2, <2>1, StayOrTurnStep
<1> QED BY <1>1, <1>2, Zenon DEF Stage!StayOrTurn

LEMMA ProgressStep ==
    ASSUME Stage!PagesAssumption, StageInv,
           Stage!ProgressTimer \/ Stage!ProgressSaved \/ Stage!ProgressNotSaved
    PROVE  StageInv'
<1> DEFINE Fields == [timer : 1 .. NumPages \cup {Nothing}, flights : Seq(1 .. NumPages),
                      current : 1 .. NumPages]
<1>0. /\ StageShown /\ SearchKnown /\ ProgressKnown /\ progress \in Fields
      /\ screen.page \in 1 .. NumPages /\ texts \subseteq 1 .. NumPages
  BY DEF StageInv, StageShown, Screen, ProgressKnown, SearchKnown
<1>1. SearchKnown'
  BY <1>0 DEF Stage!ProgressTimer, Stage!ProgressSaved, Stage!ProgressNotSaved, SearchKnown
<1>2. ASSUME UNCHANGED <<screen, rasters, turns>> PROVE StageShown'
  BY <1>0, <1>2 DEF StageShown, StageAgrees, LastTurn, Stage!Here, Rasters
<1>3. CASE Stage!ProgressTimer
  <2> DEFINE flights == Append(progress.flights, progress.timer)
  <2>1. progress' = [progress EXCEPT !.timer = Nothing, !.flights = flights]
        /\ progress.timer \in 1 .. NumPages /\ UNCHANGED <<screen, rasters, turns>>
    BY <1>0, <1>3 DEF Stage!ProgressTimer
  <2>2. flights \in Seq(1 .. NumPages)
    BY <1>0, <2>1
  <2> HIDE DEF flights
  <2>3. ProgressKnown'
    BY <1>0, <2>1, <2>2 DEF ProgressKnown
  <2> QED BY <1>1, <1>2, <2>1, <2>3 DEF StageInv
<1>4. ASSUME NEW i \in DOMAIN progress.flights
      PROVE  Stage!RemoveAt(progress.flights, i) \in Seq(1 .. NumPages)
             /\ progress.flights[i] \in 1 .. NumPages
  <2>1. progress.flights \in Seq(1 .. NumPages)
    BY <1>0
  <2>2. i \in 1 .. Len(progress.flights)
    BY <2>1
  <2>3. RemoveAt(progress.flights, i) \in Seq(1 .. NumPages)
    BY <2>1, <2>2, WithoutOne
  <2>4. Stage!RemoveAt(progress.flights, i) = RemoveAt(progress.flights, i)
    BY Zenon DEF Stage!RemoveAt, RemoveAt
  <2>5. Stage!RemoveAt(progress.flights, i) \in Seq(1 .. NumPages)
    BY <2>3, <2>4, Zenon
  <2>6. progress.flights[i] \in 1 .. NumPages
    BY <2>1, <2>2, ElementOfSeq
  <2> QED BY <2>5, <2>6
<1>5. CASE Stage!ProgressSaved
  <2>1. PICK i \in DOMAIN progress.flights :
          LET page == progress.flights[i]
              others == Stage!RemoveAt(progress.flights, i)
          IN IF page # progress.current /\ page # screen.page
             THEN Stage!TurnTo(page, others, page)
             ELSE /\ progress' = [timer |-> screen.page, flights |-> others, current |-> page]
                  /\ UNCHANGED <<screen, rasters, turns>>
    BY <1>5, Zenon DEF Stage!ProgressSaved
  <2> DEFINE page == progress.flights[i]
             others == Stage!RemoveAt(progress.flights, i)
  <2>2. page \in 1 .. NumPages /\ others \in Seq(1 .. NumPages)
    BY <1>4
  <2>3. \/ Stage!TurnTo(page, others, page)
        \/ /\ progress' = [timer |-> screen.page, flights |-> others, current |-> page]
           /\ UNCHANGED <<screen, rasters, turns>>
    BY <2>1
  <2> HIDE DEF page, others
  <2>4. CASE Stage!TurnTo(page, others, page)
    <3>1. StageShown' /\ ProgressKnown'
      BY <1>0, <2>2, <2>4, StayOrTurnStep
    <3> QED BY <1>1, <3>1 DEF StageInv
  <2>5. CASE /\ progress' = [timer |-> screen.page, flights |-> others, current |-> page]
             /\ UNCHANGED <<screen, rasters, turns>>
    <3>1. ProgressKnown'
      BY <1>0, <2>2, <2>5 DEF ProgressKnown
    <3> QED BY <1>1, <1>2, <2>5, <3>1 DEF StageInv
  <2> QED BY <2>3, <2>4, <2>5
<1>6. CASE Stage!ProgressNotSaved
  <2>1. PICK i \in DOMAIN progress.flights :
          progress' = [progress EXCEPT !.flights = Stage!RemoveAt(progress.flights, i)]
    BY <1>6, Zenon DEF Stage!ProgressNotSaved
  <2> DEFINE others == Stage!RemoveAt(progress.flights, i)
  <2>2. others \in Seq(1 .. NumPages) /\ progress' = [progress EXCEPT !.flights = others]
    BY <1>4, <2>1
  <2> HIDE DEF others
  <2>3. ProgressKnown'
    BY <1>0, <2>2 DEF ProgressKnown
  <2> QED BY <1>1, <1>2, <1>6, <2>3 DEF StageInv, Stage!ProgressNotSaved
<1> QED BY <1>3, <1>5, <1>6

LEMMA SearchStep ==
    ASSUME Stage!PagesAssumption, StageInv,
           Stage!TypeQuery \/ Stage!Find \/ Stage!FindEnds \/ Stage!FindFails
             \/ Stage!GoToSearchMatch
    PROVE  StageInv'
<1>0. /\ StageShown /\ SearchKnown /\ ProgressKnown
      /\ screen.page \in 1 .. NumPages /\ texts \subseteq 1 .. NumPages
      /\ search.asked \subseteq 1 .. NumPages /\ search.pages \subseteq 1 .. NumPages
      /\ search.query \in Queries \cup {Nothing} /\ Queries \subseteq SUBSET (1 .. NumPages)
  BY DEF StageInv, StageShown, Screen, SearchKnown, Stage!PagesAssumption
<1>1. ASSUME UNCHANGED <<screen, rasters, turns, progress>> PROVE StageShown' /\ ProgressKnown'
  BY <1>0, <1>1 DEF StageShown, StageAgrees, LastTurn, Stage!Here, Rasters, ProgressKnown
<1>2. CASE Stage!TypeQuery
  <2>1. SearchKnown'
    BY <1>0, <1>2 DEF Stage!TypeQuery, SearchKnown
  <2> QED BY <1>1, <1>2, <2>1 DEF Stage!TypeQuery, StageInv
<1>3. CASE Stage!Find
  <2>1. search' = [search EXCEPT !.busy = TRUE, !.asked = search.query, !.from = screen.page,
                                 !.direction = 1]
        /\ texts' = texts /\ search.query \in SUBSET (1 .. NumPages)
    BY <1>0, <1>3 DEF Stage!Find, Stage!StartFind
  <2>2. SearchKnown'
    BY <1>0, <2>1 DEF SearchKnown
  <2> QED BY <1>1, <1>3, <2>2 DEF Stage!Find, Stage!StartFind, StageInv
<1>4. CASE Stage!FindEnds
  <2>1. SearchKnown'
    <3>1. search' = [search EXCEPT !.busy = FALSE, !.pages = search.asked]
          /\ texts' = 1 .. NumPages
      BY <1>4, Zenon DEF Stage!FindEnds, Stage!AllPages
    <3> QED BY <1>0, <3>1 DEF SearchKnown
  <2>2. CASE search.asked # {} /\ Stage!StayOrTurn(Stage!Target)
    <3> DEFINE beyond == {p \in search.asked : IF search.direction = 1 THEN p > search.from
                                               ELSE p < search.from}
    <3>1. Stage!Target \in {Stage!Min(beyond), Stage!Min(search.asked), Stage!Max(search.asked)}
          /\ (Stage!Target = Stage!Min(beyond) \/ Stage!Target = Stage!Min(search.asked)
                \/ Stage!Target = Stage!Max(search.asked))
      BY Zenon DEF Stage!Target
    <3>2. (beyond # {} => Stage!Target = Stage!Min(beyond))
          /\ (beyond = {} => Stage!Target \in {Stage!Min(search.asked), Stage!Max(search.asked)})
      BY Zenon DEF Stage!Target
    <3>3. beyond \subseteq 1 .. NumPages
      BY <1>0
    <3>4. beyond # {} => Stage!Min(beyond) \in 1 .. NumPages
      BY <3>3, PageBounds
    <3>5. Stage!Min(search.asked) \in 1 .. NumPages /\ Stage!Max(search.asked) \in 1 .. NumPages
      BY <1>0, <2>2, PageBounds
    <3> HIDE DEF beyond
    <3>6. Stage!Target \in 1 .. NumPages
      BY <3>2, <3>4, <3>5
    <3>7. StageShown' /\ ProgressKnown'
      BY <1>0, <2>2, <3>6, MatchStep
    <3> QED BY <2>1, <3>7 DEF StageInv
  <2>3. CASE UNCHANGED <<screen, rasters, turns, progress>>
    BY <1>1, <2>1, <2>3 DEF StageInv
  <2> QED BY <1>4, <2>2, <2>3, Zenon DEF Stage!FindEnds
<1>5. CASE Stage!FindFails
  <2>1. SearchKnown'
    BY <1>0, <1>5 DEF Stage!FindFails, SearchKnown
  <2> QED BY <1>1, <1>5, <2>1 DEF Stage!FindFails, StageInv
<1>6. CASE Stage!GoToSearchMatch
  <2>1. SearchKnown'
    BY <1>0, <1>6 DEF Stage!GoToSearchMatch, SearchKnown
  <2>2. PICK forward \in BOOLEAN :
          LET beyond == {p \in search.pages : IF forward THEN p > screen.page ELSE p < screen.page}
              round == IF beyond # {} THEN beyond ELSE search.pages
          IN /\ search.pages # {}
             /\ Stage!StayOrTurn(IF screen.page \notin search.pages THEN Stage!Min(search.pages)
                                 ELSE IF forward THEN Stage!Min(round) ELSE Stage!Max(round))
    BY <1>6, Zenon DEF Stage!GoToSearchMatch
  <2> DEFINE beyond == {p \in search.pages : IF forward THEN p > screen.page ELSE p < screen.page}
             round == IF beyond # {} THEN beyond ELSE search.pages
             next == IF screen.page \notin search.pages THEN Stage!Min(search.pages)
                     ELSE IF forward THEN Stage!Min(round) ELSE Stage!Max(round)
  <2>3. search.pages # {} /\ Stage!StayOrTurn(next)
    BY <2>2
  <2>4. round \subseteq 1 .. NumPages /\ round # {}
    BY <1>0, <2>3
  <2> HIDE DEF round
  <2>5. next \in 1 .. NumPages
    BY <1>0, <2>3, <2>4, PageBounds
  <2> HIDE DEF next
  <2>6. StageShown' /\ ProgressKnown'
    BY <1>0, <2>3, <2>5, MatchStep
  <2> QED BY <2>1, <2>6 DEF StageInv
<1> QED BY <1>2, <1>3, <1>4, <1>5, <1>6

LEMMA StageStep ==
    ASSUME Stage!PagesAssumption, StageInv, [Stage!PagesNext]_(Stage!pagesVars)
    PROVE  StageInv'
<1>0. /\ StageShown /\ SearchKnown /\ ProgressKnown /\ screen \in Screen /\ texts \subseteq 1 .. NumPages
      /\ progress.flights \in Seq(1 .. NumPages) /\ progress.current \in 1 .. NumPages
  BY DEF StageInv, StageShown, ProgressKnown, SearchKnown
<1>1. ASSUME UNCHANGED progress PROVE ProgressKnown'
  BY <1>0, <1>1 DEF ProgressKnown
<1>2. ASSUME UNCHANGED <<texts, search>> PROVE SearchKnown'
  BY <1>0, <1>2 DEF SearchKnown
<1>3. CASE Stage!TurnPage
  <2>1. PICK p \in 1 .. NumPages : Stage!TurnTo(p, progress.flights, progress.current)
    BY <1>3, Zenon DEF Stage!TurnPage, Stage!AllPages
  <2>2. StageShown' /\ ProgressKnown'
    BY <1>0, <2>1, StayOrTurnStep
  <2> QED BY <1>2, <1>3, <2>2 DEF Stage!TurnPage, StageInv
<1>4. CASE Stage!Zoom
  <2>1. PICK s \in Scales : Stage!GoTo([Stage!Here EXCEPT !.scale = s])
    BY <1>4, Zenon DEF Stage!Zoom
  <2> DEFINE key == [Stage!Here EXCEPT !.scale = s]
  <2>2. key \in StageKeys
    BY <1>0 DEF Screen, StageKeys, Stage!Here
  <2> HIDE DEF key
  <2>3. Stage!GoTo(key)
    BY <2>1 DEF key
  <2>4. StageShown'
    BY <1>0, <2>2, <2>3, GoToStep
  <2> QED BY <1>1, <1>2, <1>4, <2>4 DEF Stage!Zoom, StageInv
<1>5. CASE Stage!RasterDrawn
  <2>1. StageShown' /\ UNCHANGED <<texts, search, progress>>
    BY <1>0, <1>5, RasterDrawnStep DEF Stage!RasterDrawn
  <2> QED BY <1>1, <1>2, <2>1 DEF StageInv
<1>6. CASE Stage!RasterFails
  <2>1. StageShown' /\ UNCHANGED <<texts, search, progress>>
    BY <1>0, <1>6, RasterFailsStep DEF Stage!RasterFails
  <2> QED BY <1>1, <1>2, <2>1 DEF StageInv
<1>7. CASE Stage!DrawPrevious
  <2>1. StageShown' /\ UNCHANGED <<texts, search, progress>>
    BY <1>0, <1>7, DrawPreviousStep DEF Stage!DrawPrevious
  <2> QED BY <1>1, <1>2, <2>1 DEF StageInv
<1>8. CASE Stage!TextArrives
  <2>1. StageShown' /\ texts' \subseteq 1 .. NumPages
    BY <1>0, <1>8, TextArrivesStep
  <2>2. UNCHANGED <<search, progress>>
    BY <1>8, Zenon DEF Stage!TextArrives
  <2>3. SearchKnown'
    BY <1>0, <2>1, <2>2 DEF SearchKnown
  <2> QED BY <1>1, <2>1, <2>2, <2>3 DEF StageInv
<1>9. CASE Stage!LayerRendered
  <2>1. StageShown' /\ UNCHANGED <<texts, search, progress>>
    BY <1>0, <1>9, LayerRenderedStep DEF Stage!LayerRendered
  <2> QED BY <1>1, <1>2, <2>1 DEF StageInv
<1>10. ASSUME UNCHANGED <<screen, rasters, turns>> PROVE StageShown'
  BY <1>0, <1>10 DEF StageShown, StageAgrees, LastTurn, Stage!Here, Rasters
<1>11. CASE Stage!ReadContext
  <2> DEFINE both == {NumPages, screen.page + 3}
  <2>1. Stage!Min(both) \in 1 .. NumPages
    <3>1. NumPages \in Nat \ {0} /\ screen.page \in 1 .. NumPages
      BY <1>0 DEF Screen, Stage!PagesAssumption
    <3>2. \E x \in both : \A y \in both : x =< y
      BY <3>1
    <3>3. Stage!Min(both) \in both /\ \A y \in both : Stage!Min(both) =< y
      BY <3>2, Zenon DEF Stage!Min
    <3> QED BY <3>1, <3>3
  <2>2. texts' = texts \cup 1 .. Stage!Min(both) /\ UNCHANGED <<screen, rasters, turns, search, progress>>
    BY <1>11, Zenon DEF Stage!ReadContext
  <2> HIDE DEF both
  <2> DEFINE low == Stage!Min(both)
  <2>3. texts' \subseteq 1 .. NumPages
    <3>1. NumPages \in Nat
      BY DEF Stage!PagesAssumption
    <3> HIDE DEF low
    <3>2. 1 .. low \subseteq 1 .. NumPages
      BY <2>1, <3>1 DEF low
    <3> QED BY <1>0, <2>2, <3>2 DEF low
  <2>4. SearchKnown'
    BY <1>0, <2>2, <2>3 DEF SearchKnown
  <2> QED BY <1>1, <1>10, <2>2, <2>4 DEF StageInv
<1>12. CASE UNCHANGED Stage!pagesVars
  BY <1>1, <1>2, <1>10, <1>12 DEF Stage!pagesVars, StageInv
<1> QED BY <1>3, <1>4, <1>5, <1>6, <1>7, <1>8, <1>9, <1>11, <1>12, ProgressStep, SearchStep
        DEF Stage!PagesNext

(* What can be selected on a page is the text of the pixels under it, and a     *)
(* spinner stands for the wait of the last run of the page effect, whichever    *)
(* page or zoom a raster, a text or a layer was for (the page effect of         *)
(* ShelfPDFReader.tsx, its search and its saved progress).                      *)
THEOREM PageIsShownWhole ==
    ASSUME Stage!PagesAssumption
    PROVE  Stage!PagesSpec => [](/\ Stage!PagesTypeOK /\ Stage!SelectableTextIsThisPage
                                 /\ Stage!SpinnerIsWork)
<1>1. ASSUME Stage!PagesInit PROVE StageInv
  <2> DEFINE key == [page |-> 1, scale |-> CHOOSE s \in Scales : TRUE]
             t == [key |-> key, stage |-> "raster", ahead |-> FALSE]
  <2>1. key \in StageKeys /\ 1 \in 1 .. NumPages /\ key.page = 1
    BY DEF Stage!PagesAssumption, StageKeys
  <2>2. /\ screen = [page |-> 1, scale |-> key.scale, error |-> FALSE, rendering |-> TRUE,
                     textLoading |-> FALSE, pixels |-> Nothing, layer |-> Nothing,
                     interactive |-> FALSE, text |-> Nothing]
        /\ rasters = [k \in {key} |-> "drawing"] /\ turns = <<t>> /\ texts = {}
        /\ search = Stage!NoSearch /\ progress = [timer |-> 1, flights |-> <<>>, current |-> 1]
    BY <1>1, Zenon DEF Stage!PagesInit
  <2>3. t \in Turn /\ t.key = key /\ t.stage = "raster" /\ key = [page |-> 1, scale |-> key.scale]
        /\ key.scale \in Scales
    BY <2>1 DEF Turn, StageKeys
  <2> HIDE DEF key, t
  <2>4. turns \in Seq(Turn) /\ turns # <<>> /\ LastTurn = t
    BY <2>2, <2>3 DEF LastTurn
  <2>5. screen \in Screen /\ Stage!Here = key
    BY <2>1, <2>2, <2>3 DEF Screen, Stage!Here
  <2>6. StageAgrees
    BY <2>2, <2>3, <2>4, <2>5 DEF StageAgrees
  <2>7. Rasters(rasters)
    BY <2>1, <2>2 DEF Rasters
  <2>8. SearchKnown
    BY <2>1, <2>2 DEF SearchKnown, Stage!NoSearch
  <2>9. ProgressKnown
    BY <2>1, <2>2 DEF ProgressKnown
  <2> QED BY <2>4, <2>5, <2>6, <2>7, <2>8, <2>9 DEF StageInv, StageShown
<1>2. ASSUME StageInv, [Stage!PagesNext]_(Stage!pagesVars) PROVE StageInv'
  BY <1>2, StageStep
<1>3. ASSUME StageInv
      PROVE  /\ screen \in Screen /\ Rasters(rasters) /\ StageAgrees
             /\ LastTurn.stage \in {"raster", "text", "layer", "done"}
             /\ \A n \in DOMAIN turns : turns[n].key \in StageKeys
  <2>1. turns \in Seq(Turn) /\ turns # <<>>
    BY <1>3 DEF StageInv, StageShown
  <2>2. \A n \in DOMAIN turns : turns[n] \in Turn
    BY <2>1
  <2>3. Len(turns) \in DOMAIN turns
    BY <2>1
  <2>4. LastTurn \in Turn
    BY <2>2, <2>3 DEF LastTurn
  <2> QED BY <1>3, <2>2, <2>4 DEF StageInv, StageShown, Turn
<1>4. ASSUME StageInv PROVE Stage!PagesTypeOK
  <2>1. Stage!AllPages = 1 .. NumPages /\ Stage!Keys = StageKeys
    BY DEF Stage!AllPages, Stage!Keys, StageKeys
  <2>2. screen \in [page : Stage!AllPages, scale : Scales, error : BOOLEAN, rendering : BOOLEAN,
                    textLoading : BOOLEAN, pixels : Stage!Keys \cup {Nothing},
                    layer : Stage!Keys \cup {Nothing}, interactive : BOOLEAN,
                    text : Stage!AllPages \cup {Nothing}]
    BY <1>3, <1>4, <2>1, Zenon DEF Screen
  <2>3. /\ texts \subseteq 1 .. NumPages /\ search.pages \subseteq 1 .. NumPages
        /\ progress.timer \in 1 .. NumPages \cup {Nothing} /\ progress.current \in 1 .. NumPages
    BY <1>4 DEF StageInv, SearchKnown, ProgressKnown
  <2>4. DOMAIN rasters \subseteq StageKeys /\ \A n \in DOMAIN turns : turns[n].key \in StageKeys
    BY <1>3, <1>4 DEF Rasters
  <2> QED BY <2>1, <2>2, <2>3, <2>4, Zenon DEF Stage!PagesTypeOK
<1>5. ASSUME StageInv PROVE Stage!SelectableTextIsThisPage
  BY <1>3, <1>5 DEF StageAgrees, Screen, Stage!SelectableTextIsThisPage
<1>6. ASSUME StageInv PROVE Stage!SpinnerIsWork
  <2>1. /\ screen.rendering \in BOOLEAN /\ screen.textLoading \in BOOLEAN /\ StageAgrees
        /\ LastTurn = turns[Len(turns)] /\ LastTurn.stage \in {"raster", "text", "layer", "done"}
    BY <1>3, <1>6 DEF Screen, LastTurn
  <2> QED BY <2>1 DEF StageAgrees, Stage!SpinnerIsWork
<1> QED BY <1>1, <1>2, <1>4, <1>5, <1>6, PTL DEF Stage!PagesSpec

-----------------------------------------------------------------------------
(* The marks on the pages                                                  *)

Marks == INSTANCE ReaderMarks

Selection == [quote : Quotes, at : BookPages]

\* A call of the tutor carries the reader of its render.
TutorCall ==
    [kind : {"tutor"}, page : BookPages, ready : BOOLEAN, pending : Selection \cup {Nothing},
     known : SUBSET Marks!Mark, todo : Seq(Quotes) \ {<<>>}, turned : BOOLEAN]

\* A save and a call of the tutor carry a selection that was made on their page.
MarkCall ==
    [kind : {"load"}] \cup [kind : {"list"}, items : SUBSET Marks!Mark]
      \cup {c \in [kind : {"save"}, page : BookPages, quote : Quotes, at : BookPages, turned : BOOLEAN] :
              c.at = c.page}
      \cup [kind : {"delete"}, id : 1 .. MaxMarks]
      \cup {c \in TutorCall : c.pending # Nothing => c.pending.at = c.page}

IsReading(c) == c.kind \in {"load", "list"}
NoList == \A i \in DOMAIN calls : ~IsReading(calls[i])

CallsKnown ==
    /\ calls \in Seq(MarkCall) /\ Len(calls) <= MaxCalls
    /\ \A i, j \in DOMAIN calls : IsReading(calls[i]) /\ IsReading(calls[j]) => i = j

\* Until the page is turned, the layer of a tutor's question is still the one in the document.
Near(c) == c.kind = "tutor" /\ c.ready /\ ~c.turned => place.ready /\ place.layer = c.page
TutorKnown == \A i \in DOMAIN calls : Near(calls[i])

\* What is selected lies on the page that is open.
PlaceKnown ==
    /\ place \in [page : BookPages, layer : BookPages \cup {Nothing}, ready : BOOLEAN,
                  pending : Selection \cup {Nothing}, saving : BOOLEAN, late : BOOLEAN]
    /\ place.ready => place.layer = place.page
    /\ place.pending # Nothing => place.pending.at = place.page

\* The ids of the stored marks were given once, and a mark lies on its page.
StoreKnown ==
    /\ stored \in [items : SUBSET Marks!Mark, created : 0 .. MaxMarks]
    /\ listed \subseteq Marks!Mark
    /\ \A a \in stored.items : a.id <= stored.created
    /\ \A a, b \in stored.items : a.id = b.id => a = b
    /\ Marks!MarksLieOnTheirPage

\* Once the list of the opening has come, and came in time, what is listed is what is stored.
ListFollows ==
    /\ place.late => NoList
    /\ NoList /\ ~place.late => listed = stored.items

MarksInv == PlaceKnown /\ StoreKnown /\ CallsKnown /\ TutorKnown /\ ListFollows

\* No question is new.
AsBefore(c, d) == c.kind = "tutor" => /\ d.kind = "tutor" /\ c.page = d.page
                                      /\ c.ready = d.ready /\ c.turned = d.turned
NothingAsked == \A k \in DOMAIN calls' : \E j \in DOMAIN calls : AsBefore(calls'[k], calls[j])

LEMMA TutorStays ==
    ASSUME TutorKnown, NothingAsked, place'.ready = place.ready, place'.layer = place.layer
    PROVE  TutorKnown'
<1> SUFFICES ASSUME NEW k \in DOMAIN calls' PROVE Near(calls[k])'
  BY DEF TutorKnown
<1>1. PICK j \in DOMAIN calls : AsBefore(calls'[k], calls[j])
  BY Zenon DEF NothingAsked
<1>2. Near(calls[j])
  BY DEF TutorKnown
<1> QED BY <1>1, <1>2 DEF Near, AsBefore

LEMMA OneCall ==
    ASSUME CallsKnown, NEW i \in DOMAIN calls
    PROVE  calls[i] \in MarkCall
BY DEF CallsKnown

LEMMA CallAnswered ==
    ASSUME CallsKnown, NEW i \in DOMAIN calls, Marks!Answered(i), MaxCalls \in Nat
    PROVE  /\ CallsKnown' /\ NothingAsked
           /\ ~IsReading(calls[i]) => (NoList' <=> NoList)
           /\ IsReading(calls[i]) => NoList'
<1> DEFINE rest == RemoveAt(calls, i)
<1>0. calls \in Seq(MarkCall) /\ i \in 1 .. Len(calls) /\ Len(calls) \in Nat
      /\ DOMAIN calls = 1 .. Len(calls) /\ Len(calls) <= MaxCalls
  BY DEF CallsKnown
<1>1. calls' = rest
  BY Zenon DEF Marks!Answered, Marks!RemoveAt, RemoveAt
<1>2. /\ rest \in Seq(MarkCall) /\ Len(rest) = Len(calls) - 1
      /\ \A k \in 1 .. Len(calls) - 1 : rest[k] = IF k < i THEN calls[k] ELSE calls[k + 1]
  BY <1>0, WithoutOne
<1> HIDE DEF rest
<1>3. DOMAIN rest = 1 .. Len(calls) - 1 /\ Len(rest) \in Nat
  BY <1>2
<1> DEFINE was(k) == IF k < i THEN k ELSE k + 1
<1>4. \A k \in DOMAIN rest : was(k) \in DOMAIN calls /\ was(k) # i /\ rest[k] = calls[was(k)]
  BY <1>0, <1>2, <1>3
<1>5. \A k, l \in DOMAIN rest : was(k) = was(l) => k = l
  BY <1>0, <1>3
<1>6. \A j \in DOMAIN calls : j # i => \E k \in DOMAIN rest : was(k) = j
  <2> SUFFICES ASSUME NEW j \in DOMAIN calls, j # i PROVE \E k \in DOMAIN rest : was(k) = j
    OBVIOUS
  <2>1. CASE j < i
    <3>1. j \in DOMAIN rest /\ was(j) = j
      BY <1>0, <1>3, <2>1
    <3> QED BY <3>1
  <2>2. CASE ~(j < i)
    <3>1. j - 1 \in DOMAIN rest /\ was(j - 1) = j
      BY <1>0, <1>3, <2>2
    <3> QED BY <3>1
  <2> QED BY <2>1, <2>2
<1> HIDE DEF was
<1>7. \A k, l \in DOMAIN rest : IsReading(rest[k]) /\ IsReading(rest[l]) => k = l
  BY <1>4, <1>5, Zenon DEF CallsKnown
<1>8. CallsKnown'
  <2>1. Len(calls') <= MaxCalls
    BY <1>0, <1>1, <1>2
  <2> QED BY <1>1, <1>2, <1>7, <2>1 DEF CallsKnown
<1>9. ~IsReading(calls[i]) => (NoList' <=> NoList)
  BY <1>1, <1>4, <1>6, Zenon DEF NoList
<1>10. IsReading(calls[i]) => NoList'
  BY <1>1, <1>4, Zenon DEF NoList, CallsKnown
<1>11. NothingAsked
  BY <1>1, <1>4, Zenon DEF NothingAsked, AsBefore
<1> QED BY <1>8, <1>9, <1>10, <1>11

LEMMA CallSent ==
    ASSUME CallsKnown, NEW c \in MarkCall, ~IsReading(c), Marks!Send(c), MaxCalls \in Nat,
           TutorKnown, Near(c), UNCHANGED <<place.ready, place.layer>>
    PROVE  CallsKnown' /\ TutorKnown' /\ (NoList' <=> NoList)
<1>1. /\ calls \in Seq(MarkCall) /\ Len(calls) \in Nat /\ DOMAIN calls = 1 .. Len(calls)
      /\ calls' = Append(calls, c) /\ Len(calls) < MaxCalls
  BY DEF CallsKnown, Marks!Send
<1>2. /\ calls' \in Seq(MarkCall) /\ Len(calls') = Len(calls) + 1
      /\ DOMAIN calls' = 1 .. Len(calls) + 1 /\ calls'[Len(calls) + 1] = c
      /\ \A k \in 1 .. Len(calls) : calls'[k] = calls[k]
  BY <1>1
<1>3. \A k \in DOMAIN calls' : IsReading(calls'[k]) => k \in DOMAIN calls /\ calls'[k] = calls[k]
  BY <1>1, <1>2
<1>4. \A k \in DOMAIN calls : k \in DOMAIN calls' /\ calls'[k] = calls[k]
  BY <1>1, <1>2
<1>5. \A i, j \in DOMAIN calls' : IsReading(calls'[i]) /\ IsReading(calls'[j]) => i = j
  BY <1>3, Zenon DEF CallsKnown
<1>6. Len(calls') <= MaxCalls
  BY <1>1, <1>2
<1>7. NoList' <=> NoList
  BY <1>3, <1>4, Zenon DEF NoList
<1>8. \A k \in DOMAIN calls' : Near(calls'[k])
  BY <1>1, <1>2 DEF TutorKnown
<1>9. TutorKnown'
  BY <1>8 DEF TutorKnown, Near
<1> QED BY <1>2, <1>5, <1>6, <1>7, <1>9 DEF CallsKnown

\* A call that goes on under the same kind of reading.
LEMMA CallChanged ==
    ASSUME CallsKnown, NEW i \in DOMAIN calls, NEW c \in MarkCall, IsReading(c) <=> IsReading(calls[i]),
           AsBefore(c, calls[i]), calls' = [calls EXCEPT ![i] = c]
    PROVE  CallsKnown' /\ NothingAsked /\ (NoList' <=> NoList)
<1>1. calls \in Seq(MarkCall) /\ Len(calls) \in Nat /\ DOMAIN calls = 1 .. Len(calls)
  BY DEF CallsKnown
<1>2. calls' \in Seq(MarkCall) /\ Len(calls') = Len(calls) /\ DOMAIN calls' = DOMAIN calls
  BY <1>1
<1>3. \A k \in DOMAIN calls : IsReading(calls'[k]) <=> IsReading(calls[k])
  BY <1>1
<1>4. \A k, j \in DOMAIN calls' : IsReading(calls'[k]) /\ IsReading(calls'[j]) => k = j
  BY <1>2, <1>3, Zenon DEF CallsKnown
<1>5. NoList' <=> NoList
  BY <1>2, <1>3, Zenon DEF NoList
<1>6. \A k \in DOMAIN calls : AsBefore(calls'[k], calls[k])
  BY <1>1 DEF AsBefore
<1>7. NothingAsked
  BY <1>2, <1>6, Zenon DEF NothingAsked
<1> QED BY <1>2, <1>4, <1>5, <1>7 DEF CallsKnown

\* Where no call is sent or answered, what is said of the calls stays.
LEMMA CallsStand ==
    ASSUME CallsKnown, UNCHANGED calls
    PROVE  CallsKnown' /\ NothingAsked /\ (NoList' <=> NoList)
BY DEF CallsKnown, NoList, NothingAsked, AsBefore

\* When the page is turned, every question is one during which it was.
LEMMA CallsTurned ==
    ASSUME CallsKnown, calls' = [i \in DOMAIN calls |-> Marks!Turned(calls[i])]
    PROVE  CallsKnown' /\ TutorKnown' /\ (NoList' <=> NoList)
<1>1. /\ calls \in Seq(MarkCall) /\ Len(calls) \in Nat /\ DOMAIN calls = 1 .. Len(calls)
      /\ Len(calls) <= MaxCalls
  BY DEF CallsKnown
<1>2. \A c \in MarkCall : /\ Marks!Turned(c) \in MarkCall /\ (IsReading(Marks!Turned(c)) <=> IsReading(c))
                          /\ Near(Marks!Turned(c))'
  <2> SUFFICES ASSUME NEW c \in MarkCall
               PROVE  /\ Marks!Turned(c) \in MarkCall /\ (IsReading(Marks!Turned(c)) <=> IsReading(c))
                      /\ Near(Marks!Turned(c))'
    OBVIOUS
  <2>1. CASE c.kind = "tutor"
    <3>1. c \in TutorCall /\ (c.pending # Nothing => c.pending.at = c.page)
      BY <2>1 DEF MarkCall
    <3>2. Marks!Turned(c) = [c EXCEPT !.turned = TRUE]
      BY <2>1, Zenon DEF Marks!Turned
    <3>3. /\ Marks!Turned(c) \in TutorCall /\ Marks!Turned(c).turned = TRUE
          /\ Marks!Turned(c).kind = "tutor" /\ Marks!Turned(c).page = c.page
          /\ Marks!Turned(c).pending = c.pending
      BY <3>1, <3>2 DEF TutorCall
    <3> QED BY <2>1, <3>1, <3>3 DEF MarkCall, IsReading, Near
  <2>2. CASE c.kind # "tutor"
    <3>1. Marks!Turned(c) = c
      BY <2>2, Zenon DEF Marks!Turned
    <3> QED BY <2>2, <3>1 DEF Near
  <2> QED BY <2>1, <2>2
<1>3. \A k \in DOMAIN calls : calls[k] \in MarkCall
  BY <1>1
<1>4. /\ DOMAIN calls' = DOMAIN calls
      /\ \A k \in DOMAIN calls : calls'[k] = Marks!Turned(calls[k])
  BY Zenon
<1>5. calls' \in Seq(MarkCall) /\ Len(calls') = Len(calls)
  <2>1. \A k \in 1 .. Len(calls) : Marks!Turned(calls[k]) \in MarkCall
    BY <1>1, <1>2, <1>3
  <2>2. calls' = [k \in 1 .. Len(calls) |-> Marks!Turned(calls[k])]
    BY <1>1
  <2> QED BY <1>1, <2>1, <2>2
<1>6. \A k \in DOMAIN calls : IsReading(calls'[k]) <=> IsReading(calls[k])
  BY <1>2, <1>3, <1>4, Zenon
<1>7. CallsKnown'
  <2>1. \A i, j \in DOMAIN calls' : IsReading(calls'[i]) /\ IsReading(calls'[j]) => i = j
    BY <1>4, <1>6, Zenon DEF CallsKnown
  <2> QED BY <1>1, <1>5, <2>1 DEF CallsKnown
<1>8. NoList' <=> NoList
  BY <1>4, <1>6, Zenon DEF NoList
<1>9. TutorKnown'
  <2> SUFFICES ASSUME NEW k \in DOMAIN calls' PROVE Near(calls[k])'
    BY DEF TutorKnown
  <2>1. PICK c \in MarkCall : calls'[k] = Marks!Turned(c)
    BY <1>3, <1>4
  <2>2. Near(Marks!Turned(c))'
    BY <1>2
  <2> QED BY <2>1, <2>2 DEF Near
<1> QED BY <1>7, <1>8, <1>9

\* Turning the page drops the selection; until its layer is there nothing can be selected.
LEMMA PlaceStep ==
    ASSUME MarksInv, Marks!MarksAssumption,
           \/ Marks!TurnPage \/ Marks!LayerReady \/ Marks!CaptureSelection \/ Marks!DiscardSelection
    PROVE  MarksInv'
<1>1. UNCHANGED <<listed, stored>> /\ place'.late = place.late
  BY DEF Marks!TurnPage, Marks!LayerReady, Marks!CaptureSelection, Marks!DiscardSelection,
         MarksInv, PlaceKnown
<1>2. PlaceKnown'
  <2>1. CASE Marks!TurnPage
    BY <2>1 DEF MarksInv, PlaceKnown, Marks!TurnPage
  <2>2. CASE Marks!LayerReady
    BY <2>2 DEF MarksInv, PlaceKnown, Marks!LayerReady
  <2>3. CASE Marks!CaptureSelection
    <3>1. PICK q \in Marks!Selectable : place' = [place EXCEPT !.pending = [quote |-> q, at |-> place.layer]]
      BY <2>3, Zenon DEF Marks!CaptureSelection
    <3>2. q \in Quotes /\ place.ready /\ place.layer # Nothing
      BY <3>1 DEF Marks!Selectable, Marks!Located
    <3>3. place.layer = place.page /\ [quote |-> q, at |-> place.layer] \in Selection
      BY <3>2 DEF MarksInv, PlaceKnown, Selection
    <3> QED BY <3>1, <3>2, <3>3 DEF MarksInv, PlaceKnown
  <2>4. CASE Marks!DiscardSelection
    BY <2>4 DEF MarksInv, PlaceKnown, Marks!DiscardSelection
  <2> QED BY <2>1, <2>2, <2>3, <2>4
<1>3. CallsKnown' /\ TutorKnown' /\ (NoList' <=> NoList)
  <2>1. CASE Marks!TurnPage
    <3>1. calls' = [i \in DOMAIN calls |-> Marks!Turned(calls[i])]
      BY <2>1, Zenon DEF Marks!TurnPage
    <3> QED BY <3>1, CallsTurned DEF MarksInv
  <2>2. CASE Marks!LayerReady
    <3>1. UNCHANGED calls /\ ~place.ready
      BY <2>2 DEF Marks!LayerReady
    <3>2. CallsKnown' /\ NothingAsked /\ (NoList' <=> NoList)
      BY <3>1, CallsStand DEF MarksInv
    <3>3. TutorKnown'
      BY <3>1 DEF MarksInv, TutorKnown, Near
    <3> QED BY <3>2, <3>3
  <2>3. CASE Marks!CaptureSelection \/ Marks!DiscardSelection
    <3>1. UNCHANGED calls /\ place'.ready = place.ready /\ place'.layer = place.layer
      BY <2>3 DEF Marks!CaptureSelection, Marks!DiscardSelection, MarksInv, PlaceKnown
    <3> QED BY <3>1, CallsStand, TutorStays DEF MarksInv
  <2> QED BY <2>1, <2>2, <2>3
<1>4. StoreKnown' /\ ListFollows'
  BY <1>1, <1>3 DEF MarksInv, StoreKnown, ListFollows, Marks!MarksLieOnTheirPage
<1> QED BY <1>2, <1>3, <1>4 DEF MarksInv

\* A save, a delete or a question is sent with what the reader shows when it is sent.
LEMMA SentStep ==
    ASSUME MarksInv, Marks!MarksAssumption,
           Marks!SaveHighlight \/ Marks!DeleteAnnotation \/ Marks!AskTutor
    PROVE  MarksInv'
<1>0. MaxCalls \in Nat
  BY DEF Marks!MarksAssumption
<1>1. /\ UNCHANGED <<listed, stored>> /\ PlaceKnown' /\ place'.late = place.late
      /\ UNCHANGED <<place.ready, place.layer>>
  BY DEF Marks!SaveHighlight, Marks!DeleteAnnotation, Marks!AskTutor, MarksInv, PlaceKnown
<1>2. \E c \in MarkCall : ~IsReading(c) /\ Near(c) /\ Marks!Send(c)
  <2>1. CASE Marks!SaveHighlight
    <3> DEFINE c == [kind |-> "save", page |-> place.page, quote |-> place.pending.quote,
                     at |-> place.pending.at, turned |-> FALSE]
    <3>1. place.pending \in Selection /\ place.pending.at = place.page /\ place.page \in BookPages
      BY <2>1 DEF Marks!SaveHighlight, MarksInv, PlaceKnown
    <3>2. c \in MarkCall /\ ~IsReading(c) /\ Near(c)
      BY <3>1 DEF MarkCall, Selection, IsReading, Near
    <3>3. Marks!Send(c)
      BY <2>1, Zenon DEF Marks!SaveHighlight
    <3> HIDE DEF c
    <3> QED BY <3>2, <3>3
  <2>2. CASE Marks!DeleteAnnotation
    <3>1. PICK a \in listed : Marks!Send([kind |-> "delete", id |-> a.id])
      BY <2>2, Zenon DEF Marks!DeleteAnnotation
    <3> DEFINE c == [kind |-> "delete", id |-> a.id]
    <3>2. c \in MarkCall /\ ~IsReading(c) /\ Near(c)
      BY DEF MarkCall, IsReading, Near, MarksInv, StoreKnown, Marks!Mark
    <3>3. Marks!Send(c)
      BY <3>1
    <3> HIDE DEF c
    <3> QED BY <3>2, <3>3
  <2>3. CASE Marks!AskTutor
    <3>1. PICK todo \in Marks!BoundedSeq(Quotes, MaxAsked) \ {<<>>} :
            Marks!Send([kind |-> "tutor", page |-> place.page, ready |-> place.ready,
                        pending |-> place.pending, known |-> listed, todo |-> todo,
                        turned |-> FALSE])
      BY <2>3, Zenon DEF Marks!AskTutor
    <3>2. todo \in Seq(Quotes) \ {<<>>}
      BY DEF Marks!BoundedSeq, Marks!SeqOf, Marks!MarksAssumption
    <3> DEFINE c == [kind |-> "tutor", page |-> place.page, ready |-> place.ready,
                     pending |-> place.pending, known |-> listed, todo |-> todo, turned |-> FALSE]
    <3>3. c \in MarkCall /\ ~IsReading(c) /\ Near(c)
      <4>1. c \in TutorCall
        BY <3>2 DEF TutorCall, MarksInv, PlaceKnown, StoreKnown
      <4>2. c.pending # Nothing => c.pending.at = c.page
        BY DEF MarksInv, PlaceKnown
      <4>3. Near(c)
        BY DEF Near, MarksInv, PlaceKnown
      <4>4. c.kind = "tutor"
        OBVIOUS
      <4> HIDE DEF c
      <4> QED BY <4>1, <4>2, <4>3, <4>4 DEF MarkCall, IsReading
    <3>4. Marks!Send(c)
      BY <3>1
    <3> HIDE DEF c
    <3> QED BY <3>3, <3>4
  <2> QED BY <2>1, <2>2, <2>3
<1>3. CallsKnown' /\ TutorKnown' /\ (NoList' <=> NoList)
  BY <1>0, <1>1, <1>2, CallSent DEF MarksInv
<1>4. StoreKnown' /\ ListFollows'
  BY <1>1, <1>3 DEF MarksInv, StoreKnown, ListFollows, Marks!MarksLieOnTheirPage
<1> QED BY <1>1, <1>3, <1>4 DEF MarksInv

\* A mark that was created is stored and listed alike, under an id of its own.
LEMMA MarkAdded ==
    ASSUME StoreKnown, NEW call, NEW by \in {"reader", "tutor"}, Marks!MarksAssumption,
           call.page \in BookPages, call.quote \in Quotes, call.at \in BookPages,
           call.turned \in BOOLEAN, call.at = call.page \/ call.turned,
           Marks!Store(Marks!NewMark(call, by)), listed' = listed \cup {Marks!NewMark(call, by)}
    PROVE  StoreKnown' /\ (listed = stored.items => listed' = stored'.items)
<1> DEFINE mark == Marks!NewMark(call, by)
<1>1. stored \in [items : SUBSET Marks!Mark, created : 0 .. MaxMarks] /\ MaxMarks \in Nat
  BY DEF StoreKnown, Marks!MarksAssumption
<1>2. /\ mark.id = stored.created + 1 /\ mark.turned = call.turned
      /\ mark.at = call.at /\ mark.page = call.page
  BY DEF Marks!NewMark
<1>3. mark \in Marks!Mark
  BY <1>1 DEF Marks!NewMark, Marks!Mark, Marks!Store
<1> HIDE DEF mark
<1>4. /\ stored' = [items |-> stored.items \cup {mark}, created |-> stored.created + 1]
      /\ stored.created < MaxMarks /\ listed' = listed \cup {mark}
  BY <1>2, Zenon DEF Marks!Store, mark
<1>5. \A a \in stored'.items : a.id <= stored'.created
  BY <1>1, <1>2, <1>4 DEF StoreKnown, Marks!Mark
<1>6. \A a, b \in stored'.items : a.id = b.id => a = b
  BY <1>1, <1>2, <1>4 DEF StoreKnown, Marks!Mark
<1>7. Marks!MarksLieOnTheirPage'
  BY <1>2, <1>4 DEF StoreKnown, Marks!MarksLieOnTheirPage
<1>8. /\ stored' \in [items : SUBSET Marks!Mark, created : 0 .. MaxMarks]
      /\ listed' \subseteq Marks!Mark
  BY <1>1, <1>3, <1>4 DEF StoreKnown
<1> QED BY <1>4, <1>5, <1>6, <1>7, <1>8 DEF StoreKnown

\* What is saved of the reader's own was selected on the page it is saved under.
LEMMA HighlightStep ==
    ASSUME MarksInv, Marks!MarksAssumption, NEW i \in DOMAIN calls, Marks!HighlightSaved(i)
    PROVE  MarksInv'
<1>0. MaxCalls \in Nat /\ calls[i] \in MarkCall /\ calls[i].kind = "save" /\ Marks!Answered(i)
  <2>1. MaxCalls \in Nat /\ calls[i] \in MarkCall
    BY OneCall DEF Marks!MarksAssumption, MarksInv
  <2> QED BY <2>1, Zenon DEF Marks!HighlightSaved
<1>1. /\ calls[i].page \in BookPages /\ calls[i].quote \in Quotes
      /\ calls[i].at \in BookPages /\ calls[i].at = calls[i].page /\ ~IsReading(calls[i])
      /\ calls[i].turned \in BOOLEAN
  BY <1>0 DEF MarkCall, TutorCall, IsReading
<1>3. /\ PlaceKnown' /\ place'.late = place.late
      /\ place'.ready = place.ready /\ place'.layer = place.layer
  BY DEF Marks!HighlightSaved, MarksInv, PlaceKnown
<1>2. CallsKnown' /\ TutorKnown' /\ (NoList' <=> NoList)
  BY <1>0, <1>1, <1>3, CallAnswered, TutorStays DEF MarksInv
<1>4. StoreKnown' /\ (listed = stored.items => listed' = stored'.items)
  <2>1. CASE /\ Marks!Store(Marks!NewMark(calls[i], "reader"))
             /\ listed' = listed \cup {Marks!NewMark(calls[i], "reader")}
    BY <1>1, <2>1, MarkAdded DEF MarksInv
  <2>2. CASE UNCHANGED <<listed, stored>>
    BY <2>2 DEF MarksInv, StoreKnown, Marks!MarksLieOnTheirPage
  <2> QED BY <2>1, <2>2, Zenon DEF Marks!HighlightSaved
<1> QED BY <1>2, <1>3, <1>4 DEF MarksInv, ListFollows

\* A mark is deleted where it is stored and where it is listed.
LEMMA DeletedStep ==
    ASSUME MarksInv, Marks!MarksAssumption, NEW i \in DOMAIN calls, Marks!AnnotationDeleted(i)
    PROVE  MarksInv'
<1>0. MaxCalls \in Nat /\ calls[i].kind = "delete" /\ Marks!Answered(i) /\ UNCHANGED place
  <2>1. MaxCalls \in Nat
    BY DEF Marks!MarksAssumption
  <2> QED BY <2>1, Zenon DEF Marks!AnnotationDeleted
<1>1. CallsKnown' /\ TutorKnown' /\ (NoList' <=> NoList)
  BY <1>0, CallAnswered, TutorStays DEF MarksInv, IsReading
<1>2. StoreKnown' /\ (listed = stored.items => listed' = stored'.items)
  BY DEF MarksInv, StoreKnown, Marks!MarksLieOnTheirPage, Marks!AnnotationDeleted
<1> QED BY <1>0, <1>1, <1>2 DEF MarksInv, ListFollows, PlaceKnown

\* The list of the opening is read once, as the server has it then.
LEMMA ReadStep ==
    ASSUME MarksInv, Marks!MarksAssumption, NEW i \in DOMAIN calls, Marks!ReadList(i)
    PROVE  MarksInv'
<1> DEFINE c == [kind |-> "list", items |-> stored.items]
<1>1. c \in MarkCall /\ IsReading(c) /\ IsReading(calls[i]) /\ AsBefore(c, calls[i])
  BY DEF MarkCall, IsReading, AsBefore, MarksInv, StoreKnown, Marks!ReadList
<1>2. calls' = [calls EXCEPT ![i] = c] /\ UNCHANGED <<place, listed, stored>>
  BY DEF Marks!ReadList
<1> HIDE DEF c
<1>3. CallsKnown' /\ TutorKnown' /\ (NoList' <=> NoList)
  BY <1>1, <1>2, CallChanged, TutorStays DEF MarksInv
<1> QED BY <1>2, <1>3 DEF MarksInv, PlaceKnown, StoreKnown, ListFollows, Marks!MarksLieOnTheirPage

\* It replaces what is listed; that it came late is remembered.
LEMMA ListStep ==
    ASSUME MarksInv, Marks!MarksAssumption, NEW i \in DOMAIN calls, Marks!ListArrives(i)
    PROVE  MarksInv'
<1>0. /\ MaxCalls \in Nat /\ calls[i] \in MarkCall /\ calls[i].kind = "list"
      /\ Marks!Answered(i) /\ UNCHANGED stored /\ listed' = calls[i].items
      /\ place' = [place EXCEPT !.late = stored.items # calls[i].items]
  <2>1. MaxCalls \in Nat /\ calls[i] \in MarkCall
    BY OneCall DEF Marks!MarksAssumption, MarksInv
  <2> QED BY <2>1, Zenon DEF Marks!ListArrives
<1>1. calls[i].items \in SUBSET Marks!Mark /\ IsReading(calls[i])
  BY <1>0 DEF MarkCall, TutorCall, IsReading
<1>3. /\ PlaceKnown' /\ (place'.late <=> stored.items # calls[i].items)
      /\ place'.ready = place.ready /\ place'.layer = place.layer
  BY <1>0 DEF MarksInv, PlaceKnown
<1>2. CallsKnown' /\ TutorKnown' /\ NoList'
  BY <1>0, <1>1, <1>3, CallAnswered, TutorStays DEF MarksInv
<1>4. StoreKnown'
  BY <1>0, <1>1 DEF MarksInv, StoreKnown, Marks!MarksLieOnTheirPage
<1> QED BY <1>0, <1>2, <1>3, <1>4 DEF MarksInv, ListFollows

\* The tutor's call ends with its last mark, or goes on with the next.
LEMMA TutorGoesOn ==
    ASSUME CallsKnown, NEW i \in DOMAIN calls, calls[i].kind = "tutor", Marks!ContinueTutor(i),
           MaxCalls \in Nat
    PROVE  CallsKnown' /\ NothingAsked /\ (NoList' <=> NoList)
<1>1. calls[i] \in MarkCall
  BY ElementOfSeq DEF CallsKnown
<1>2. /\ ~IsReading(calls[i]) /\ calls[i].todo \in Seq(Quotes) \ {<<>>}
      /\ calls[i] \in TutorCall /\ (calls[i].pending # Nothing => calls[i].pending.at = calls[i].page)
  BY <1>1 DEF MarkCall, TutorCall, IsReading
<1>3. CASE Len(calls[i].todo) = 1
  BY <1>2, <1>3, CallAnswered DEF Marks!ContinueTutor
<1>4. CASE Len(calls[i].todo) # 1
  <2> DEFINE rest == Tail(calls[i].todo)
             c == [calls[i] EXCEPT !.todo = rest]
  <2>1. calls' = [calls EXCEPT ![i] = c]
    BY <1>4, Zenon DEF Marks!ContinueTutor
  <2>2. rest \in Seq(Quotes) \ {<<>>}
    <3> DEFINE t == calls[i].todo
    <3>1. t \in Seq(Quotes) /\ t # <<>> /\ Len(t) # 1
      BY <1>2, <1>4
    <3> HIDE DEF t
    <3>2. Tail(t) \in Seq(Quotes) /\ Len(Tail(t)) = Len(t) - 1
      BY <3>1
    <3>3. Len(Tail(t)) # 0
      BY <3>1, <3>2
    <3>4. \A u : u = <<>> => Len(u) = 0
      OBVIOUS
    <3>5. Tail(t) # <<>>
      BY <3>3, <3>4, Zenon
    <3> QED BY <3>2, <3>5 DEF t
  <2> HIDE DEF rest
  <2>3. c \in MarkCall /\ ~IsReading(c) /\ AsBefore(c, calls[i])
    <3>1. /\ c \in TutorCall /\ c.kind = "tutor" /\ c.page = calls[i].page
          /\ c.pending = calls[i].pending /\ c.ready = calls[i].ready /\ c.turned = calls[i].turned
      BY <1>2, <2>2 DEF TutorCall
    <3> HIDE DEF c
    <3> QED BY <1>2, <3>1 DEF MarkCall, IsReading, AsBefore
  <2> HIDE DEF c
  <2> QED BY <1>2, <2>1, <2>3, CallChanged
<1> QED BY <1>3, <1>4

LEMMA RefusedStep ==
    ASSUME MarksInv, Marks!MarksAssumption, NEW i \in DOMAIN calls, Marks!MarkRefused(i)
    PROVE  MarksInv'
<1>1. /\ MaxCalls \in Nat /\ calls[i].kind = "tutor" /\ Marks!ContinueTutor(i)
      /\ UNCHANGED <<place, listed, stored>>
  <2>1. MaxCalls \in Nat
    BY DEF Marks!MarksAssumption
  <2> QED BY <2>1, Zenon DEF Marks!MarkRefused
<1>2. CallsKnown' /\ TutorKnown' /\ (NoList' <=> NoList)
  BY <1>1, TutorGoesOn, TutorStays DEF MarksInv
<1> QED BY <1>1, <1>2 DEF MarksInv, PlaceKnown, StoreKnown, ListFollows, Marks!MarksLieOnTheirPage

\* A mark of the tutor, new or noted on marks the reader had, is stored and listed alike.
LEMMA TutorMarkStep ==
    ASSUME MarksInv, Marks!MarksAssumption, NEW i \in DOMAIN calls, Marks!MarkSaved(i)
    PROVE  MarksInv'
<1> DEFINE c == calls[i]
           quote == Head(c.todo)
           spot == Marks!Spot(c, quote)
           spotted == [page |-> c.page, quote |-> quote, at |-> spot,
                       turned |-> c.turned /\ ~Marks!Selected(c, quote)]
           same == {k.id : k \in Marks!Same(c)}
           after(s) == {IF \E k \in Marks!Same(c) : k.id = a.id
                        THEN [a EXCEPT !.noted = TRUE] ELSE a : a \in s}
<1>1. /\ MaxCalls \in Nat /\ c \in MarkCall /\ c.kind = "tutor" /\ Marks!ContinueTutor(i)
      /\ UNCHANGED place /\ c.ready /\ spot # Nothing
      /\ \/ Marks!Store(Marks!NewMark(spotted, "tutor"))
            /\ listed' = listed \cup {Marks!NewMark(spotted, "tutor")}
         \/ stored' = [stored EXCEPT !.items = after(stored.items)] /\ listed' = after(listed)
         \/ UNCHANGED <<stored, listed>>
  <2>1. MaxCalls \in Nat /\ calls[i] \in MarkCall
    BY OneCall DEF Marks!MarksAssumption, MarksInv
  <2> QED BY <2>1, Zenon DEF Marks!MarkSaved, Marks!Locatable
<1>2. CallsKnown' /\ TutorKnown' /\ (NoList' <=> NoList)
  BY <1>1, TutorGoesOn, TutorStays DEF MarksInv
<1>3. /\ c.page \in BookPages /\ c.pending \in Selection \cup {Nothing}
      /\ c.todo \in Seq(Quotes) /\ c.todo # <<>> /\ c.turned \in BOOLEAN
      /\ c.pending # Nothing => c.pending.at = c.page
  BY <1>1 DEF MarkCall, TutorCall
<1>4. quote \in Quotes
  BY <1>3
<1>5. spot \in BookPages
  BY <1>1, <1>3 DEF Marks!Spot, Marks!Located, Marks!Selected, MarksInv, PlaceKnown, Selection
<1>7. spot = c.page \/ (c.turned /\ ~Marks!Selected(c, quote))
  <2>1. CASE Marks!Selected(c, quote)
    BY <1>3, <2>1, Zenon DEF Marks!Spot, Marks!Selected
  <2>2. CASE ~Marks!Selected(c, quote) /\ ~c.turned
    <3>1. Near(c)
      BY Zenon DEF MarksInv, TutorKnown
    <3>2. place.layer = c.page
      BY <1>1, <2>2, <3>1, Zenon DEF Near
    <3> QED BY <1>1, <2>2, <3>2, Zenon DEF Marks!Spot
  <2> QED BY <2>1, <2>2
<1>6. StoreKnown' /\ (listed = stored.items => listed' = stored'.items)
  <2>1. CASE /\ Marks!Store(Marks!NewMark(spotted, "tutor"))
             /\ listed' = listed \cup {Marks!NewMark(spotted, "tutor")}
    <3>1. /\ spotted.page \in BookPages /\ spotted.quote \in Quotes /\ spotted.at \in BookPages
          /\ spotted.turned = (c.turned /\ ~Marks!Selected(c, quote))
          /\ spotted.at = spot /\ spotted.page = c.page
      BY <1>3, <1>4, <1>5
    <3>2. spotted.turned \in BOOLEAN /\ (spotted.at = spotted.page \/ spotted.turned)
      BY <1>7, <3>1, Zenon
    <3> HIDE DEF spotted
    <3> QED BY <2>1, <3>1, <3>2, MarkAdded DEF MarksInv
  <2>2. CASE stored' = [stored EXCEPT !.items = after(stored.items)] /\ listed' = after(listed)
    <3> DEFINE hit(a) == \E k \in Marks!Same(c) : k.id = a.id
               new(a) == IF hit(a) THEN [a EXCEPT !.noted = TRUE] ELSE a
    <3>1. \A a \in Marks!Mark : /\ new(a) \in Marks!Mark
                                /\ new(a).id = a.id /\ new(a).turned = a.turned
                                /\ new(a).at = a.at /\ new(a).page = a.page
      BY DEF Marks!Mark
    <3>2. /\ stored \in [items : SUBSET Marks!Mark, created : 0 .. MaxMarks]
          /\ listed \subseteq Marks!Mark
      BY DEF MarksInv, StoreKnown
    <3>3. \A s : after(s) = {new(a) : a \in s}
      OBVIOUS
    <3> HIDE DEF after, new
    <3>4. /\ stored' = [items |-> {new(a) : a \in stored.items}, created |-> stored.created]
          /\ listed' = {new(a) : a \in listed}
      BY <2>2, <3>2, <3>3
    <3>5. /\ \A b \in stored'.items : \E a \in stored.items : b = new(a)
          /\ listed' \subseteq Marks!Mark /\ stored'.items \subseteq Marks!Mark
      BY <3>1, <3>2, <3>4
    <3>6. /\ \A a \in stored'.items : a.id <= stored'.created
          /\ \A a, b \in stored'.items : a.id = b.id => a = b
      BY <3>1, <3>2, <3>4, <3>5 DEF MarksInv, StoreKnown
    <3>7. Marks!MarksLieOnTheirPage'
      BY <3>1, <3>2, <3>4, <3>5 DEF MarksInv, StoreKnown, Marks!MarksLieOnTheirPage
    <3>8. stored' \in [items : SUBSET Marks!Mark, created : 0 .. MaxMarks]
      BY <3>2, <3>4, <3>5
    <3>9. listed = stored.items => listed' = stored'.items
      BY <3>4
    <3> QED BY <3>5, <3>6, <3>7, <3>8, <3>9 DEF StoreKnown
  <2>3. CASE UNCHANGED <<stored, listed>>
    BY <2>3 DEF MarksInv, StoreKnown, Marks!MarksLieOnTheirPage
  <2> QED BY <1>1, <2>1, <2>2, <2>3
<1> QED BY <1>1, <1>2, <1>6 DEF MarksInv, PlaceKnown, ListFollows

LEMMA MarksStep ==
    ASSUME MarksInv, Marks!MarksAssumption, [Marks!MarksNext]_(Marks!marksVars)
    PROVE  MarksInv'
<1>1. CASE UNCHANGED Marks!marksVars
  <2>1. UNCHANGED <<place, listed, stored, calls>>
    BY <1>1 DEF Marks!marksVars
  <2> QED BY <2>1 DEF MarksInv, PlaceKnown, StoreKnown, CallsKnown, TutorKnown, Near, ListFollows,
                     NoList, Marks!MarksLieOnTheirPage
<1>2. CASE Marks!MarksNext
  BY <1>2, PlaceStep, SentStep, HighlightStep, DeletedStep, ReadStep, ListStep, RefusedStep,
     TutorMarkStep, Zenon DEF Marks!MarksNext
<1> QED BY <1>1, <1>2

(* What the reader or the tutor marks lies on the page it is saved under, with  *)
(* one exception: what the tutor marks in the layer of now, when the page was   *)
(* turned since the question.  And once every call is answered the list shows   *)
(* what the server stores, unless the list of the opening came after a change   *)
(* (ShelfPDFReader.tsx and its save, delete and list calls).                    *)
THEOREM MarksBelongToTheirPage ==
    ASSUME Marks!MarksAssumption
    PROVE  Marks!MarksSpec => [](/\ Marks!MarksTypeOK /\ Marks!MarksLieOnTheirPage
                                /\ Marks!ListIsStored)
<1>1. Marks!MarksInit => MarksInv
  <2> SUFFICES ASSUME Marks!MarksInit PROVE MarksInv
    OBVIOUS
  <2>1. place.page \in BookPages /\ PlaceKnown
    BY DEF Marks!MarksInit, Marks!MarksAssumption, PlaceKnown
  <2>2. calls = <<[kind |-> "load"]>> /\ [kind |-> "load"] \in MarkCall /\ MaxCalls \in Nat \ {0}
    BY DEF Marks!MarksInit, MarkCall, Marks!MarksAssumption
  <2>3. CallsKnown /\ TutorKnown /\ ~NoList
    BY <2>2 DEF CallsKnown, TutorKnown, Near, NoList, IsReading
  <2>4. StoreKnown
    BY DEF Marks!MarksInit, StoreKnown, Marks!MarksAssumption, Marks!MarksLieOnTheirPage
  <2>5. ~place.late
    BY DEF Marks!MarksInit
  <2> QED BY <2>1, <2>3, <2>4, <2>5 DEF MarksInv, ListFollows
<1>2. MarksInv => /\ Marks!MarksTypeOK /\ Marks!MarksLieOnTheirPage
                  /\ Marks!ListIsStored
  <2> SUFFICES ASSUME MarksInv PROVE /\ Marks!MarksTypeOK /\ Marks!MarksLieOnTheirPage
                                     /\ Marks!ListIsStored
    OBVIOUS
  <2>1. Marks!MarksTypeOK
    BY DEF MarksInv, PlaceKnown, StoreKnown, CallsKnown, Marks!MarksTypeOK
  <2>2. calls = <<>> => NoList
    BY DEF NoList
  <2> QED BY <2>1, <2>2 DEF MarksInv, StoreKnown, ListFollows, Marks!ListIsStored
<1>3. MarksInv /\ [Marks!MarksNext]_(Marks!marksVars) => MarksInv'
  BY MarksStep
<1> QED BY <1>1, <1>2, <1>3, PTL DEF Marks!MarksSpec

-----------------------------------------------------------------------------
(* Help on the words of a page                                             *)

Help == INSTANCE ReaderHelp

HelpCall == [kind : {"word"}, key : Help!WordKeys] \cup [kind : {"passage"}, quote : Words]

\* The pins over the layer are at every moment those of the marks, the page and the layer of
\* that moment.
HelpInv ==
    /\ Help!HelpTypeOK
    /\ pins \in [page : BookPages \cup {Nothing}, marks : SUBSET Words,
                 found : SUBSET [quote : Words, at : BookPages]]
    /\ pins.found = Help!Pinned(pins, sheet.page, sheet.layer)
    /\ words \in [cache : SUBSET Help!WordKeys, key : Help!WordKeys \cup {Nothing},
                  loading : Help!WordKeys \cup {Nothing}]
    /\ passage \in [shown : Words \cup {Nothing}, busy : BOOLEAN]
    /\ asked \in Seq(HelpCall)

\* What is drawn over a layer are quotes of the book, on that layer.
LEMMA PinsKnown ==
    ASSUME Help!HelpAssumption, NEW p, p.marks \subseteq Words, NEW page,
           NEW layer \in BookPages \cup {Nothing}
    PROVE  Help!Pinned(p, page, layer) \subseteq [quote : Words, at : BookPages]
<1> SUFFICES ASSUME NEW pin \in Help!Pinned(p, page, layer)
             PROVE  pin \in [quote : Words, at : BookPages]
  OBVIOUS
<1>1. PICK q \in IF p.page = page THEN p.marks \cap Help!OnLayer(layer) ELSE {} :
             pin = [quote |-> q, at |-> layer]
  BY Zenon DEF Help!Pinned
<1>2. q \in Words /\ layer # Nothing
  BY <1>1 DEF Help!OnLayer
<1> QED BY <1>1, <1>2

\* Where the page, the layer or the marks change, the pins are drawn again.
LEMMA PinsRedrawn ==
    ASSUME HelpInv, Help!HelpAssumption,
           sheet' \in [page : BookPages, layer : BookPages \cup {Nothing},
                       hovered : Words \cup {Nothing}, selected : Words \cup {Nothing}],
           NEW page \in BookPages \cup {Nothing}, NEW marks \in SUBSET Words,
           NEW found,
           pins' = [page |-> page, marks |-> marks, found |-> found],
           found = Help!Pinned(pins', sheet'.page, sheet'.layer),
           UNCHANGED <<words, passage, asked>>
    PROVE  HelpInv'
<1>1. pins'.marks \subseteq Words /\ pins'.page = page /\ pins'.found = found
  OBVIOUS
<1>2. found \subseteq [quote : Words, at : BookPages]
  BY <1>1, PinsKnown
<1>3. Help!HelpTypeOK' /\ pins' \in [page : BookPages \cup {Nothing}, marks : SUBSET Words,
                                    found : SUBSET [quote : Words, at : BookPages]]
  BY <1>1, <1>2 DEF HelpInv, Help!HelpTypeOK
<1>4. pins'.found = Help!Pinned(pins, sheet.page, sheet.layer)'
  BY <1>1, Zenon DEF Help!Pinned, Help!OnLayer
<1> QED BY <1>3, <1>4 DEF HelpInv

LEMMA SheetStep ==
    ASSUME HelpInv, Help!HelpAssumption,
           \/ Help!TurnPage \/ Help!LayerReady \/ Help!CompanionMarks \/ Help!HoverWord
           \/ Help!Capture
    PROVE  HelpInv'
<1> DEFINE Sheets == [page : BookPages, layer : BookPages \cup {Nothing},
                      hovered : Words \cup {Nothing}, selected : Words \cup {Nothing}]
<1>0. /\ sheet \in Sheets
      /\ pins \in [page : BookPages \cup {Nothing}, marks : SUBSET Words,
                   found : SUBSET [quote : Words, at : BookPages]]
  BY DEF HelpInv, Help!HelpTypeOK
<1>1. CASE Help!TurnPage
  <2>1. PICK page \in BookPages :
           /\ sheet' = [sheet EXCEPT !.page = page, !.hovered = Nothing, !.selected = Nothing]
           /\ pins' = [pins EXCEPT !.found = Help!Pinned(pins, page, sheet.layer)]
           /\ UNCHANGED <<words, passage, asked>>
    BY <1>1, Zenon DEF Help!TurnPage
  <2> DEFINE found == Help!Pinned(pins, page, sheet.layer)
  <2>2. found = Help!Pinned(pins', page, sheet.layer)
    <3>1. pins'.page = pins.page /\ pins'.marks = pins.marks
      BY <1>0, <2>1
    <3> QED BY <3>1, Zenon DEF Help!Pinned
  <2> HIDE DEF found
  <2>3. /\ pins' = [page |-> pins.page, marks |-> pins.marks, found |-> found]
        /\ sheet' \in Sheets /\ sheet'.page = page /\ sheet'.layer = sheet.layer
        /\ pins.page \in BookPages \cup {Nothing} /\ pins.marks \in SUBSET Words
    BY <1>0, <2>1 DEF found
  <2> QED BY <2>1, <2>2, <2>3, PinsRedrawn
<1>2. CASE Help!LayerReady
  <2>1. /\ sheet' = [sheet EXCEPT !.layer = sheet.page]
        /\ pins' = [pins EXCEPT !.found = Help!Pinned(pins, sheet.page, sheet.page)]
        /\ UNCHANGED <<words, passage, asked>>
    BY <1>2, Zenon DEF Help!LayerReady
  <2> DEFINE found == Help!Pinned(pins, sheet.page, sheet.page)
  <2>2. found = Help!Pinned(pins', sheet.page, sheet.page)
    <3>1. pins'.page = pins.page /\ pins'.marks = pins.marks
      BY <1>0, <2>1
    <3> QED BY <3>1, Zenon DEF Help!Pinned
  <2> HIDE DEF found
  <2>3. /\ pins' = [page |-> pins.page, marks |-> pins.marks, found |-> found]
        /\ sheet' \in Sheets /\ sheet'.page = sheet.page /\ sheet'.layer = sheet.page
        /\ pins.page \in BookPages \cup {Nothing} /\ pins.marks \in SUBSET Words
    BY <1>0, <2>1 DEF found
  <2> QED BY <2>1, <2>2, <2>3, PinsRedrawn
<1>3. CASE Help!CompanionMarks
  <2>1. PICK q \in Words, page \in BookPages :
           /\ pins' = [[page |-> page, marks |-> {q}, found |-> {}] EXCEPT
                         !.found = Help!Pinned([page |-> page, marks |-> {q}, found |-> {}],
                                               sheet.page, sheet.layer)]
           /\ UNCHANGED <<sheet, words, passage, asked>>
    BY <1>3, Zenon DEF Help!CompanionMarks
  <2> DEFINE found == Help!Pinned([page |-> page, marks |-> {q}, found |-> {}],
                                  sheet.page, sheet.layer)
  <2>2. found = Help!Pinned(pins', sheet.page, sheet.layer)
    <3>1. pins'.page = page /\ pins'.marks = {q}
      BY <2>1
    <3> QED BY <3>1, Zenon DEF Help!Pinned
  <2> HIDE DEF found
  <2>3. /\ pins' = [page |-> page, marks |-> {q}, found |-> found]
        /\ sheet' \in Sheets /\ sheet' = sheet
        /\ page \in BookPages \cup {Nothing} /\ {q} \in SUBSET Words
    BY <1>0, <2>1 DEF found
  <2> QED BY <2>1, <2>2, <2>3, PinsRedrawn
<1>4. CASE Help!HoverWord \/ Help!Capture
  <2>1. /\ sheet' \in Sheets /\ sheet'.page = sheet.page /\ sheet'.layer = sheet.layer
        /\ passage' \in [shown : Words \cup {Nothing}, busy : BOOLEAN]
        /\ UNCHANGED <<pins, words, asked>>
    <3>1. CASE Help!HoverWord
      BY <1>0, <3>1 DEF HelpInv, Help!HoverWord, Help!OnLayer
    <3>2. CASE Help!Capture
      BY <1>0, <3>2 DEF HelpInv, Help!Capture, Help!OnLayer
    <3> QED BY <1>4, <3>1, <3>2
  <2>2. (pins.found = Help!Pinned(pins, sheet.page, sheet.layer))'
    BY <2>1, Zenon DEF HelpInv, Help!Pinned, Help!OnLayer
  <2> QED BY <2>1, <2>2 DEF HelpInv, Help!HelpTypeOK
<1> QED BY <1>1, <1>2, <1>3, <1>4

LEMMA AskedStep ==
    ASSUME HelpInv, Help!HelpAssumption,
           \/ Help!ExplainWord \/ Help!TranslateSelection
           \/ \E i \in DOMAIN asked : Help!WordAnswers(i) \/ Help!SelectionAnswers(i)
    PROVE  HelpInv'
<1>0. UNCHANGED <<sheet, pins>> /\ (pins.found = Help!Pinned(pins, sheet.page, sheet.layer))'
  <2>1. UNCHANGED <<sheet, pins>>
    BY DEF Help!ExplainWord, Help!TranslateSelection, Help!WordAnswers, Help!SelectionAnswers
  <2> QED BY <2>1, Zenon DEF HelpInv, Help!Pinned, Help!OnLayer
<1> DEFINE Kept == /\ asked' \in Seq(HelpCall) /\ Len(asked') <= MaxCalls
                   /\ words' \in [cache : SUBSET Help!WordKeys, key : Help!WordKeys \cup {Nothing},
                                  loading : Help!WordKeys \cup {Nothing}]
                   /\ passage' \in [shown : Words \cup {Nothing}, busy : BOOLEAN]
<1>1. Kept
  <2>0. asked \in Seq(HelpCall) /\ Len(asked) \in Nat /\ DOMAIN asked = 1 .. Len(asked)
        /\ Len(asked) <= MaxCalls /\ MaxCalls \in Nat
    BY DEF HelpInv, Help!HelpAssumption, Help!HelpTypeOK
  <2>1. ASSUME NEW call \in HelpCall, Help!Request(call)
        PROVE  asked' \in Seq(HelpCall) /\ Len(asked') <= MaxCalls
    BY <2>0, <2>1 DEF Help!Request
  <2>2. CASE Help!ExplainWord
    <3> DEFINE key == Help!WordKey(sheet.hovered)
               call == [kind |-> "word", key |-> key]
    <3>1. key \in Help!WordKeys /\ call \in HelpCall
      BY <2>2 DEF HelpInv, Help!HelpTypeOK, Help!ExplainWord, Help!WordKey, Help!WordKeys, HelpCall
    <3>2. /\ UNCHANGED passage
          /\ \/ words' = [words EXCEPT !.key = key] /\ UNCHANGED asked
             \/ Help!Request(call) /\ words' = [words EXCEPT !.loading = key]
      BY <2>2, Zenon DEF Help!ExplainWord
    <3> HIDE DEF key, call
    <3> QED BY <2>0, <2>1, <3>1, <3>2 DEF HelpInv
  <2>3. CASE Help!TranslateSelection
    <3> DEFINE call == [kind |-> "passage", quote |-> sheet.selected]
    <3>1. call \in HelpCall
      BY <2>3 DEF HelpInv, Help!HelpTypeOK, Help!TranslateSelection, HelpCall
    <3>2. Help!Request(call) /\ passage' = [passage EXCEPT !.busy = TRUE] /\ UNCHANGED words
      BY <2>3, Zenon DEF Help!TranslateSelection
    <3> HIDE DEF call
    <3> QED BY <2>1, <3>1, <3>2 DEF HelpInv
  <2>4. ASSUME NEW i \in DOMAIN asked, Help!WordAnswers(i) \/ Help!SelectionAnswers(i)
        PROVE  Kept
    <3>1. asked' = RemoveAt(asked, i)
      BY <2>4, Zenon DEF Help!WordAnswers, Help!SelectionAnswers, Help!RemoveAt, RemoveAt
    <3>2. asked' \in Seq(HelpCall) /\ Len(asked') <= MaxCalls /\ asked[i] \in HelpCall
      BY <2>0, <3>1, WithoutOne
    <3>3. CASE Help!WordAnswers(i)
      <4>1. asked[i].key \in Help!WordKeys
        BY <3>2, <3>3 DEF Help!WordAnswers, HelpCall
      <4> QED BY <3>2, <3>3, <4>1 DEF HelpInv, Help!WordAnswers
    <3>4. CASE Help!SelectionAnswers(i)
      <4>1. asked[i].quote \in Words
        BY <3>2, <3>4 DEF Help!SelectionAnswers, HelpCall
      <4>2. /\ UNCHANGED words
            /\ \/ passage' = [busy |-> FALSE, shown |-> asked[i].quote]
               \/ passage' = [passage EXCEPT !.busy = FALSE]
        BY <3>4, Zenon DEF Help!SelectionAnswers
      <4>3. passage' \in [shown : Words \cup {Nothing}, busy : BOOLEAN]
        <5>1. CASE passage' = [busy |-> FALSE, shown |-> asked[i].quote]
          <6>1. [busy |-> FALSE, shown |-> asked[i].quote] = [shown |-> asked[i].quote, busy |-> FALSE]
            OBVIOUS
          <6> QED BY <4>1, <5>1, <6>1
        <5>2. CASE passage' = [passage EXCEPT !.busy = FALSE]
          BY <5>2 DEF HelpInv
        <5> QED BY <4>2, <5>1, <5>2
      <4> QED BY <3>2, <4>2, <4>3 DEF HelpInv
    <3> QED BY <2>4, <3>3, <3>4
  <2> QED BY <2>2, <2>3, <2>4
<1>2. words'.cache \subseteq Help!WordKeys /\ words'.key \in Help!WordKeys \cup {Nothing}
      /\ passage'.shown \in Words \cup {Nothing}
  BY <1>1
<1> QED BY <1>0, <1>1, <1>2 DEF HelpInv, Help!HelpTypeOK

(* The pins over a page that is ready are those that the companion made for it, *)
(* where its text has them, however late its answer (the pins of                *)
(* ShelfPDFReader.tsx).                                                         *)
THEOREM PinsFollowThePage ==
    ASSUME Help!HelpAssumption
    PROVE  Help!HelpSpec => [](Help!HelpTypeOK /\ Help!PinsAreOfThisPage)
<1>1. Help!HelpInit => HelpInv
  <2> SUFFICES ASSUME Help!HelpInit PROVE HelpInv
    OBVIOUS
  <2>1. sheet.page \in BookPages /\ pins.marks = {} /\ pins.found = {}
    BY DEF Help!HelpInit, Help!HelpAssumption
  <2>2. pins.found = Help!Pinned(pins, sheet.page, sheet.layer)
    BY <2>1 DEF Help!Pinned
  <2>3. MaxCalls \in Nat /\ asked \in Seq(HelpCall) /\ Len(asked) = 0
    BY DEF Help!HelpAssumption, Help!HelpInit
  <2>4. Len(asked) <= MaxCalls
    BY <2>3
  <2> QED BY <2>1, <2>2, <2>3, <2>4 DEF HelpInv, Help!HelpInit, Help!HelpTypeOK
<1>2. HelpInv => Help!HelpTypeOK /\ Help!PinsAreOfThisPage
  BY DEF HelpInv, Help!PinsAreOfThisPage, Help!Ready, Help!Pinned
<1>3. ASSUME HelpInv, [Help!HelpNext]_(Help!helpVars)
      PROVE  HelpInv'
  <2>1. CASE UNCHANGED Help!helpVars
    BY <1>3, <2>1 DEF Help!helpVars, HelpInv, Help!HelpTypeOK, Help!Pinned, Help!OnLayer
  <2>2. CASE Help!HelpNext
    BY <1>3, <2>2, SheetStep, AskedStep, Zenon DEF Help!HelpNext
  <2> QED BY <1>3, <2>1, <2>2
<1> QED BY <1>1, <1>2, <1>3, PTL DEF Help!HelpSpec

-----------------------------------------------------------------------------
(* The notes in the margin                                                 *)

Insights == INSTANCE PageInsights

NoteCall == [life : Nat, page : BookPages, text : TextPages, stage : {"first", "correction"},
             marks : SUBSET Phrases, safe : SUBSET Phrases]

\* The page and the text for which a note was asked last.
Tries == {Nothing} \cup (BookPages \X TextPages)

\* The text in the margin is that of the page, a stored note lies at the page of its text.
MarginKnown ==
    /\ margin \in [life : Nat, page : BookPages, text : TextPages \cup {Nothing},
                   note : Insights!Note \cup {Nothing}, busy : BOOLEAN,
                   tried : Tries, wrong : SUBSET BookPages,
                   asked : Nat]
    /\ margin.text # Nothing => margin.text = margin.page
    /\ margin.note # Nothing => margin.note.page = margin.page
    /\ noted \in [BookPages -> Insights!Note \cup {Nothing}]
    /\ \A p \in BookPages : noted[p] # Nothing => noted[p].page = p /\ noted[p].text = p

\* A note is asked for with the text of its page, in an opening of the book that was or is;
\* the open book waits for at most one.
NotesKnown ==
    /\ noteCalls \in Seq(NoteCall)
    /\ \A i \in DOMAIN noteCalls :
         noteCalls[i].text = noteCalls[i].page /\ noteCalls[i].life <= margin.life
    /\ margin.busy <=> \E i \in DOMAIN noteCalls : Insights!Live(noteCalls[i])
    /\ \A i, j \in DOMAIN noteCalls :
         Insights!Live(noteCalls[i]) /\ Insights!Live(noteCalls[j]) => i = j

InsightsInv == MarginKnown /\ NotesKnown

LEMMA OneNoteCall ==
    ASSUME NotesKnown, NEW i \in DOMAIN noteCalls
    PROVE  noteCalls[i] \in NoteCall
BY DEF NotesKnown

\* Reading on changes nothing of what was asked for.
LEMMA ReadingStep ==
    ASSUME InsightsInv, Insights!InsightsAssumption,
           Insights!TurnPage \/ Insights!TextArrives
    PROVE  InsightsInv'
<1>1. MarginKnown'
  <2>1. CASE Insights!TurnPage
    <3>1. PICK p \in BookPages :
             /\ margin' = [margin EXCEPT !.page = p, !.text = Nothing, !.note = noted[p]]
             /\ UNCHANGED noted
      BY <2>1, Zenon DEF Insights!TurnPage
    <3>2. /\ noted[p] \in Insights!Note \cup {Nothing}
          /\ noted[p] # Nothing => noted[p].page = p
      BY DEF InsightsInv, MarginKnown
    <3> QED BY <3>1, <3>2 DEF InsightsInv, MarginKnown
  <2>2. CASE Insights!TextArrives
    BY <2>2 DEF InsightsInv, MarginKnown, Insights!TextArrives
  <2> QED BY <2>1, <2>2
<1>2. margin'.life = margin.life /\ margin'.busy = margin.busy /\ UNCHANGED noteCalls
  BY DEF InsightsInv, MarginKnown, Insights!TurnPage, Insights!TextArrives
<1>3. NotesKnown'
  BY <1>2 DEF InsightsInv, NotesKnown, Insights!Live
<1> QED BY <1>1, <1>3 DEF InsightsInv

\* In a book that is opened again nothing is under way.
LEMMA OpenStep ==
    ASSUME InsightsInv, Insights!InsightsAssumption, Insights!OpenBook
    PROVE  InsightsInv'
<1>1. MarginKnown'
  <2>1. PICK p \in BookPages :
           /\ margin' = [life |-> margin.life + 1, page |-> p, text |-> Nothing, note |-> noted[p],
                         busy |-> FALSE, tried |-> Nothing, wrong |-> {}, asked |-> margin.asked]
           /\ UNCHANGED noted
    BY Zenon DEF Insights!OpenBook
  <2>2. /\ noted[p] \in Insights!Note \cup {Nothing}
        /\ noted[p] # Nothing => noted[p].page = p
    BY DEF InsightsInv, MarginKnown
  <2>3. Nothing \in Tries
    BY DEF Tries
  <2> QED BY <2>1, <2>2, <2>3 DEF InsightsInv, MarginKnown
<1>2. margin'.life = margin.life + 1 /\ margin.life \in Nat /\ ~margin'.busy
      /\ UNCHANGED noteCalls
  BY DEF InsightsInv, MarginKnown, Insights!OpenBook
<1>3. \A i \in DOMAIN noteCalls : noteCalls[i].life \in Nat /\ noteCalls[i].life <= margin.life
  <2> SUFFICES ASSUME NEW i \in DOMAIN noteCalls
               PROVE  noteCalls[i].life \in Nat /\ noteCalls[i].life <= margin.life
    OBVIOUS
  <2>1. noteCalls[i] \in NoteCall /\ noteCalls[i].life <= margin.life
    BY OneNoteCall DEF InsightsInv, NotesKnown
  <2> QED BY <2>1 DEF NoteCall
<1>4. \A i \in DOMAIN noteCalls' : /\ noteCalls'[i].life <= margin'.life
                                  /\ noteCalls'[i].life # margin'.life
  BY <1>2, <1>3
<1>5. NotesKnown'
  BY <1>2, <1>4 DEF InsightsInv, NotesKnown, Insights!Live
<1> QED BY <1>1, <1>5 DEF InsightsInv

\* A note is asked for when none is under way.
LEMMA AskStep ==
    ASSUME InsightsInv, Insights!InsightsAssumption, Insights!Ask,
           margin.text # Nothing, ~margin.busy
    PROVE  InsightsInv'
<1> DEFINE c == [life |-> margin.life, page |-> margin.page, text |-> margin.text,
                 stage |-> "first", marks |-> {}, safe |-> {}]
<1>1. MarginKnown' /\ margin'.life = margin.life /\ margin'.busy /\ margin.life \in Nat
  <2>1. margin' = [margin EXCEPT !.busy = TRUE, !.asked = @ + 1,
                                 !.tried = <<margin.page, margin.text>>]
        /\ UNCHANGED noted
    BY Zenon DEF Insights!Ask
  <2>2. <<margin.page, margin.text>> \in Tries
    BY DEF InsightsInv, MarginKnown, Tries
  <2>3. margin.asked + 1 \in Nat
    BY DEF InsightsInv, MarginKnown
  <2>4. PICK tried \in Tries, n \in Nat :
           margin' = [margin EXCEPT !.busy = TRUE, !.asked = n, !.tried = tried]
    BY <2>1, <2>2, <2>3, Zenon
  <2>5. UNCHANGED noted
    BY <2>1
  <2>6. margin' \in [life : Nat, page : BookPages, text : TextPages \cup {Nothing},
                    note : Insights!Note \cup {Nothing}, busy : BOOLEAN,
                    tried : Tries, wrong : SUBSET BookPages, asked : Nat]
        /\ margin'.page = margin.page /\ margin'.text = margin.text
        /\ margin'.note = margin.note /\ margin'.life = margin.life /\ margin'.busy = TRUE
        /\ margin.life \in Nat
    BY <2>4 DEF InsightsInv, MarginKnown
  <2> QED BY <2>5, <2>6 DEF InsightsInv, MarginKnown
<1>2. c \in NoteCall /\ c.text = c.page /\ c.life = margin.life
  BY DEF InsightsInv, MarginKnown, NoteCall
<1>3. noteCalls' = Append(noteCalls, c)
  BY Zenon DEF Insights!Ask
<1> HIDE DEF c
<1>4. /\ noteCalls \in Seq(NoteCall) /\ Len(noteCalls) \in Nat
      /\ DOMAIN noteCalls = 1 .. Len(noteCalls)
  BY DEF InsightsInv, NotesKnown
<1>5. /\ noteCalls' \in Seq(NoteCall) /\ DOMAIN noteCalls' = 1 .. Len(noteCalls) + 1
      /\ noteCalls'[Len(noteCalls) + 1] = c
      /\ \A k \in DOMAIN noteCalls : noteCalls'[k] = noteCalls[k]
  BY <1>2, <1>3, <1>4
<1>6. \A k \in DOMAIN noteCalls' : k = Len(noteCalls) + 1 \/ k \in DOMAIN noteCalls
  BY <1>4, <1>5
<1>7. \A k \in DOMAIN noteCalls : noteCalls[k].life # margin.life
  BY DEF InsightsInv, NotesKnown, Insights!Live
<1>8. \A k \in DOMAIN noteCalls' :
        /\ noteCalls'[k].text = noteCalls'[k].page /\ noteCalls'[k].life <= margin'.life
        /\ noteCalls'[k].life = margin'.life <=> k = Len(noteCalls) + 1
  <2> SUFFICES ASSUME NEW k \in DOMAIN noteCalls'
               PROVE  /\ noteCalls'[k].text = noteCalls'[k].page /\ noteCalls'[k].life <= margin'.life
                      /\ noteCalls'[k].life = margin'.life <=> k = Len(noteCalls) + 1
    OBVIOUS
  <2>1. CASE k = Len(noteCalls) + 1
    BY <1>1, <1>2, <1>5, <2>1
  <2>2. CASE k \in DOMAIN noteCalls
    <3>1. k # Len(noteCalls) + 1
      BY <1>4, <2>2
    <3> QED BY <1>1, <1>5, <1>7, <2>2, <3>1 DEF InsightsInv, NotesKnown
  <2> QED BY <1>6, <2>1, <2>2
<1>9. Len(noteCalls) + 1 \in DOMAIN noteCalls'
  BY <1>4, <1>5
<1>10. NotesKnown'
  BY <1>1, <1>5, <1>8, <1>9 DEF NotesKnown, Insights!Live
<1> QED BY <1>1, <1>10 DEF InsightsInv

LEMMA AskingStep ==
    ASSUME InsightsInv, Insights!InsightsAssumption,
           Insights!AskOnItsOwn \/ Insights!AskAgain
    PROVE  InsightsInv'
<1>1. margin.text # Nothing /\ ~margin.busy
  BY DEF Insights!AskOnItsOwn, Insights!AskAgain
<1>2. CASE Insights!Ask
  BY <1>1, <1>2, AskStep
<1>3. CASE /\ margin' = [margin EXCEPT !.note = noted[margin.page]]
           /\ UNCHANGED <<noted, visited, noteCalls>>
  <2>1. MarginKnown' /\ margin'.life = margin.life /\ margin'.busy = margin.busy
    BY <1>3 DEF InsightsInv, MarginKnown
  <2>2. NotesKnown'
    BY <1>3, <2>1 DEF InsightsInv, NotesKnown, Insights!Live
  <2> QED BY <2>1, <2>2 DEF InsightsInv
<1> QED BY <1>2, <1>3, Zenon DEF Insights!AskOnItsOwn, Insights!AskAgain

\* The answered call is gone; it was the one the open book waited for, or of an earlier opening.
LEMMA NoteAnswered ==
    ASSUME InsightsInv, NEW i \in DOMAIN noteCalls, noteCalls' = RemoveAt(noteCalls, i),
           margin'.life = margin.life,
           margin'.busy = IF Insights!Live(noteCalls[i]) THEN FALSE ELSE margin.busy
    PROVE  NotesKnown'
<1> DEFINE rest == RemoveAt(noteCalls, i)
<1>0. noteCalls \in Seq(NoteCall) /\ i \in 1 .. Len(noteCalls) /\ Len(noteCalls) \in Nat
      /\ DOMAIN noteCalls = 1 .. Len(noteCalls)
  BY DEF InsightsInv, NotesKnown
<1>1. /\ rest \in Seq(NoteCall) /\ Len(rest) = Len(noteCalls) - 1
      /\ \A k \in 1 .. Len(noteCalls) - 1 :
           rest[k] = IF k < i THEN noteCalls[k] ELSE noteCalls[k + 1]
  BY <1>0, WithoutOne
<1> HIDE DEF rest
<1>2. noteCalls' = rest /\ DOMAIN rest = 1 .. Len(noteCalls) - 1
  BY <1>1 DEF rest
<1> DEFINE was(k) == IF k < i THEN k ELSE k + 1
<1>3. \A k \in DOMAIN rest : /\ was(k) \in DOMAIN noteCalls /\ was(k) # i
                             /\ rest[k] = noteCalls[was(k)]
  BY <1>0, <1>1, <1>2
<1>4. \A k, l \in DOMAIN rest : was(k) = was(l) => k = l
  BY <1>0, <1>2
<1>5. \A j \in DOMAIN noteCalls : j # i => \E k \in DOMAIN rest : was(k) = j
  <2> SUFFICES ASSUME NEW j \in DOMAIN noteCalls, j # i PROVE \E k \in DOMAIN rest : was(k) = j
    OBVIOUS
  <2>1. CASE j < i
    <3>1. j \in DOMAIN rest /\ was(j) = j
      BY <1>0, <1>2, <2>1
    <3> QED BY <3>1
  <2>2. CASE ~(j < i)
    <3>1. j - 1 \in DOMAIN rest /\ was(j - 1) = j
      BY <1>0, <1>2, <2>2
    <3> QED BY <3>1
  <2> QED BY <2>1, <2>2
<1> HIDE DEF was
<1>6. noteCalls' \in Seq(NoteCall) /\ DOMAIN noteCalls' = DOMAIN rest
  BY <1>1, <1>2
<1>7. \A k \in DOMAIN rest : noteCalls'[k] = noteCalls[was(k)]
  BY <1>2, <1>3
<1>8. \A k \in DOMAIN rest : /\ noteCalls'[k].text = noteCalls'[k].page
                              /\ noteCalls'[k].life <= margin'.life
  BY <1>3, <1>7 DEF InsightsInv, NotesKnown
<1> DEFINE now(k) == noteCalls'[k].life = margin'.life
           then(k) == noteCalls[k].life = margin.life
<1>9. \A k \in DOMAIN rest : now(k) <=> then(was(k))
  BY <1>7
<1>10. /\ \A k, l \in DOMAIN noteCalls : then(k) /\ then(l) => k = l
       /\ margin.busy <=> \E k \in DOMAIN noteCalls : then(k)
       /\ margin'.busy = IF then(i) THEN FALSE ELSE margin.busy
  BY DEF InsightsInv, NotesKnown, Insights!Live
<1> HIDE DEF now, then
<1>11. \A k, l \in DOMAIN rest : now(k) /\ now(l) => k = l
  BY <1>3, <1>4, <1>9, <1>10, Zenon
<1>12. margin'.busy <=> \E k \in DOMAIN rest : now(k)
  <2>1. CASE then(i)
    BY <1>3, <1>9, <1>10, <2>1
  <2>2. CASE ~then(i)
    <3>1. margin'.busy <=> \E k \in DOMAIN noteCalls : then(k)
      BY <1>10, <2>2
    <3>2. (\E k \in DOMAIN noteCalls : then(k)) <=> \E k \in DOMAIN rest : now(k)
      BY <1>3, <1>5, <1>9, <2>2, Zenon
    <3> QED BY <3>1, <3>2
  <2> QED BY <2>1, <2>2
<1> QED BY <1>6, <1>8, <1>11, <1>12 DEF NotesKnown, Insights!Live, now

\* A note that is finished is stored and shown at the page of its text.
LEMMA FinishStep ==
    ASSUME InsightsInv, NEW i \in DOMAIN noteCalls, NEW marks \in SUBSET Phrases,
           Insights!InsightsAssumption, Insights!Finish(i, marks)
    PROVE  InsightsInv'
<1> DEFINE c == noteCalls[i]
           note == [page |-> c.page, text |-> c.text, marks |-> marks]
<1>1. /\ noteCalls' = RemoveAt(noteCalls, i)
      /\ noted' = [noted EXCEPT ![c.page] = note]
      /\ margin' = [Insights!Ended(c) EXCEPT
                      !.note = IF Insights!IsActive(c) THEN note ELSE @,
                      !.wrong = IF Insights!Live(c) THEN @ \ {c.page} ELSE @]
  BY Zenon DEF Insights!Finish, Insights!RemoveAt, RemoveAt
<1>2. c \in NoteCall /\ c.text = c.page
  BY OneNoteCall DEF InsightsInv, NotesKnown
<1>3. c.page \in BookPages /\ note \in Insights!Note /\ note.page = c.page /\ note.text = c.page
  BY <1>2 DEF NoteCall, Insights!Note
<1> HIDE DEF c, note
<1>4. /\ MarginKnown' /\ margin'.life = margin.life
      /\ margin'.busy = IF Insights!Live(c) THEN FALSE ELSE margin.busy
  <2> DEFINE ended == Insights!Ended(c)
  <2>1. ended = [margin EXCEPT !.busy = IF Insights!Live(c) THEN FALSE ELSE margin.busy]
    BY DEF Insights!Ended, InsightsInv, MarginKnown
  <2>2. margin' = [ended EXCEPT !.note = IF Insights!IsActive(c) THEN note ELSE ended.note,
                               !.wrong = IF Insights!Live(c) THEN ended.wrong \ {c.page} ELSE ended.wrong]
    BY <1>1
  <2> HIDE DEF ended
  <2>3. Insights!IsActive(c) => c.page = margin.page
    BY DEF Insights!IsActive
  <2>4. /\ margin' = [margin EXCEPT !.busy = margin'.busy, !.note = margin'.note,
                                    !.wrong = margin'.wrong]
        /\ margin'.busy = IF Insights!Live(c) THEN FALSE ELSE margin.busy
        /\ margin'.note = IF Insights!IsActive(c) THEN note ELSE margin.note
        /\ margin'.wrong \in SUBSET BookPages
    BY <2>1, <2>2 DEF InsightsInv, MarginKnown
  <2>5. /\ margin'.busy \in BOOLEAN /\ margin'.note \in Insights!Note \cup {Nothing}
        /\ margin'.note # Nothing => margin'.note.page = margin.page
    BY <1>3, <2>3, <2>4 DEF InsightsInv, MarginKnown
  <2>6. /\ noted' \in [BookPages -> Insights!Note \cup {Nothing}]
        /\ \A p \in BookPages : noted'[p] # Nothing => noted'[p].page = p /\ noted'[p].text = p
    BY <1>1, <1>3 DEF InsightsInv, MarginKnown
  <2>7. margin' \in [life : Nat, page : BookPages, text : TextPages \cup {Nothing},
                   note : Insights!Note \cup {Nothing}, busy : BOOLEAN,
                   tried : Tries, wrong : SUBSET BookPages,
                   asked : Nat]
        /\ margin'.page = margin.page /\ margin'.text = margin.text /\ margin'.life = margin.life
    BY <2>4, <2>5 DEF InsightsInv, MarginKnown
  <2> QED BY <2>4, <2>5, <2>6, <2>7 DEF InsightsInv, MarginKnown
<1>5. NotesKnown'
  BY <1>1, <1>4, NoteAnswered DEF c
<1> QED BY <1>4, <1>5 DEF InsightsInv

LEMMA TopicStep ==
    ASSUME InsightsInv, NEW i \in DOMAIN noteCalls, NEW marks \in SUBSET Phrases,
           Insights!InsightsAssumption, Insights!FinishWithTopic(i, marks)
    PROVE  InsightsInv'
<1>1. CASE Insights!Finish(i, marks)
  BY <1>1, FinishStep
<1>2. CASE \E topic \in {{}} \cup {{m} : m \in Insights!Verified(Phrases, noteCalls[i].text)} :
             Insights!Finish(i, topic)
  <2>1. PICK topic \in {{}} \cup {{m} : m \in Insights!Verified(Phrases, noteCalls[i].text)} :
               Insights!Finish(i, topic)
    BY <1>2
  <2>2. topic \in SUBSET Phrases
    BY DEF Insights!Verified
  <2> QED BY <2>1, <2>2, FinishStep
<1> QED BY <1>1, <1>2, Zenon DEF Insights!FinishWithTopic

\* A note that is asked for once more is still the one that was asked for.
LEMMA NoteAnswerStep ==
    ASSUME InsightsInv, Insights!InsightsAssumption, NEW i \in DOMAIN noteCalls,
           Insights!NoteAnswers(i)
    PROVE  InsightsInv'
<1>1. PICK marks \in SUBSET Phrases :
         \/ Insights!FinishWithTopic(i, Insights!Verified(marks, noteCalls[i].text))
         \/ /\ noteCalls' = [noteCalls EXCEPT
                               ![i].stage = "correction", ![i].marks = marks,
                               ![i].safe = Insights!Verified(marks, noteCalls[i].text)]
            /\ UNCHANGED <<margin, noted, visited>>
  BY Zenon DEF Insights!NoteAnswers
<1> DEFINE safe == Insights!Verified(marks, noteCalls[i].text)
<1>2. safe \in SUBSET Phrases
  BY DEF Insights!Verified
<1>3. CASE Insights!FinishWithTopic(i, safe)
  BY <1>2, <1>3, TopicStep
<1>4. CASE /\ noteCalls' = [noteCalls EXCEPT ![i].stage = "correction", ![i].marks = marks,
                                            ![i].safe = safe]
           /\ UNCHANGED <<margin, noted, visited>>
  <2> HIDE DEF safe
  <2>1. noteCalls \in Seq(NoteCall) /\ DOMAIN noteCalls = 1 .. Len(noteCalls)
        /\ noteCalls[i] \in NoteCall
    BY OneNoteCall DEF InsightsInv, NotesKnown
  <2> DEFINE c == [noteCalls[i] EXCEPT !.stage = "correction", !.marks = marks, !.safe = safe]
  <2>2. c \in NoteCall /\ c.page = noteCalls[i].page /\ c.text = noteCalls[i].text
        /\ c.life = noteCalls[i].life
    BY <1>2, <2>1 DEF NoteCall
  <2>3. noteCalls' = [noteCalls EXCEPT ![i] = c]
    BY <1>4, <2>1
  <2> HIDE DEF c
  <2>4. /\ noteCalls' \in Seq(NoteCall) /\ DOMAIN noteCalls' = DOMAIN noteCalls
        /\ \A k \in DOMAIN noteCalls : /\ noteCalls'[k].page = noteCalls[k].page
                                       /\ noteCalls'[k].text = noteCalls[k].text
                                       /\ noteCalls'[k].life = noteCalls[k].life
    BY <2>1, <2>2, <2>3
  <2>5. NotesKnown'
    BY <1>4, <2>4 DEF InsightsInv, NotesKnown, Insights!Live
  <2> QED BY <1>4, <2>5 DEF InsightsInv, MarginKnown
<1> QED BY <1>1, <1>3, <1>4

LEMMA CorrectionStep ==
    ASSUME InsightsInv, Insights!InsightsAssumption, NEW i \in DOMAIN noteCalls,
           Insights!CorrectionAnswers(i)
    PROVE  InsightsInv'
<1>1. noteCalls[i].marks \in SUBSET Phrases /\ noteCalls[i].safe \in SUBSET Phrases
  BY OneNoteCall DEF InsightsInv, NoteCall
<1>2. \A marks \in SUBSET Phrases : Insights!Verified(marks, noteCalls[i].text) \in SUBSET Phrases
  BY DEF Insights!Verified
<1>3. \E marks \in SUBSET Phrases : Insights!FinishWithTopic(i, marks)
  <2>1. CASE Insights!FinishWithTopic(i, noteCalls[i].marks)
    BY <1>1, <2>1
  <2>2. CASE \E marks \in SUBSET Phrases :
               Insights!FinishWithTopic(i, IF Insights!Verified(marks, noteCalls[i].text) # {}
                                           THEN Insights!Verified(marks, noteCalls[i].text)
                                           ELSE noteCalls[i].safe)
    BY <1>1, <1>2, <2>2, Zenon
  <2> QED BY <2>1, <2>2, Zenon DEF Insights!CorrectionAnswers
<1> QED BY <1>3, TopicStep

LEMMA FailedStep ==
    ASSUME InsightsInv, Insights!InsightsAssumption, NEW i \in DOMAIN noteCalls,
           Insights!NoteFails(i)
    PROVE  InsightsInv'
<1> DEFINE c == noteCalls[i]
<1>1. /\ noteCalls' = RemoveAt(noteCalls, i) /\ UNCHANGED noted
      /\ margin' = [Insights!Ended(c) EXCEPT
                      !.wrong = IF Insights!Live(c) THEN @ \cup {c.page} ELSE @]
  BY Zenon DEF Insights!NoteFails, Insights!RemoveAt, RemoveAt
<1>2. c.page \in BookPages
  BY OneNoteCall DEF InsightsInv, NoteCall
<1> HIDE DEF c
<1>3. /\ MarginKnown' /\ margin'.life = margin.life
      /\ margin'.busy = IF Insights!Live(c) THEN FALSE ELSE margin.busy
  <2> DEFINE ended == Insights!Ended(c)
  <2>1. ended = [margin EXCEPT !.busy = IF Insights!Live(c) THEN FALSE ELSE margin.busy]
    BY DEF Insights!Ended, InsightsInv, MarginKnown
  <2>2. margin' = [ended EXCEPT !.wrong = IF Insights!Live(c) THEN ended.wrong \cup {c.page} ELSE ended.wrong]
    BY <1>1
  <2> HIDE DEF ended
  <2>3. /\ margin' = [margin EXCEPT !.busy = margin'.busy, !.wrong = margin'.wrong]
        /\ margin'.busy = IF Insights!Live(c) THEN FALSE ELSE margin.busy
        /\ margin'.wrong \in SUBSET BookPages
    BY <1>2, <2>1, <2>2 DEF InsightsInv, MarginKnown
  <2>4. margin'.busy \in BOOLEAN
    BY <2>3 DEF InsightsInv, MarginKnown
  <2> QED BY <1>1, <2>3, <2>4 DEF InsightsInv, MarginKnown
<1>4. NotesKnown'
  BY <1>1, <1>3, NoteAnswered DEF c
<1> QED BY <1>3, <1>4 DEF InsightsInv

\* The history holds pages of the book with a text, the latest of them.
Visit == [page : BookPages, text : TextPages]
VisitedKnown == visited \in Seq(Visit) /\ Len(visited) <= KeptPages

LEMMA Remembered ==
    ASSUME VisitedKnown, Insights!InsightsAssumption, NEW p \in BookPages,
           NEW text \in TextPages \cup {Nothing}, Insights!Remember(p, text)
    PROVE  VisitedKnown'
<1> DEFINE I == {i \in DOMAIN visited : visited[i].page # p}
           others == Insights!Picked(visited, I)
           v == [page |-> p, text |-> text]
           all == Append(others, v)
           first == IF Len(all) > KeptPages THEN Len(all) - KeptPages + 1 ELSE 1
<1>1. CASE text = Nothing
  BY <1>1 DEF Insights!Remember, VisitedKnown
<1>2. CASE text # Nothing
  <2>1. visited' = SubSeq(all, first, Len(all))
    BY <1>2 DEF Insights!Remember, Insights!LastOf
  <2>2. others \in Seq(Visit)
    <3>1. I \in SUBSET DOMAIN visited /\ visited \in Seq(Visit)
      BY DEF VisitedKnown
    <3> HIDE DEF I
    <3>2. \A T : Insights!Cardinality(T) = Cardinality(T)
      BY Zenon DEF Insights!Cardinality, Cardinality
    <3>3. \A k : Insights!Place(I, k) = Place(I, k)
      BY <3>2, Zenon DEF Insights!Place, Place
    <3>4. others = Picked(visited, I)
      BY <3>2, <3>3 DEF Insights!Picked, Picked
    <3> QED BY <3>1, <3>4, PickedFacts
  <2>3. v \in Visit
    BY <1>2 DEF Visit
  <2> HIDE DEF others, v
  <2>4. all \in Seq(Visit) /\ Len(all) \in Nat \ {0} /\ \A i \in 1 .. Len(all) : all[i] \in Visit
    <3>1. all \in Seq(Visit) /\ Len(all) = Len(others) + 1
      BY <2>2, <2>3, AppendProperties
    <3> HIDE DEF all
    <3>2. Len(others) \in Nat /\ \A i \in 1 .. Len(all) : all[i] \in Visit
      BY <2>2, <3>1, LenProperties, ElementOfSeq
    <3> QED BY <3>1, <3>2
  <2> DEFINE n == Len(all)
  <2> HIDE DEF all, n
  <2>5. KeptPages \in Nat \ {0} /\ n \in Nat \ {0}
    BY <2>4 DEF Insights!InsightsAssumption, n
  <2>6. first \in 1 .. n /\ n - first + 1 <= KeptPages /\ first <= n
    BY <2>5 DEF n
  <2>7. \A i \in first .. n : all[i] \in Visit
    BY <2>4, <2>5, <2>6 DEF n
  <2> HIDE DEF first
  <2>8. first \in Int /\ n \in Int
    BY <2>5, <2>6
  <2>9. /\ SubSeq(all, first, n) \in Seq(Visit)
        /\ Len(SubSeq(all, first, n)) = n - first + 1
    BY <2>6, <2>7, <2>8, SubSeqProperties
  <2> QED BY <2>1, <2>6, <2>9 DEF VisitedKnown, n
<1> QED BY <1>1, <1>2

LEMMA VisitedStep ==
    ASSUME InsightsInv, VisitedKnown, Insights!InsightsAssumption, Insights!InsightsNext
    PROVE  VisitedKnown'
<1>1. margin.text \in TextPages \cup {Nothing} /\ margin.page \in BookPages
  BY DEF InsightsInv, MarginKnown
<1>2. \/ \E p \in BookPages : Insights!Remember(p, margin.text)
      \/ margin.page \in TextPages /\ Insights!Remember(margin.page, margin.page)
      \/ UNCHANGED visited
  <2>1. Insights!TurnPage => \E p \in BookPages : Insights!Remember(p, margin.text)
    BY Zenon DEF Insights!TurnPage
  <2>2. Insights!TextArrives => margin.page \in TextPages /\ Insights!Remember(margin.page, margin.page)
    BY Zenon DEF Insights!TextArrives
  <2>3. Insights!OpenBook \/ Insights!AskOnItsOwn \/ Insights!AskAgain => UNCHANGED visited
    BY Zenon DEF Insights!OpenBook, Insights!AskOnItsOwn, Insights!AskAgain, Insights!Ask
  <2>4. \A i, marks : Insights!FinishWithTopic(i, marks) => UNCHANGED visited
    BY Zenon DEF Insights!FinishWithTopic, Insights!Finish
  <2>5. \A i \in DOMAIN noteCalls : Insights!NoteAnswers(i) => UNCHANGED visited
    BY <2>4, Zenon DEF Insights!NoteAnswers
  <2>6. \A i \in DOMAIN noteCalls : Insights!CorrectionAnswers(i) \/ Insights!NoteFails(i) => UNCHANGED visited
    BY <2>4, Zenon DEF Insights!CorrectionAnswers, Insights!NoteFails
  <2> QED BY <2>1, <2>2, <2>3, <2>5, <2>6, Zenon DEF Insights!InsightsNext
<1>3. CASE UNCHANGED visited
  BY <1>3 DEF VisitedKnown
<1> QED BY <1>1, <1>2, <1>3, Remembered

(* A note, stored or shown in the margin, is written from the text of the page  *)
(* it lies at, an open book waits for at most one, and the history of the pages *)
(* that were read keeps to its length (the companion's notes on those pages).   *)
THEOREM NotesFollowThePage ==
    ASSUME Insights!InsightsAssumption
    PROVE  Insights!InsightsSpec => [](/\ Insights!InsightsTypeOK
                                       /\ Insights!NotesLieAtTheirPage)
<1> DEFINE Inv == InsightsInv /\ VisitedKnown
<1>1. Insights!InsightsInit => Inv
  <2> SUFFICES ASSUME Insights!InsightsInit PROVE Inv
    OBVIOUS
  <2>1. Nothing \in Tries
    BY DEF Tries
  <2>2. MarginKnown
    BY <2>1 DEF Insights!InsightsInit, MarginKnown
  <2>3. noteCalls = <<>> /\ ~margin.busy
    BY DEF Insights!InsightsInit
  <2>4. VisitedKnown
    BY DEF Insights!InsightsInit, Insights!InsightsAssumption, VisitedKnown
  <2> QED BY <2>2, <2>3, <2>4 DEF InsightsInv, NotesKnown
<1>2. Inv => Insights!InsightsTypeOK /\ Insights!NotesLieAtTheirPage
  BY DEF InsightsInv, MarginKnown, NotesKnown, VisitedKnown, Insights!InsightsTypeOK,
         Insights!NotesLieAtTheirPage
<1>3. ASSUME Inv, [Insights!InsightsNext]_(Insights!insightsVars)
      PROVE  Inv'
  <2>1. CASE UNCHANGED Insights!insightsVars
    BY <1>3, <2>1 DEF Insights!insightsVars, InsightsInv, MarginKnown, NotesKnown, Insights!Live,
                      VisitedKnown
  <2>2. CASE Insights!InsightsNext
    <3>1. InsightsInv'
      BY <1>3, <2>2, ReadingStep, OpenStep, AskingStep, NoteAnswerStep, CorrectionStep, FailedStep, Zenon
         DEF Insights!InsightsNext
    <3>2. VisitedKnown'
      BY <1>3, <2>2, VisitedStep
    <3> QED BY <3>1, <3>2
  <2> QED BY <1>3, <2>1, <2>2
<1> QED BY <1>1, <1>2, <1>3, PTL DEF Insights!InsightsSpec

-----------------------------------------------------------------------------
(* The changes asked for in the book                                       *)

Actions == INSTANCE StudyActions

ActTexts == {"selection", "model", "answer"} \cup 1 .. MaxPageMarks
Acts == [kind : Actions!Kinds, text : ActTexts]
KindsOf(s) == {s[i].kind : i \in DOMAIN s}

\* A kind is written once at most, and as the phrase that was selected.
Sole(s, k) ==
    \A i \in DOMAIN s : s[i].kind = k =>
        /\ s[i] = Actions!Act(k, "selection")
        /\ \A j \in DOMAIN s : s[j].kind = k => j = i

LEMMA OneAct ==
    ASSUME NEW k \in Actions!Kinds, NEW t \in ActTexts
    PROVE  Actions!Act(k, t) \in Acts /\ Actions!Act(k, t).kind = k
BY DEF Acts, Actions!Act

LEMMA SameChoice == \A s, I : Actions!Picked(s, I) = Picked(s, I)
<1> SUFFICES ASSUME NEW s, NEW I PROVE Actions!Picked(s, I) = Picked(s, I)
  OBVIOUS
<1>1. \A T : Actions!Cardinality(T) = Cardinality(T)
  BY Zenon DEF Actions!Cardinality, Cardinality
<1>2. \A k : Actions!Place(I, k) = Place(I, k)
  BY <1>1, Zenon DEF Actions!Place, Place
<1> QED BY <1>1, <1>2 DEF Actions!Picked, Picked

LEMMA OfKindsFacts ==
    ASSUME NEW s \in Seq(Acts), NEW K
    PROVE  /\ Actions!OfKinds(s, K) \in Seq(Acts)
           /\ KindsOf(Actions!OfKinds(s, K)) = KindsOf(s) \cap K
           /\ \A k : Sole(s, k) => Sole(Actions!OfKinds(s, K), k)
<1> DEFINE I == {i \in DOMAIN s : s[i].kind \in K}
           p == Picked(s, I)
           n == Cardinality(I)
<1>1. Actions!OfKinds(s, K) = p
  BY SameChoice DEF Actions!OfKinds
<1>2. /\ p \in Seq(Acts) /\ Len(p) = n /\ n \in Nat
      /\ \A m \in 1 .. n : Place(I, m) \in I /\ p[m] = s[Place(I, m)]
      /\ \A m, l \in 1 .. n : m < l => Place(I, m) < Place(I, l)
      /\ \A i \in I : \E m \in 1 .. n : Place(I, m) = i
  <2>1. I \in SUBSET DOMAIN s
    OBVIOUS
  <2> HIDE DEF I
  <2> QED BY <2>1, PickedFacts
<1>3. DOMAIN p = 1 .. n /\ I \subseteq DOMAIN s /\ \A i \in I : s[i].kind \in K
  BY <1>2
<1>4. \A i \in DOMAIN s : s[i].kind \in K => i \in I
  OBVIOUS
<1> HIDE DEF p, n, I
<1>5. KindsOf(p) = KindsOf(s) \cap K
  <2>1. ASSUME NEW m \in DOMAIN p PROVE p[m].kind \in KindsOf(s) \cap K
    <3>1. Place(I, m) \in I /\ p[m] = s[Place(I, m)]
      BY <1>2, <1>3
    <3> QED BY <1>3, <3>1 DEF KindsOf
  <2>2. ASSUME NEW i \in DOMAIN s, s[i].kind \in K PROVE s[i].kind \in KindsOf(p)
    <3>1. \E m \in DOMAIN p : Place(I, m) = i
      BY <1>2, <1>3, <1>4, <2>2
    <3>2. \E m \in DOMAIN p : p[m] = s[i]
      BY <1>2, <1>3, <3>1
    <3> QED BY <3>2 DEF KindsOf
  <2> QED BY <2>1, <2>2 DEF KindsOf
<1>6. ASSUME NEW k, Sole(s, k), NEW m \in DOMAIN p, p[m].kind = k
      PROVE  /\ p[m] = Actions!Act(k, "selection")
             /\ \A l \in DOMAIN p : p[l].kind = k => l = m
  <2>1. Place(I, m) \in DOMAIN s /\ p[m] = s[Place(I, m)]
    BY <1>2, <1>3
  <2>2. p[m] = Actions!Act(k, "selection")
    BY <1>6, <2>1 DEF Sole
  <2>3. ASSUME NEW l \in DOMAIN p, p[l].kind = k PROVE l = m
    <3>1. Place(I, l) \in DOMAIN s /\ p[l] = s[Place(I, l)]
      BY <1>2, <1>3
    <3>2. Place(I, l) = Place(I, m)
      BY <1>6, <2>1, <2>3, <3>1 DEF Sole
    <3>3. l \in Nat /\ m \in Nat /\ s \in Seq(Acts)
      BY <1>2, <1>3
    <3>4. Place(I, l) \in Nat /\ Place(I, m) \in Nat
      BY <2>1, <3>1, <3>3
    <3>5. ~(l < m) /\ ~(m < l)
      BY <1>2, <1>3, <3>2, <3>4
    <3> QED BY <3>3, <3>5
  <2> QED BY <2>2, <2>3
<1>7. \A k : Sole(s, k) => Sole(p, k)
  BY <1>6 DEF Sole
<1> QED BY <1>1, <1>2, <1>5, <1>7

LEMMA JoinedActs ==
    ASSUME NEW s \in Seq(Acts), NEW t \in Seq(Acts)
    PROVE  /\ s \o t \in Seq(Acts)
           /\ KindsOf(s \o t) = KindsOf(s) \cup KindsOf(t)
           /\ \A k : /\ Sole(s, k) /\ Sole(t, k) /\ ~(k \in KindsOf(s) /\ k \in KindsOf(t))
                     => Sole(s \o t, k)
<1> DEFINE m == Len(s)
           n == Len(t)
           u == s \o t
<1>1. /\ m \in Nat /\ n \in Nat /\ DOMAIN s = 1 .. m /\ DOMAIN t = 1 .. n
      /\ u \in Seq(Acts) /\ DOMAIN u = 1 .. m + n
      /\ \A i \in 1 .. m + n : u[i] = IF i <= m THEN s[i] ELSE t[i - m]
  BY ConcatProperties, LenProperties
<1> HIDE DEF m, n, u
<1>2. /\ \A i \in 1 .. m + n : (i \in 1 .. m /\ u[i] = s[i])
                               \/ (i - m \in 1 .. n /\ ~(i \in 1 .. m) /\ u[i] = t[i - m])
      /\ \A i \in 1 .. m : i \in 1 .. m + n /\ u[i] = s[i]
      /\ \A i \in 1 .. n : m + i \in 1 .. m + n /\ u[m + i] = t[i]
  <2>1. \A i \in 1 .. m : i \in 1 .. m + n /\ i <= m
    BY <1>1
  <2>2. \A i \in 1 .. n : m + i \in 1 .. m + n /\ ~(m + i <= m) /\ (m + i) - m = i
    BY <1>1
  <2>3. \A i \in 1 .. m + n : (i \in 1 .. m /\ i <= m) \/ (i - m \in 1 .. n /\ ~(i \in 1 .. m) /\ ~(i <= m))
    BY <1>1
  <2> QED BY <1>1, <2>1, <2>2, <2>3
<1>3. KindsOf(u) = KindsOf(s) \cup KindsOf(t)
  <2>1. ASSUME NEW i \in DOMAIN u PROVE u[i].kind \in KindsOf(s) \cup KindsOf(t)
    BY <1>1, <1>2 DEF KindsOf
  <2>2. ASSUME NEW i \in DOMAIN s PROVE s[i].kind \in KindsOf(u)
    BY <1>1, <1>2 DEF KindsOf
  <2>3. ASSUME NEW i \in DOMAIN t PROVE t[i].kind \in KindsOf(u)
    <3>1. m + i \in DOMAIN u /\ u[m + i] = t[i]
      BY <1>1, <1>2
    <3> QED BY <3>1 DEF KindsOf
  <2> QED BY <2>1, <2>2, <2>3 DEF KindsOf
<1>4. ASSUME NEW k, Sole(s, k), Sole(t, k), ~(k \in KindsOf(s) /\ k \in KindsOf(t)),
             NEW i \in DOMAIN u, u[i].kind = k
      PROVE  /\ u[i] = Actions!Act(k, "selection")
             /\ \A j \in DOMAIN u : u[j].kind = k => j = i
  <2>1. u[i] = Actions!Act(k, "selection")
    BY <1>1, <1>2, <1>4 DEF Sole
  <2>2. ASSUME NEW j \in DOMAIN u, u[j].kind = k PROVE j = i
    <3>1. CASE i \in 1 .. m /\ j \in 1 .. m
      BY <1>1, <1>2, <1>4, <2>2, <3>1 DEF Sole
    <3>2. CASE i \notin 1 .. m /\ j \notin 1 .. m
      <4>1. i - m \in 1 .. n /\ j - m \in 1 .. n /\ u[i] = t[i - m] /\ u[j] = t[j - m]
        BY <1>1, <1>2, <3>2
      <4>2. i - m = j - m
        BY <1>1, <1>4, <2>2, <4>1 DEF Sole
      <4>3. i \in Int /\ j \in Int /\ m \in Int
        BY <1>1
      <4> QED BY <4>2, <4>3
    <3>3. CASE (i \in 1 .. m) # (j \in 1 .. m)
      <4>1. \A a \in DOMAIN u : u[a].kind = k =>
              IF a \in 1 .. m THEN k \in KindsOf(s) ELSE k \in KindsOf(t)
        BY <1>1, <1>2 DEF KindsOf
      <4> QED BY <1>4, <2>2, <3>3, <4>1
    <3> QED BY <3>1, <3>2, <3>3
  <2> QED BY <2>1, <2>2
<1>5. \A k : /\ Sole(s, k) /\ Sole(t, k) /\ ~(k \in KindsOf(s) /\ k \in KindsOf(t))
             => Sole(u, k)
  BY <1>4 DEF Sole
<1> QED BY <1>1, <1>3, <1>5 DEF u

LEMMA OtherKinds ==
    ASSUME NEW s, NEW k, k \notin KindsOf(s)
    PROVE  Sole(s, k)
BY DEF Sole, KindsOf

LEMMA OnlyAct ==
    ASSUME NEW a \in Acts
    PROVE  /\ <<a>> \in Seq(Acts) /\ KindsOf(<<a>>) = {a.kind}
           /\ a = Actions!Act(a.kind, "selection") => Sole(<<a>>, a.kind)
<1>1. DOMAIN <<a>> = {1} /\ <<a>>[1] = a
  OBVIOUS
<1>2. KindsOf(<<a>>) = {a.kind}
  BY <1>1 DEF KindsOf
<1> QED BY <1>1, <1>2 DEF Sole

LEMMA AppendedAct ==
    ASSUME NEW s \in Seq(Acts), NEW a \in Acts
    PROVE  /\ Append(s, a) \in Seq(Acts)
           /\ KindsOf(Append(s, a)) = KindsOf(s) \cup {a.kind}
           /\ \A k : Sole(s, k) /\ k # a.kind => Sole(Append(s, a), k)
           /\ a.kind \notin KindsOf(s) /\ a = Actions!Act(a.kind, "selection")
              => Sole(Append(s, a), a.kind)
<1>1. Append(s, a) = s \o <<a>>
  BY AppendIsConcat
<1>2. /\ <<a>> \in Seq(Acts) /\ KindsOf(<<a>>) = {a.kind}
      /\ a = Actions!Act(a.kind, "selection") => Sole(<<a>>, a.kind)
  BY OnlyAct
<1>3. \A k : k \notin KindsOf(<<a>>) => Sole(<<a>>, k)
  BY OtherKinds
<1>4. \A k : k \notin KindsOf(s) => Sole(s, k)
  BY OtherKinds
<1> DEFINE e == <<a>>
<1> HIDE DEF e
<1>5. e \in Seq(Acts)
  BY <1>2 DEF e
<1>6. /\ s \o e \in Seq(Acts)
      /\ KindsOf(s \o e) = KindsOf(s) \cup KindsOf(e)
      /\ \A k : /\ Sole(s, k) /\ Sole(e, k) /\ ~(k \in KindsOf(s) /\ k \in KindsOf(e))
                => Sole(s \o e, k)
  BY <1>5, JoinedActs
<1> QED BY <1>1, <1>2, <1>3, <1>4, <1>6 DEF e

LEMMA FirstAct ==
    ASSUME NEW s \in Seq(Acts), s # <<>>
    PROVE  /\ Head(s) \in Acts /\ Tail(s) \in Seq(Acts)
           /\ KindsOf(s) = {Head(s).kind} \cup KindsOf(Tail(s))
           /\ \A k : Sole(s, k) => /\ Sole(Tail(s), k)
                                   /\ Head(s).kind = k => /\ Head(s) = Actions!Act(k, "selection")
                                                          /\ k \notin KindsOf(Tail(s))
           /\ Len(s) = 1 <=> Tail(s) = <<>>
<1> DEFINE n == Len(s)
           t == Tail(s)
<1>1. /\ Head(s) \in Acts /\ t \in Seq(Acts) /\ Len(t) = n - 1
      /\ \A i \in 1 .. Len(t) : t[i] = s[i + 1]
      /\ Head(s) = s[1] /\ n \in Nat /\ n # 0 /\ DOMAIN s = 1 .. n /\ DOMAIN t = 1 .. n - 1
  BY HeadTailProperties, LenProperties, EmptySeq
<1>2. n = 1 <=> t = <<>>
  <2>1. (Len(t) = 0) <=> t = <<>>
    BY <1>1, EmptySeq
  <2> QED BY <1>1, <2>1
<1> HIDE DEF n, t
<1>3. /\ 1 \in DOMAIN s /\ \A i \in DOMAIN t : i \in Int /\ i + 1 \in DOMAIN s /\ i + 1 # 1 /\ t[i] = s[i + 1]
      /\ \A i \in DOMAIN s : i = 1 \/ (i - 1 \in DOMAIN t /\ s[i] = t[i - 1])
  <2>1. \A i \in DOMAIN t : i \in Int /\ i \in 1 .. Len(t) /\ i + 1 \in DOMAIN s /\ i + 1 # 1
    BY <1>1
  <2>2. \A i \in DOMAIN s : i = 1 \/ (i - 1 \in DOMAIN t /\ i - 1 \in 1 .. Len(t) /\ (i - 1) + 1 = i)
    BY <1>1
  <2>3. 1 \in DOMAIN s
    BY <1>1
  <2>4. \A i \in DOMAIN t : t[i] = s[i + 1]
    BY <1>1, <2>1
  <2>5. ASSUME NEW i \in DOMAIN s PROVE i = 1 \/ (i - 1 \in DOMAIN t /\ s[i] = t[i - 1])
    BY <2>2, <2>4
  <2> QED BY <2>1, <2>3, <2>4, <2>5
<1>4. KindsOf(s) = {s[1].kind} \cup KindsOf(t)
  <2>1. ASSUME NEW i \in DOMAIN s PROVE s[i].kind \in {s[1].kind} \cup KindsOf(t)
    BY <1>3 DEF KindsOf
  <2>2. ASSUME NEW i \in DOMAIN t PROVE t[i].kind \in KindsOf(s)
    BY <1>3 DEF KindsOf
  <2>3. s[1].kind \in KindsOf(s)
    BY <1>3 DEF KindsOf
  <2> QED BY <2>1, <2>2, <2>3 DEF KindsOf
<1>5. ASSUME NEW k, Sole(s, k)
      PROVE  /\ Sole(t, k)
             /\ s[1].kind = k => s[1] = Actions!Act(k, "selection") /\ k \notin KindsOf(t)
  <2>1. ASSUME NEW i \in DOMAIN t, t[i].kind = k, NEW j \in DOMAIN t, t[j].kind = k
        PROVE  t[i] = Actions!Act(k, "selection") /\ j = i
    <3>1. i + 1 = j + 1 /\ t[i] = Actions!Act(k, "selection")
      BY <1>3, <1>5, <2>1 DEF Sole
    <3> QED BY <1>3, <3>1
  <2>2. Sole(t, k)
    BY <2>1 DEF Sole
  <2>3. ASSUME s[1].kind = k PROVE s[1] = Actions!Act(k, "selection") /\ k \notin KindsOf(t)
    <3>1. s[1] = Actions!Act(k, "selection") /\ \A j \in DOMAIN s : s[j].kind = k => j = 1
      BY <1>3, <1>5, <2>3 DEF Sole
    <3> QED BY <1>3, <3>1 DEF KindsOf
  <2> QED BY <2>2, <2>3
<1> QED BY <1>1, <1>2, <1>4, <1>5 DEF n, t

LEMMA NoActs == \A s \in Seq(Acts) : s = <<>> <=> KindsOf(s) = {}
<1> SUFFICES ASSUME NEW s \in Seq(Acts) PROVE s = <<>> <=> KindsOf(s) = {}
  OBVIOUS
<1>1. DOMAIN <<>> = {} /\ \A i : i \notin {}
  OBVIOUS
<1>2. s = <<>> => KindsOf(s) = {}
  BY <1>1, Zenon DEF KindsOf
<1>3. s # <<>> => 1 \in DOMAIN s
  BY EmptySeq, LenProperties
<1> QED BY <1>2, <1>3 DEF KindsOf

LEMMA HasKind ==
    ASSUME NEW s \in Seq(Acts), NEW k
    PROVE  Actions!Has(s, k) <=> k \in KindsOf(s)
<1> DEFINE p == Actions!OfKinds(s, {k})
<1>1. p \in Seq(Acts) /\ KindsOf(p) = KindsOf(s) \cap {k}
  BY OfKindsFacts
<1> HIDE DEF p
<1>2. p = <<>> <=> KindsOf(p) = {}
  BY <1>1, NoActs
<1>3. Actions!Has(s, k) <=> p # <<>>
  BY DEF Actions!Has, Actions!OfKind, p
<1> QED BY <1>1, <1>2, <1>3

ActLines == [kind : Actions!Kinds, saved : BOOLEAN]

ActRequest == [stage : {"idle", "model", "repair", "save", "done", "failed"}, made : Nat,
               wishes : SUBSET Actions!Kinds, selected : BOOLEAN, short : BOOLEAN,
               broad : BOOLEAN, marks : 0 .. MaxPageMarks, actions : Seq(Acts),
               useful : BOOLEAN, lines : SUBSET ActLines]

\* The phrase that was selected decides what is written of a kind.
PhraseDecides(r, k) ==
    k \in r.wishes /\ IF k = "highlight" THEN r.short ELSE r.selected

\* What is left to write, what was written and what is said of both.
Saving(r, w) ==
    /\ \A k \in r.wishes : k \in KindsOf(r.actions) \/ \E line \in r.lines : line.kind = k
    /\ \A line \in r.lines : line.saved => line.kind \in KindsOf(w)
    /\ \A k \in KindsOf(w) : \E line \in r.lines : line.kind = k
    /\ \A k \in {"highlight", "quote"} : PhraseDecides(r, k) =>
         Sole(w, k) /\ Sole(r.actions, k) /\ ~(k \in KindsOf(w) /\ k \in KindsOf(r.actions))

RequestKnown(r, w) ==
    /\ r \in ActRequest /\ w \in Seq(Acts) /\ r.made <= MaxRequests /\ (r.short => r.selected)
    /\ (r.stage = "save") <=> (r.actions # <<>> /\ r.stage # "repair")
    /\ IF r.stage \in {"save", "done"} THEN Saving(r, w) ELSE w = <<>> /\ r.lines = {}

ActionsInv == RequestKnown(request, written)

\* The passage alone: what is asked for, once each, as it was selected.
LEMMA PassageIs ==
    ASSUME NEW wishes \in SUBSET Actions!Kinds
    PROVE  /\ Actions!Passage(wishes) \in Seq(Acts) /\ KindsOf(Actions!Passage(wishes)) = wishes
           /\ \A k : Sole(Actions!Passage(wishes), k)
<1> DEFINE a == Actions!Act("note", "selection")
           b == Actions!Act("quote", "selection")
           c == Actions!Act("highlight", "selection")
           s == <<a, b, c>>
<1>1. /\ a \in Acts /\ b \in Acts /\ c \in Acts
      /\ a.kind = "note" /\ b.kind = "quote" /\ c.kind = "highlight"
      /\ \A k : a.kind = k => a = Actions!Act(k, "selection")
      /\ \A k : b.kind = k => b = Actions!Act(k, "selection")
      /\ \A k : c.kind = k => c = Actions!Act(k, "selection")
  BY DEF Acts, ActTexts, Actions!Act, Actions!Kinds
<1> HIDE DEF a, b, c
<1>2. s \in Seq(Acts) /\ DOMAIN s = {1, 2, 3} /\ s[1] = a /\ s[2] = b /\ s[3] = c
  BY <1>1
<1>3. Actions!Passage(wishes) = Actions!OfKinds(s, wishes)
  BY DEF Actions!Passage, a, b, c
<1> HIDE DEF s
<1>4. KindsOf(s) = Actions!Kinds
  BY <1>1, <1>2 DEF KindsOf, Actions!Kinds
<1>5. \A k : Sole(s, k)
  BY <1>1, <1>2 DEF Sole
<1>6. /\ Actions!OfKinds(s, wishes) \in Seq(Acts)
      /\ KindsOf(Actions!OfKinds(s, wishes)) = KindsOf(s) \cap wishes
      /\ \A k : Sole(s, k) => Sole(Actions!OfKinds(s, wishes), k)
  BY <1>2, OfKindsFacts
<1> QED BY <1>3, <1>4, <1>5, <1>6

LEMMA PlansAre == Actions!Plans \subseteq Seq(Acts)
<1> DEFINE a == Actions!Act("highlight", "model")
           b == Actions!Act("note", "model")
           c == Actions!Act("quote", "model")
           s == <<a, b, c>>
<1>1. a \in Acts /\ b \in Acts /\ c \in Acts
  BY DEF Acts, ActTexts, Actions!Act, Actions!Kinds
<1> HIDE DEF a, b, c
<1>2. s \in Seq(Acts)
  BY <1>1
<1>3. Actions!Plans = {Actions!OfKinds(s, kinds) : kinds \in SUBSET Actions!Kinds}
  BY DEF Actions!Plans, a, b, c
<1> HIDE DEF s
<1>4. \A K : Actions!OfKinds(s, K) \in Seq(Acts)
  BY <1>2, OfKindsFacts
<1> QED BY <1>3, <1>4

\* The phrase replaces what the model proposed in its place.
LEMMA SelectionIn ==
    ASSUME NEW r \in ActRequest, r.short => r.selected, NEW s \in Seq(Acts)
    PROVE  /\ Actions!WithSelection(r, s) \in Seq(Acts)
           /\ \A k \in {"highlight", "quote"} : PhraseDecides(r, k) =>
                /\ k \in KindsOf(Actions!WithSelection(r, s))
                /\ Sole(Actions!WithSelection(r, s), k)
<1> DEFINE high == Actions!Act("highlight", "selection")
           quote == Actions!Act("quote", "selection")
           marked == IF "highlight" \in r.wishes /\ r.short
                     THEN Append(Actions!Without(s, "highlight"), high) ELSE s
           all == IF "quote" \in r.wishes /\ r.selected
                  THEN Append(Actions!Without(marked, "quote"), quote) ELSE marked
<1>1. /\ high \in Acts /\ high.kind = "highlight" /\ high = Actions!Act(high.kind, "selection")
      /\ quote \in Acts /\ quote.kind = "quote" /\ quote = Actions!Act(quote.kind, "selection")
  BY DEF Acts, ActTexts, Actions!Act, Actions!Kinds
<1>2. Actions!WithSelection(r, s) = all
  BY Zenon DEF Actions!WithSelection
<1> HIDE DEF high, quote
<1>3. ASSUME NEW t \in Seq(Acts), NEW k
      PROVE  /\ Actions!Without(t, k) \in Seq(Acts) /\ k \notin KindsOf(Actions!Without(t, k))
             /\ \A l \in Actions!Kinds \ {k} :
                  l \in KindsOf(t) => l \in KindsOf(Actions!Without(t, k))
             /\ \A l : Sole(t, l) => Sole(Actions!Without(t, k), l)
  <2> DEFINE K == Actions!Kinds \ {k}
  <2>1. /\ Actions!OfKinds(t, K) \in Seq(Acts)
        /\ KindsOf(Actions!OfKinds(t, K)) = KindsOf(t) \cap K
        /\ \A l : Sole(t, l) => Sole(Actions!OfKinds(t, K), l)
    BY OfKindsFacts
  <2> QED BY <2>1 DEF Actions!Without
<1>4. /\ marked \in Seq(Acts)
      /\ PhraseDecides(r, "highlight") =>
           "highlight" \in KindsOf(marked) /\ Sole(marked, "highlight")
  <2>1. CASE "highlight" \in r.wishes /\ r.short
    <3> DEFINE t == Actions!Without(s, "highlight")
    <3>1. t \in Seq(Acts) /\ "highlight" \notin KindsOf(t) /\ marked = Append(t, high)
      BY <1>3, <2>1
    <3> HIDE DEF t, marked
    <3> QED BY <1>1, <3>1, AppendedAct
  <2>2. CASE ~("highlight" \in r.wishes /\ r.short)
    BY <2>2 DEF PhraseDecides
  <2> QED BY <2>1, <2>2
<1> HIDE DEF marked
<1>5. CASE "quote" \in r.wishes /\ r.selected
  <2> DEFINE t == Actions!Without(marked, "quote")
  <2>1. /\ t \in Seq(Acts) /\ "quote" \notin KindsOf(t) /\ all = Append(t, quote)
        /\ "highlight" \in KindsOf(marked) => "highlight" \in KindsOf(t)
        /\ Sole(marked, "highlight") => Sole(t, "highlight")
    BY <1>3, <1>4, <1>5 DEF Actions!Kinds
  <2> HIDE DEF t, all
  <2>2. /\ all \in Seq(Acts) /\ KindsOf(all) = KindsOf(t) \cup {"quote"}
        /\ Sole(all, "quote") /\ (Sole(t, "highlight") => Sole(all, "highlight"))
    BY <1>1, <2>1, AppendedAct
  <2> QED BY <1>2, <1>4, <2>1, <2>2
<1>6. CASE ~("quote" \in r.wishes /\ r.selected)
  <2>1. ~PhraseDecides(r, "quote") /\ all = marked
    BY <1>6 DEF PhraseDecides
  <2> QED BY <1>2, <1>4, <2>1
<1> QED BY <1>5, <1>6

\* Marks of the page and a note are added without touching what the phrase decides.
LEMMA PageMarksIn ==
    ASSUME Actions!ActionsAssumption, NEW r \in ActRequest, r.short => r.selected,
           NEW s \in Seq(Acts),
           \A k \in {"highlight", "quote"} : PhraseDecides(r, k) => k \in KindsOf(s) /\ Sole(s, k)
    PROVE  /\ Actions!WithPageMarks(r, s) \in Seq(Acts)
           /\ \A k \in {"highlight", "quote"} : PhraseDecides(r, k) =>
                k \in KindsOf(Actions!WithPageMarks(r, s)) /\ Sole(Actions!WithPageMarks(r, s), k)
<1> DEFINE marks == [i \in 1 .. r.marks |-> Actions!Act("highlight", i)]
<1>1. CASE ~r.selected
  <2>1. \A k \in {"highlight", "quote"} : ~PhraseDecides(r, k)
    BY <1>1 DEF PhraseDecides
  <2>2. marks \in Seq(Acts)
    <3>1. r.marks \in Nat /\ \A i \in 1 .. r.marks : i \in ActTexts
      BY DEF ActRequest, ActTexts, Actions!ActionsAssumption
    <3>2. \A i \in 1 .. r.marks : Actions!Act("highlight", i) \in Acts
      BY <3>1, OneAct DEF Actions!Kinds
    <3> QED BY <3>1, <3>2
  <2> HIDE DEF marks
  <2>3. s \o marks \in Seq(Acts)
    BY <2>2, JoinedActs
  <2>4. Actions!WithPageMarks(r, s) = s \o marks \/ Actions!WithPageMarks(r, s) = s
    BY Zenon DEF Actions!WithPageMarks, marks
  <2> QED BY <2>1, <2>3, <2>4
<1>2. CASE r.selected
  <2>1. Actions!WithPageMarks(r, s) = s
    BY <1>2 DEF Actions!WithPageMarks
  <2> QED BY <2>1
<1> QED BY <1>1, <1>2

LEMMA NoteIn ==
    ASSUME NEW r \in ActRequest, NEW s \in Seq(Acts),
           \A k \in {"highlight", "quote"} : PhraseDecides(r, k) => Sole(s, k)
    PROVE  /\ Actions!WithNote(r, s) \in Seq(Acts)
           /\ \A k \in {"highlight", "quote"} : PhraseDecides(r, k) => Sole(Actions!WithNote(r, s), k)
<1> DEFINE note == Actions!Act("note", IF r.useful THEN "answer" ELSE "selection")
<1>1. note \in Acts /\ note.kind = "note"
  BY OneAct DEF ActTexts, Actions!Kinds
<1>2. Actions!WithNote(r, s) = Append(s, note) \/ Actions!WithNote(r, s) = s
  BY Zenon DEF Actions!WithNote
<1> HIDE DEF note
<1>3. /\ Append(s, note) \in Seq(Acts)
      /\ \A k : Sole(s, k) /\ k # "note" => Sole(Append(s, note), k)
  BY <1>1, AppendedAct
<1> QED BY <1>2, <1>3

\* The plan that is executed.
LEMMA CompletedIs ==
    ASSUME Actions!ActionsAssumption, NEW r \in ActRequest, r.short => r.selected,
           NEW s \in Seq(Acts)
    PROVE  /\ Actions!Completed(r, s) \in Seq(Acts)
           /\ \A k \in {"highlight", "quote"} : PhraseDecides(r, k) => Sole(Actions!Completed(r, s), k)
<1> DEFINE chosen == Actions!WithSelection(r, s)
           pages == Actions!WithPageMarks(r, chosen)
           plan == Actions!WithNote(r, pages)
           h == Actions!OfKinds(plan, {"highlight"})
           q == Actions!OfKinds(plan, {"quote"})
           n == Actions!OfKinds(plan, {"note"})
<1>1. /\ chosen \in Seq(Acts)
      /\ \A k \in {"highlight", "quote"} : PhraseDecides(r, k) => k \in KindsOf(chosen) /\ Sole(chosen, k)
  BY SelectionIn
<1> HIDE DEF chosen
<1>2. /\ pages \in Seq(Acts)
      /\ \A k \in {"highlight", "quote"} : PhraseDecides(r, k) => Sole(pages, k)
  BY <1>1, PageMarksIn
<1> HIDE DEF pages
<1>3. /\ plan \in Seq(Acts)
      /\ \A k \in {"highlight", "quote"} : PhraseDecides(r, k) => Sole(plan, k)
  BY <1>2, NoteIn
<1>4. Actions!Completed(r, s) = (h \o q) \o n
  BY Zenon DEF Actions!Completed, Actions!OfKind, chosen, pages
<1> HIDE DEF plan
<1>5. /\ h \in Seq(Acts) /\ KindsOf(h) \subseteq {"highlight"} /\ \A k : Sole(plan, k) => Sole(h, k)
      /\ q \in Seq(Acts) /\ KindsOf(q) \subseteq {"quote"} /\ \A k : Sole(plan, k) => Sole(q, k)
      /\ n \in Seq(Acts) /\ KindsOf(n) \subseteq {"note"} /\ \A k : Sole(plan, k) => Sole(n, k)
  BY <1>3, OfKindsFacts
<1> HIDE DEF h, q, n
<1>6. /\ h \o q \in Seq(Acts) /\ KindsOf(h \o q) \subseteq {"highlight", "quote"}
      /\ \A k : Sole(plan, k) => Sole(h \o q, k)
  <2>1. /\ h \o q \in Seq(Acts) /\ KindsOf(h \o q) = KindsOf(h) \cup KindsOf(q)
        /\ \A k : /\ Sole(h, k) /\ Sole(q, k) /\ ~(k \in KindsOf(h) /\ k \in KindsOf(q))
                  => Sole(h \o q, k)
    BY <1>5, JoinedActs
  <2> QED BY <1>5, <2>1
<1> DEFINE hq == h \o q
<1> HIDE DEF hq
<1>7. /\ hq \o n \in Seq(Acts)
      /\ \A k : /\ Sole(hq, k) /\ Sole(n, k) /\ ~(k \in KindsOf(hq) /\ k \in KindsOf(n))
                => Sole(hq \o n, k)
  BY <1>5, <1>6, JoinedActs DEF hq
<1>8. \A k : Sole(plan, k) => Sole(hq \o n, k)
  BY <1>5, <1>6, <1>7 DEF hq
<1> QED BY <1>3, <1>4, <1>7, <1>8 DEF hq

\* A request that starts to write knows all it has to say.
LEMMA Starts ==
    ASSUME NEW r \in ActRequest, r.stage \in {"save", "done"},
           \A k \in r.wishes : k \in KindsOf(r.actions) \/ \E line \in r.lines : line.kind = k,
           \A line \in r.lines : ~line.saved,
           \A k \in {"highlight", "quote"} : PhraseDecides(r, k) => Sole(r.actions, k)
    PROVE  Saving(r, <<>>)
<1>1. <<>> \in Seq(Acts)
  BY EmptySeq
<1>2. KindsOf(<<>>) = {}
  BY <1>1, NoActs
<1>3. \A k : Sole(<<>>, k)
  BY <1>2, OtherKinds
<1> QED BY <1>2, <1>3 DEF Saving

LEMMA PassageStarts ==
    ASSUME NEW r, RequestKnown(r, <<>>), r.lines = {}, r.wishes # {}
    PROVE  RequestKnown([r EXCEPT !.stage = "save", !.actions = Actions!Passage(r.wishes)], <<>>)
<1> DEFINE p == Actions!Passage(r.wishes)
           e == [r EXCEPT !.stage = "save", !.actions = p]
<1>1. r \in ActRequest /\ r.made <= MaxRequests /\ (r.short => r.selected) /\ <<>> \in Seq(Acts)
  BY DEF RequestKnown
<1>2. r.wishes \in SUBSET Actions!Kinds
  BY <1>1 DEF ActRequest
<1>3. p \in Seq(Acts) /\ KindsOf(p) = r.wishes /\ \A k : Sole(p, k)
  BY <1>2, PassageIs
<1>4. p # <<>>
  BY <1>3, NoActs
<1> HIDE DEF p
<1>5. /\ e \in ActRequest /\ e.stage = "save" /\ e.actions = p /\ e.made = r.made
      /\ e.wishes = r.wishes /\ e.lines = r.lines /\ e.short = r.short /\ e.selected = r.selected
  BY <1>1, <1>3 DEF ActRequest
<1> HIDE DEF e
<1>6. Saving(e, <<>>)
  BY <1>3, <1>5, Starts
<1> QED BY <1>1, <1>4, <1>5, <1>6 DEF RequestKnown, e, p

LEMMA ExecuteStarts ==
    ASSUME NEW r \in ActRequest, r.made <= MaxRequests, r.short => r.selected, r.lines = {},
           Actions!ActionsAssumption, NEW s \in Seq(Acts)
    PROVE  RequestKnown(Actions!Execute(r, s), <<>>)
<1> DEFINE plan == Actions!Completed(r, s)
           said == Actions!NothingToWrite(r, plan)
           e == Actions!Execute(r, s)
<1>1. /\ plan \in Seq(Acts)
      /\ \A k \in {"highlight", "quote"} : PhraseDecides(r, k) => Sole(plan, k)
  BY CompletedIs
<1>2. e = [r EXCEPT !.stage = IF plan = <<>> THEN "done" ELSE "save",
                    !.broad = FALSE, !.marks = 0, !.useful = FALSE,
                    !.actions = plan, !.lines = said]
  BY Zenon DEF Actions!Execute
<1> HIDE DEF plan, e
<1>3. /\ said \in SUBSET ActLines /\ \A line \in said : ~line.saved
      /\ \A k \in r.wishes : k \in KindsOf(plan) \/ \E line \in said : line.kind = k
  <2>1. said = {[kind |-> k, saved |-> FALSE] : k \in {w \in r.wishes : ~Actions!Has(plan, w)}}
    BY DEF Actions!NothingToWrite
  <2>2. r.wishes \subseteq Actions!Kinds
    BY DEF ActRequest
  <2>3. \A k \in Actions!Kinds : [kind |-> k, saved |-> FALSE] \in ActLines
    BY DEF ActLines
  <2>4. \A k \in r.wishes : Actions!Has(plan, k) <=> k \in KindsOf(plan)
    BY <1>1, HasKind
  <2> HIDE DEF said
  <2>5. \A line \in said : \E k \in r.wishes : line = [kind |-> k, saved |-> FALSE]
    BY <2>1
  <2>6. ASSUME NEW k \in r.wishes, k \notin KindsOf(plan)
        PROVE  \E line \in said : line.kind = k
    <3>1. [kind |-> k, saved |-> FALSE] \in said
      BY <2>1, <2>4, <2>6
    <3> QED BY <3>1
  <2> QED BY <2>2, <2>3, <2>5, <2>6
<1> HIDE DEF said
<1>4. 0 \in 0 .. MaxPageMarks
  BY DEF Actions!ActionsAssumption
<1>5. /\ e \in ActRequest /\ e.stage = IF plan = <<>> THEN "done" ELSE "save"
      /\ e.actions = plan /\ e.made = r.made /\ e.wishes = r.wishes /\ e.lines = said
      /\ e.short = r.short /\ e.selected = r.selected
  BY <1>1, <1>2, <1>3, <1>4 DEF ActRequest
<1>6. Saving(e, <<>>)
  <2>1. \A k \in {"highlight", "quote"} : PhraseDecides(e, k) => Sole(e.actions, k)
    BY <1>1, <1>5 DEF PhraseDecides
  <2> QED BY <1>3, <1>5, <2>1, Starts
<1>7. <<>> \in Seq(Acts)
  BY EmptySeq
<1> QED BY <1>5, <1>6, <1>7 DEF RequestKnown, e

LEMMA SubmitStep ==
    ASSUME ActionsInv, Actions!ActionsAssumption, Actions!Submit
    PROVE  ActionsInv'
<1>1. PICK wish \in Actions!Wishes, selected \in BOOLEAN, short \in BOOLEAN, explain \in BOOLEAN,
           usable \in BOOLEAN, marks \in 0 .. MaxPageMarks :
        LET wishes == wish.kinds
            r == [Actions!Idle EXCEPT !.made = request.made + 1, !.wishes = wishes,
                    !.selected = selected, !.short = selected /\ short, !.broad = wish.broad,
                    !.marks = IF wish.broad THEN marks ELSE 0]
        IN /\ request.stage \in {"idle", "done", "failed"} /\ request.made < MaxRequests
           /\ written' = <<>>
           /\ request' = IF Actions!Direct(r, explain)
                         THEN [r EXCEPT !.stage = "save", !.actions = Actions!Passage(wishes)]
                         ELSE IF usable THEN [r EXCEPT !.stage = "model"]
                         ELSE IF selected /\ wishes # {}
                              THEN [r EXCEPT !.stage = "save", !.actions = Actions!Passage(wishes)]
                         ELSE [r EXCEPT !.stage = "failed"]
  BY Zenon DEF Actions!Submit
<1> DEFINE wishes == wish.kinds
           r == [Actions!Idle EXCEPT !.made = request.made + 1, !.wishes = wishes,
                    !.selected = selected, !.short = selected /\ short, !.broad = wish.broad,
                    !.marks = IF wish.broad THEN marks ELSE 0]
<1>2. wishes \in SUBSET Actions!Kinds /\ wish.broad \in BOOLEAN
  BY DEF Actions!Wishes
<1>3. request.made + 1 \in Nat /\ request.made + 1 <= MaxRequests /\ 0 \in 0 .. MaxPageMarks
  BY <1>1 DEF ActionsInv, RequestKnown, ActRequest, Actions!ActionsAssumption
<1>4. /\ r \in ActRequest /\ r.made = request.made + 1 /\ r.wishes = wishes /\ r.actions = <<>>
      /\ r.selected = selected /\ r.short = (selected /\ short) /\ r.lines = {} /\ r.stage = "idle"
  <2>1. <<>> \in Seq(Acts)
    BY EmptySeq
  <2> HIDE DEF wishes
  <2>2. (selected /\ short) \in BOOLEAN /\ (IF wish.broad THEN marks ELSE 0) \in 0 .. MaxPageMarks
    BY <1>3
  <2> QED BY <1>2, <1>3, <2>1, <2>2 DEF ActRequest, Actions!Idle
<1>5. /\ written' = <<>>
      /\ \/ request' = [r EXCEPT !.stage = "save", !.actions = Actions!Passage(r.wishes)] /\ r.wishes # {}
         \/ request' = [r EXCEPT !.stage = "model"]
         \/ request' = [r EXCEPT !.stage = "failed"]
  <2>1. Actions!Direct(r, explain) => r.wishes # {}
    BY DEF Actions!Direct
  <2> QED BY <1>1, <1>4, <2>1
<1> HIDE DEF r
<1>6. RequestKnown(r, <<>>)
  BY <1>3, <1>4, EmptySeq DEF RequestKnown
<1>7. CASE request' = [r EXCEPT !.stage = "save", !.actions = Actions!Passage(r.wishes)] /\ r.wishes # {}
  BY <1>4, <1>5, <1>6, <1>7, PassageStarts DEF ActionsInv
<1>8. ASSUME NEW st \in {"model", "failed"}, request' = [r EXCEPT !.stage = st]
      PROVE  ActionsInv'
  <2>1. /\ request' \in ActRequest /\ request'.stage = st /\ request'.made = r.made
        /\ request'.actions = <<>> /\ request'.lines = {}
        /\ request'.short = r.short /\ request'.selected = r.selected
    BY <1>4, <1>8 DEF ActRequest
  <2> QED BY <1>3, <1>4, <1>5, <2>1, EmptySeq DEF ActionsInv, RequestKnown
<1> QED BY <1>5, <1>7, <1>8

LEMMA ModelStep ==
    ASSUME ActionsInv, Actions!ActionsAssumption, Actions!ModelAnswers
    PROVE  ActionsInv'
<1>1. PICK answer \in Actions!Answers :
        LET r == [request EXCEPT !.useful = answer.useful]
        IN /\ request.stage = "model"
           /\ request' = IF Actions!Missing(r, answer.actions) # {}
                         THEN [r EXCEPT !.stage = "repair", !.actions = answer.actions]
                         ELSE Actions!Execute(r, answer.actions)
           /\ UNCHANGED written
  BY Zenon DEF Actions!ModelAnswers
<1> DEFINE r == [request EXCEPT !.useful = answer.useful]
<1>2. answer.useful \in BOOLEAN /\ answer.actions \in Seq(Acts)
  BY PlansAre DEF Actions!Answers
<1>3. /\ request \in ActRequest /\ request.made <= MaxRequests /\ (request.short => request.selected)
      /\ request.lines = {} /\ written = <<>>
  BY <1>1 DEF ActionsInv, RequestKnown
<1>4. /\ r \in ActRequest /\ r.made = request.made /\ r.lines = {}
      /\ r.short = request.short /\ r.selected = request.selected
  BY <1>2, <1>3 DEF ActRequest
<1>5. /\ written' = <<>>
      /\ \/ request' = [r EXCEPT !.stage = "repair", !.actions = answer.actions]
         \/ request' = Actions!Execute(r, answer.actions)
  BY <1>1, <1>3
<1> HIDE DEF r
<1>6. CASE request' = Actions!Execute(r, answer.actions)
  BY <1>2, <1>3, <1>4, <1>5, <1>6, ExecuteStarts DEF ActionsInv
<1>7. CASE request' = [r EXCEPT !.stage = "repair", !.actions = answer.actions]
  <2>1. /\ request' \in ActRequest /\ request'.stage = "repair" /\ request'.made = r.made
        /\ request'.lines = {} /\ request'.short = r.short /\ request'.selected = r.selected
    BY <1>2, <1>4, <1>7 DEF ActRequest
  <2> QED BY <1>3, <1>4, <1>5, <2>1, EmptySeq DEF ActionsInv, RequestKnown
<1> QED BY <1>5, <1>6, <1>7

LEMMA RepairStep ==
    ASSUME ActionsInv, Actions!ActionsAssumption, Actions!RepairAnswers
    PROVE  ActionsInv'
<1>1. PICK answer \in Actions!Answers :
        /\ request.stage = "repair"
        /\ request' = Actions!Execute(request, request.actions \o answer.actions)
        /\ UNCHANGED written
  BY Zenon DEF Actions!RepairAnswers
<1>2. answer.actions \in Seq(Acts)
  BY PlansAre DEF Actions!Answers
<1>3. /\ request \in ActRequest /\ request.made <= MaxRequests /\ (request.short => request.selected)
      /\ request.lines = {} /\ written = <<>>
  BY <1>1 DEF ActionsInv, RequestKnown
<1>4. request.actions \in Seq(Acts)
  BY <1>3 DEF ActRequest
<1>5. request.actions \o answer.actions \in Seq(Acts)
  BY <1>2, <1>4, JoinedActs
<1> QED BY <1>1, <1>3, <1>5, ExecuteStarts DEF ActionsInv

LEMMA FailStep ==
    ASSUME ActionsInv, Actions!ModelFails
    PROVE  ActionsInv'
<1>1. /\ request.stage = "model" /\ written' = written
      /\ \/ /\ request' = [request EXCEPT !.stage = "save", !.actions = Actions!Passage(request.wishes)]
            /\ request.wishes # {}
         \/ request' = [request EXCEPT !.stage = "failed"]
  BY DEF Actions!ModelFails
<1>2. /\ RequestKnown(request, <<>>) /\ request \in ActRequest /\ request.lines = {} /\ written = <<>>
      /\ request.actions = <<>>
  BY <1>1 DEF ActionsInv, RequestKnown
<1>3. CASE request' = [request EXCEPT !.stage = "failed"]
  <2>1. /\ request' \in ActRequest /\ request'.stage = "failed" /\ request'.made = request.made
        /\ request'.actions = <<>> /\ request'.lines = {}
        /\ request'.short = request.short /\ request'.selected = request.selected
    BY <1>2, <1>3 DEF ActRequest
  <2> QED BY <1>1, <1>2, <2>1 DEF ActionsInv, RequestKnown
<1>4. CASE /\ request' = [request EXCEPT !.stage = "save", !.actions = Actions!Passage(request.wishes)]
           /\ request.wishes # {}
  BY <1>1, <1>2, <1>4, PassageStarts DEF ActionsInv
<1> QED BY <1>1, <1>3, <1>4

LEMMA WriteStep ==
    ASSUME ActionsInv, Actions!Write
    PROVE  ActionsInv'
<1> DEFINE a == Head(request.actions)
           rest == Tail(request.actions)
<1>1. PICK saved \in BOOLEAN, stays \in BOOLEAN :
        /\ request.stage = "save" /\ (saved => stays)
        /\ written' = IF stays THEN Append(written, a) ELSE written
        /\ request' = [request EXCEPT
                         !.lines = request.lines \cup {[kind |-> a.kind, saved |-> saved]},
                         !.actions = rest,
                         !.stage = IF Len(request.actions) = 1 THEN "done" ELSE "save"]
  BY DEF Actions!Write
<1>2. /\ request \in ActRequest /\ written \in Seq(Acts) /\ request.made <= MaxRequests
      /\ (request.short => request.selected) /\ request.actions # <<>> /\ Saving(request, written)
      /\ request.actions \in Seq(Acts)
  BY <1>1 DEF ActionsInv, RequestKnown, ActRequest
<1>3. /\ a \in Acts /\ rest \in Seq(Acts) /\ KindsOf(request.actions) = {a.kind} \cup KindsOf(rest)
      /\ \A k : Sole(request.actions, k) =>
           /\ Sole(rest, k)
           /\ a.kind = k => a = Actions!Act(k, "selection") /\ k \notin KindsOf(rest)
      /\ Len(request.actions) = 1 <=> rest = <<>>
  BY <1>2, FirstAct
<1> HIDE DEF a, rest
<1> DEFINE line == [kind |-> a.kind, saved |-> saved]
<1>4. line \in ActLines /\ line.kind = a.kind /\ line.saved = saved
  BY <1>3 DEF ActLines, Acts
<1> HIDE DEF line
<1>5. /\ request' \in ActRequest /\ request'.made = request.made /\ request'.wishes = request.wishes
      /\ request'.lines = request.lines \cup {line} /\ request'.actions = rest
      /\ request'.short = request.short /\ request'.selected = request.selected
      /\ request'.stage = IF rest = <<>> THEN "done" ELSE "save"
  BY <1>1, <1>2, <1>3, <1>4 DEF ActRequest, line
<1>6. /\ written' \in Seq(Acts)
      /\ KindsOf(written') = KindsOf(written) \cup IF stays THEN {a.kind} ELSE {}
      /\ \A k : Sole(written, k) /\ (k # a.kind \/ ~stays) => Sole(written', k)
      /\ stays /\ a.kind \notin KindsOf(written) /\ a = Actions!Act(a.kind, "selection")
         => Sole(written', a.kind)
  <2>1. CASE stays
    BY <1>1, <1>2, <1>3, <2>1, AppendedAct
  <2>2. CASE ~stays
    BY <1>1, <1>2, <2>2
  <2> QED BY <2>1, <2>2
<1>7. Saving(request', written')
  <2>1. \A k \in request'.wishes :
           k \in KindsOf(request'.actions) \/ \E l \in request'.lines : l.kind = k
    BY <1>2, <1>3, <1>4, <1>5 DEF Saving
  <2>2. \A l \in request'.lines : l.saved => l.kind \in KindsOf(written')
    BY <1>1, <1>2, <1>4, <1>5, <1>6 DEF Saving
  <2>3. \A k \in KindsOf(written') : \E l \in request'.lines : l.kind = k
    BY <1>2, <1>4, <1>5, <1>6 DEF Saving
  <2>4. ASSUME NEW k \in {"highlight", "quote"}, PhraseDecides(request', k)
        PROVE  /\ Sole(written', k) /\ Sole(rest, k)
               /\ ~(k \in KindsOf(written') /\ k \in KindsOf(rest))
    <3>1. PhraseDecides(request, k)
      BY <1>5, <2>4 DEF PhraseDecides
    <3>2. /\ Sole(written, k) /\ Sole(request.actions, k)
          /\ ~(k \in KindsOf(written) /\ k \in KindsOf(request.actions))
      BY <1>2, <3>1 DEF Saving
    <3> QED BY <1>3, <1>6, <3>2
  <2> QED BY <1>5, <2>1, <2>2, <2>3, <2>4 DEF Saving
<1> QED BY <1>2, <1>5, <1>6, <1>7 DEF ActionsInv, RequestKnown

LEMMA SoleIsOne ==
    ASSUME NEW w \in Seq(Acts), NEW k, Sole(w, k)
    PROVE  Actions!OfKind(w, k) \in {<<>>, <<Actions!Act(k, "selection")>>}
<1> DEFINE p == Actions!OfKinds(w, {k})
           n == Len(p)
<1>1. p \in Seq(Acts) /\ KindsOf(p) = KindsOf(w) \cap {k} /\ Sole(p, k)
  BY OfKindsFacts
<1> HIDE DEF p
<1>2. n \in Nat /\ DOMAIN p = 1 .. n /\ (n = 0 <=> p = <<>>)
  BY <1>1, LenProperties, EmptySeq
<1>3. \A i \in 1 .. n : p[i] = Actions!Act(k, "selection") /\ \A j \in 1 .. n : j = i
  BY <1>1, <1>2 DEF Sole, KindsOf
<1>4. n <= 1
  <2>1. SUFFICES ASSUME n > 1 PROVE FALSE
    BY <1>2
  <2>2. 1 \in 1 .. n /\ 2 \in 1 .. n
    BY <1>2, <2>1
  <2> QED BY <1>3, <2>2
<1>5. CASE n = 1
  <2>1. p[1] = Actions!Act(k, "selection")
    BY <1>3, <1>5
  <2>2. p = <<p[1]>>
    BY <1>1, <1>2, <1>5
  <2> QED BY <2>1, <2>2 DEF Actions!OfKind, p
<1>6. CASE n = 0
  BY <1>2, <1>6 DEF Actions!OfKind, p
<1> QED BY <1>2, <1>4, <1>5, <1>6

(* A request to change the book says of every kind of change what became of it, *)
(* claims no save that was not made, passes over none that was, and writes the  *)
(* selected phrase, once, for the highlight and the quotation it decides        *)
(* (ShelfStudyAssistant.tsx), whatever the model answers and whichever write    *)
(* fails: for any number of requests and of marks of a page.                    *)
THEOREM ChangesAreReported ==
    ASSUME Actions!ActionsAssumption
    PROVE  Actions!ActionsSpec => [](/\ Actions!ActionsTypeOK
                                     /\ Actions!EveryWishIsReported
                                     /\ Actions!ReportIsTrue
                                     /\ Actions!SelectionIsAuthoritative)
<1>1. Actions!ActionsInit => ActionsInv
  <2> SUFFICES ASSUME Actions!ActionsInit PROVE ActionsInv
    OBVIOUS
  <2>1. request = Actions!Idle /\ written = <<>> /\ <<>> \in Seq(Acts)
    BY EmptySeq DEF Actions!ActionsInit
  <2>2. 0 \in Nat /\ 0 <= MaxRequests /\ 0 \in 0 .. MaxPageMarks
    BY DEF Actions!ActionsAssumption
  <2>3. /\ request \in ActRequest /\ request.made = 0 /\ request.stage = "idle"
        /\ ~request.short /\ request.actions = <<>> /\ request.lines = {}
    BY <2>1, <2>2 DEF ActRequest, Actions!Idle
  <2> QED BY <2>1, <2>2, <2>3 DEF ActionsInv, RequestKnown
<1>2. ASSUME ActionsInv
      PROVE  /\ Actions!ActionsTypeOK /\ Actions!EveryWishIsReported
             /\ Actions!ReportIsTrue /\ Actions!SelectionIsAuthoritative
  <2>1. request \in ActRequest /\ written \in Seq(Acts) /\ request.actions \in Seq(Acts)
    BY <1>2 DEF ActionsInv, RequestKnown, ActRequest
  <2>2. Actions!ActionsTypeOK
    BY <1>2 DEF ActionsInv, RequestKnown, ActRequest, Actions!ActionsTypeOK
  <2>3. <<>> \in Seq(Acts) /\ KindsOf(<<>>) = {}
    BY EmptySeq, NoActs
  <2>4. Actions!EveryWishIsReported
    <3>1. request.stage = "done" => request.actions = <<>> /\ Saving(request, written)
      BY <1>2 DEF ActionsInv, RequestKnown
    <3> QED BY <2>3, <3>1 DEF Saving, Actions!EveryWishIsReported
  <2>5. Actions!ReportIsTrue
    <3>1. \/ Saving(request, written)
          \/ written = <<>> /\ request.lines = {}
      BY <1>2 DEF ActionsInv, RequestKnown
    <3>2. /\ \A line \in request.lines : line.saved => line.kind \in KindsOf(written)
          /\ \A k \in KindsOf(written) : \E line \in request.lines : line.kind = k
      BY <2>3, <3>1 DEF Saving
    <3>3. \A line \in request.lines : line.saved => Actions!Has(written, line.kind)
      BY <2>1, <3>2, HasKind
    <3>4. \A i \in DOMAIN written : \E line \in request.lines : line.kind = written[i].kind
      BY <3>2 DEF KindsOf
    <3> QED BY <3>3, <3>4 DEF Actions!ReportIsTrue
  <2>6. Actions!SelectionIsAuthoritative
    <3>1. \A k : Sole(<<>>, k)
      BY <2>3, OtherKinds
    <3>2. \A k \in {"highlight", "quote"} : PhraseDecides(request, k) => Sole(written, k)
      BY <1>2, <3>1 DEF ActionsInv, RequestKnown, Saving
    <3>3. \A k \in {"highlight", "quote"} : PhraseDecides(request, k) =>
            Actions!OfKind(written, k) \in {<<>>, <<Actions!Act(k, "selection")>>}
      BY <2>1, <3>2, SoleIsOne
    <3> QED BY <3>3 DEF PhraseDecides, Actions!SelectionIsAuthoritative
  <2> QED BY <2>2, <2>4, <2>5, <2>6
<1>3. ASSUME ActionsInv, [Actions!ActionsNext]_(Actions!actionsVars)
      PROVE  ActionsInv'
  <2>1. CASE UNCHANGED Actions!actionsVars
    BY <1>3, <2>1 DEF Actions!actionsVars, ActionsInv
  <2>2. CASE Actions!ActionsNext
    BY <1>3, <2>2, SubmitStep, ModelStep, RepairStep, FailStep, WriteStep, Zenon
       DEF Actions!ActionsNext
  <2> QED BY <1>3, <2>1, <2>2
<1> QED BY <1>1, <1>2, <1>3, PTL DEF Actions!ActionsSpec

=============================================================================
