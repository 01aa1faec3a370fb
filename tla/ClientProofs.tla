---------------------------- MODULE ClientProofs ----------------------------
(***************************************************************************)
(* What the parts of the web client promise, for any number of openings,   *)
(* calls and windows, any repositories, projects, models and commands, and *)
(* whatever arrives late, fails or is repeated.                            *)
(*                                                                         *)
(* The parts share no variable: those of one name are of different parts.  *)
(***************************************************************************)
EXTENDS Naturals, Sequences, FiniteSets, SequencesExt, SequenceTheorems, FiniteSetTheorems,
        WellFoundedInduction, TLAPS

CONSTANTS Nothing,
          Repositories,
          Projects, MaxMoves, MaxActions, MaxOthers, \* of local projects
          Branches, Main, Files, FirstPage, FolderPages, Kind,
          MaxTexts, MaxCommits, MaxCalls,            \* of a linked repository's code
          Models, LocalModels, MaxOpenings, MaxLoads, MaxTests, \* of the tutor's models
          Batches, Singles, MaxTyped, MaxFetches,    \* of the command dialog
          Limit, MaxNotices, MaxPolls, MaxChimes, MaxStops, \* of notices and chimes
          MaxLines                                   \* of a README

VARIABLES registry, desk, reading, deeds, steps,                      \* of local projects
          code, nodes, folder, editor, saving, calls, store, texts,   \* of a linked repository's code
          panel, loads, tests, legacy,                                \* of the tutor's models
          dialog, options, fetches, submitting, created, past,        \* of the command dialog
          inbox, seen, polls, sound, history,                         \* of notices and chimes
          text, parser, index, blocks                                 \* of a README

Local == INSTANCE LocalProjects

Code == INSTANCE RemoteCode

Tutor == INSTANCE StudyModels

Forms == INSTANCE CommandForms

Sounds == INSTANCE NotificationSounds

-----------------------------------------------------------------------------
(* Sequences                                                               *)

\* A sequence without its k-th element holds the others, in order.
LEMMA WithoutOne ==
    ASSUME NEW S, NEW q \in Seq(S), NEW k \in 1 .. Len(q)
    PROVE  /\ RemoveAt(q, k) \in Seq(S) /\ Len(RemoveAt(q, k)) = Len(q) - 1
           /\ \A i \in 1 .. Len(q) - 1 : RemoveAt(q, k)[i] = IF i < k THEN q[i] ELSE q[i + 1]
<1> DEFINE n == Len(q)
           before == SubSeq(q, 1, k - 1)
           after == SubSeq(q, k + 1, n)
           both == before \o after
<1>0. n \in Nat /\ k \in 1 .. n /\ Len(q) = n
  BY LenProperties
<1>1. \A i \in 1 .. n : q[i] \in S
  BY ElementOfSeq
<1> HIDE DEF n
<1>2. /\ before \in Seq(S) /\ Len(before) = k - 1
      /\ \A i \in 1 .. k - 1 : before[i] = q[i]
  BY <1>0, <1>1, SubSeqProperties
<1>3. /\ after \in Seq(S) /\ Len(after) = n - k
      /\ \A i \in 1 .. n - k : after[i] = q[k + i]
  <2>1. \A i \in k + 1 .. n : q[i] \in S
    BY <1>0, <1>1
  <2>2. k + 1 \in Int /\ n \in Int
    BY <1>0
  <2>3. /\ after \in Seq(S)
        /\ Len(after) = IF k + 1 <= n THEN n - (k + 1) + 1 ELSE 0
        /\ \A i \in 1 .. n - (k + 1) + 1 : after[i] = q[(k + 1) + i - 1]
    BY <2>1, <2>2, SubSeqProperties
  <2> HIDE DEF after
  <2> QED BY <1>0, <2>3
<1>4. RemoveAt(q, k) = both
  BY <1>0 DEF RemoveAt
<1> HIDE DEF before, after
<1>5. /\ both \in Seq(S) /\ Len(both) = Len(before) + Len(after)
      /\ \A i \in 1 .. Len(before) + Len(after) :
           both[i] = IF i <= Len(before) THEN before[i] ELSE after[i - Len(before)]
  BY <1>2, <1>3, ConcatProperties
<1> HIDE DEF both
<1>6. Len(before) + Len(after) = n - 1
  BY <1>0, <1>2, <1>3
<1>7. ASSUME NEW i \in 1 .. n - 1 PROVE both[i] = IF i < k THEN q[i] ELSE q[i + 1]
  <2>1. both[i] = IF i <= k - 1 THEN before[i] ELSE after[i - (k - 1)]
    BY <1>2, <1>5, <1>6
  <2>2. CASE i < k
    BY <1>0, <1>2, <2>1, <2>2
  <2>3. CASE ~(i < k)
    <3>1. i - (k - 1) \in 1 .. n - k /\ k + (i - (k - 1)) = i + 1
      BY <1>0, <2>3
    <3> QED BY <1>0, <1>3, <2>1, <2>3, <3>1
  <2> QED BY <2>2, <2>3
<1> QED BY <1>0, <1>4, <1>5, <1>6, <1>7

\* The elements of q but the one at k, each at a place of its own.
OthersOf(q, k, rest) ==
    \E was \in [DOMAIN rest -> DOMAIN q \ {k}] :
        /\ \A i \in DOMAIN rest : rest[i] = q[was[i]]
        /\ \A i, j \in DOMAIN rest : was[i] = was[j] => i = j
        /\ \A j \in DOMAIN q \ {k} : \E i \in DOMAIN rest : was[i] = j

\* Where the elements were before one was taken out.
LEMMA OthersStay ==
    ASSUME NEW S, NEW q \in Seq(S), NEW k \in DOMAIN q
    PROVE  RemoveAt(q, k) \in Seq(S) /\ OthersOf(q, k, RemoveAt(q, k))
<1> DEFINE rest == RemoveAt(q, k)
           n == Len(q)
<1>1. n \in Nat /\ DOMAIN q = 1 .. n /\ k \in 1 .. n
  BY LenProperties
<1>2. /\ rest \in Seq(S) /\ Len(rest) = n - 1
      /\ \A i \in 1 .. n - 1 : rest[i] = IF i < k THEN q[i] ELSE q[i + 1]
  BY <1>1, WithoutOne
<1>3. DOMAIN rest = 1 .. n - 1
  BY <1>2, LenProperties
<1> HIDE DEF rest, n
<1> DEFINE left == DOMAIN rest
           all == DOMAIN q
           was == [i \in left |-> IF i < k THEN i ELSE i + 1]
<1>4. left = 1 .. n - 1 /\ all = 1 .. n
  BY <1>1, <1>3
<1> HIDE DEF left, all
<1>5. was \in [left -> all \ {k}] /\ \A i \in left : rest[i] = q[was[i]]
  BY <1>1, <1>2, <1>4
<1>6. \A i, j \in left : was[i] = was[j] => i = j
  BY <1>1, <1>4
<1>7. ASSUME NEW j \in all \ {k} PROVE \E i \in left : was[i] = j
  <2>1. CASE j < k
    BY <1>1, <1>4, <2>1
  <2>2. CASE j > k
    <3>1. j - 1 \in left /\ ~(j - 1 < k) /\ (j - 1) + 1 = j
      BY <1>1, <1>4, <2>2
    <3> QED BY <3>1
  <2> QED BY <1>1, <1>4, <2>1, <2>2
<1> HIDE DEF was
<1>8. \E f \in [left -> all \ {k}] :
        /\ \A i \in left : rest[i] = q[f[i]]
        /\ \A i, j \in left : f[i] = f[j] => i = j
        /\ \A j \in all \ {k} : \E i \in left : f[i] = j
  <2> was \in [left -> all \ {k}]
    BY <1>5
  <2> WITNESS was \in [left -> all \ {k}]
  <2> QED BY <1>5, <1>6, <1>7
<1>9. rest \in Seq(S)
  BY <1>2
<1> QED BY <1>8, <1>9 DEF OthersOf, rest, left, all

\* A function on 1 .. n is a sequence.
LEMMA FunctionIsSeq ==
    ASSUME NEW S, NEW n \in Nat, NEW f \in [1 .. n -> S]
    PROVE  f \in Seq(S) /\ Len(f) = n
<1>1. f \in Seq(S)
  BY SeqDef
<1>2. Len(f) \in Nat /\ 1 .. Len(f) = 1 .. n
  <2>1. Len(f) \in Nat /\ DOMAIN f = 1 .. Len(f)
    BY <1>1, LenProperties
  <2>2. DOMAIN f = 1 .. n
    OBVIOUS
  <2> QED BY <2>1, <2>2
<1>3. CASE Len(f) < n
  <2>1. n \in 1 .. n /\ n \notin 1 .. Len(f)
    BY <1>2, <1>3
  <2> QED BY <1>2, <2>1
<1>4. CASE Len(f) > n
  <2>1. Len(f) \in 1 .. Len(f) /\ Len(f) \notin 1 .. n
    BY <1>2, <1>4
  <2> QED BY <1>2, <2>1
<1> QED BY <1>1, <1>2, <1>3, <1>4

\* An element in front of the others.
LEMMA PutFirst ==
    ASSUME NEW S, NEW q \in Seq(S), NEW e \in S
    PROVE  /\ <<e>> \o q \in Seq(S) /\ Len(<<e>> \o q) = Len(q) + 1
           /\ \A i \in 1 .. Len(q) + 1 : (<<e>> \o q)[i] = IF i = 1 THEN e ELSE q[i - 1]
<1> DEFINE first == <<e>>
<1>1. first \in Seq(S) /\ Len(first) = 1 /\ first[1] = e
  OBVIOUS
<1> HIDE DEF first
<1>2. Len(q) \in Nat
  BY LenProperties
<1> DEFINE both == first \o q
<1>3. /\ both \in Seq(S) /\ Len(both) = 1 + Len(q)
      /\ \A i \in 1 .. 1 + Len(q) : both[i] = IF i <= 1 THEN first[i] ELSE q[i - 1]
  <2>1. /\ both \in Seq(S) /\ Len(both) = Len(first) + Len(q)
        /\ \A i \in 1 .. Len(first) + Len(q) : both[i] = IF i <= Len(first) THEN first[i] ELSE q[i - Len(first)]
    BY <1>1, ConcatProperties, Zenon
  <2> HIDE DEF both
  <2> QED BY <1>1, <2>1
<1> HIDE DEF both
<1>4. ASSUME NEW i \in 1 .. Len(q) + 1 PROVE both[i] = IF i = 1 THEN e ELSE q[i - 1]
  <2>1. i \in 1 .. 1 + Len(q) /\ (i <= 1 <=> i = 1)
    BY <1>2
  <2>2. both[i] = IF i <= 1 THEN first[i] ELSE q[i - 1]
    BY <1>3, <2>1
  <2> QED BY <1>1, <2>1, <2>2
<1>5. both \in Seq(S) /\ Len(both) = Len(q) + 1
  BY <1>2, <1>3
<1> QED BY <1>4, <1>5 DEF both, first

-----------------------------------------------------------------------------
(* Projects of a local repository                                          *)

Registry ==
    [exists : SUBSET Projects, links : [Projects -> Seq(Repositories)],
     primary : [Projects -> Repositories \cup {Nothing}], issues : [Projects -> SUBSET Repositories]]

\* One project: its repositories, in order, and the primary one.
PrimaryOf(links, primary) ==
    /\ links \in Seq(Repositories)
    /\ \A i, k \in DOMAIN links : links[i] = links[k] => i = k
    /\ IF links = <<>> THEN primary = Nothing ELSE primary \in Local!Range(links)

Desk ==
    [selected : Repositories, open : BOOLEAN, busy : BOOLEAN, catalog : SUBSET Projects,
     links : SUBSET Local!Link, chosen : Projects \cup {Nothing}, issues : SUBSET Repositories,
     asked : BOOLEAN]

Kinds == {"link", "primary", "unlink", "issue", "create"}

Deed ==
    [kind : Kinds, project : Projects, repository : Repositories, at : {"check", "write", "join", "read", "shown"},
     locks : BOOLEAN, primary : BOOLEAN, next : SUBSET (Projects \cup {Nothing})]

RegistryInv ==
    registry \in Registry /\ \A p \in Projects : PrimaryOf(registry.links[p], registry.primary[p])
DeskInv == desk \in Desk /\ (desk.asked => desk.chosen # Nothing)
ReadingInv ==
    reading # Nothing =>
      reading \in [catalog : (SUBSET Projects) \cup {Nothing}, read : SUBSET Projects, links : SUBSET Local!Link]

LocalInv == RegistryInv /\ DeskInv /\ ReadingInv /\ deeds \subseteq Deed

\* What the primary repository is after a link and an unlinking.
LEMMA PrimaryAfterLink ==
    ASSUME NEW links, NEW primary, PrimaryOf(links, primary), NEW r \in Repositories,
           NEW asked \in BOOLEAN, Nothing \notin Repositories
    PROVE  PrimaryOf(IF r \in Local!Range(links) THEN links ELSE Append(links, r),
                     IF asked \/ primary = Nothing THEN r ELSE primary)
<1> DEFINE n == Len(links)
<1>1. links \in Seq(Repositories) /\ n \in Nat /\ DOMAIN links = 1 .. n
  BY LenProperties DEF PrimaryOf
<1>2. CASE r \in Local!Range(links)
  BY <1>1, <1>2 DEF PrimaryOf, Local!Range
<1>3. CASE r \notin Local!Range(links)
  <2> DEFINE more == Append(links, r)
  <2>1. /\ more \in Seq(Repositories) /\ more # <<>> /\ Len(more) = n + 1
        /\ \A i \in 1 .. n : more[i] = links[i]
        /\ more[n + 1] = r
    BY <1>1, AppendProperties
  <2>2. DOMAIN more = 1 .. n + 1
    BY <2>1, LenProperties
  <2> HIDE DEF more, n
  <2>3. \A i \in 1 .. n : links[i] # r
    BY <1>1, <1>3 DEF Local!Range
  <2>4. ASSUME NEW i \in 1 .. n + 1, NEW k \in 1 .. n + 1, more[i] = more[k] PROVE i = k
    <3>1. \A j \in 1 .. n + 1 : j \in 1 .. n \/ j = n + 1
      BY <1>1
    <3>2. \A a, b \in 1 .. n : links[a] = links[b] => a = b
      BY <1>1 DEF PrimaryOf
    <3> QED BY <2>1, <2>3, <2>4, <3>1, <3>2
  <2>5. r \in Local!Range(more)
    BY <1>1, <2>1, <2>2 DEF Local!Range
  <2>6. ASSUME primary # Nothing PROVE primary \in Local!Range(more)
    <3>1. PICK i \in 1 .. n : primary = links[i]
      BY <1>1, <2>6 DEF PrimaryOf, Local!Range
    <3>2. i \in 1 .. n + 1 /\ more[i] = primary
      BY <1>1, <2>1, <3>1
    <3> QED BY <2>2, <3>2 DEF Local!Range
  <2>7. PrimaryOf(more, IF asked \/ primary = Nothing THEN r ELSE primary)
    BY <2>1, <2>2, <2>4, <2>5, <2>6 DEF PrimaryOf
  <2> QED BY <1>3, <2>7 DEF more
<1> QED BY <1>2, <1>3

LEMMA PrimaryAfterUnlinking ==
    ASSUME NEW links, NEW primary, PrimaryOf(links, primary), NEW r \in Local!Range(links), Nothing \notin Repositories
    PROVE  LET rest == Local!RemoveAt(links, CHOOSE i \in DOMAIN links : links[i] = r)
           IN PrimaryOf(rest, IF primary # r THEN primary ELSE IF rest = <<>> THEN Nothing ELSE Head(rest))
<1> DEFINE n == Len(links)
           k == CHOOSE i \in DOMAIN links : links[i] = r
           left == Local!RemoveAt(links, k)
<1>1. links \in Seq(Repositories) /\ n \in Nat /\ DOMAIN links = 1 .. n
  BY LenProperties DEF PrimaryOf
<1>2. k \in 1 .. n /\ links[k] = r
  BY <1>1 DEF Local!Range
<1> HIDE DEF k
<1>3. /\ left \in Seq(Repositories) /\ Len(left) = n - 1
      /\ \A i \in 1 .. n - 1 : left[i] = IF i < k THEN links[i] ELSE links[i + 1]
  BY <1>1, <1>2, WithoutOne DEF Local!RemoveAt, RemoveAt
<1>4. DOMAIN left = 1 .. n - 1
  BY <1>3, LenProperties
<1> HIDE DEF left, n
<1>5. \A i, j \in 1 .. n : links[i] = links[j] => i = j
  BY <1>1 DEF PrimaryOf
<1>6. ASSUME NEW i \in 1 .. n - 1, NEW j \in 1 .. n - 1, left[i] = left[j] PROVE i = j
  <2> DEFINE was(a) == IF a < k THEN a ELSE a + 1
  <2>1. \A a \in 1 .. n - 1 : was(a) \in 1 .. n /\ left[a] = links[was(a)]
    BY <1>1, <1>2, <1>3
  <2>2. was(i) = was(j)
    BY <1>5, <1>6, <2>1
  <2> QED BY <1>1, <1>2, <2>2
<1>7. ASSUME primary # r, primary # Nothing PROVE left # <<>> /\ primary \in Local!Range(left)
  <2>1. PICK i \in 1 .. n : primary = links[i]
    BY <1>1, <1>7 DEF PrimaryOf, Local!Range
  <2>2. i # k
    BY <1>2, <1>7, <2>1
  <2>3. PICK j \in 1 .. n - 1 : left[j] = primary
    <3>1. CASE i < k
      BY <1>1, <1>2, <1>3, <2>1, <3>1
    <3>2. CASE i > k
      <4>1. i - 1 \in 1 .. n - 1 /\ ~(i - 1 < k) /\ (i - 1) + 1 = i
        BY <1>1, <1>2, <3>2
      <4> QED BY <1>3, <2>1, <4>1
    <3> QED BY <1>1, <1>2, <2>2, <3>1, <3>2
  <2>4. left # <<>>
    BY <1>1, <1>3, <2>3, EmptySeq
  <2> QED BY <1>4, <2>3, <2>4 DEF Local!Range
<1>8. ASSUME left # <<>> PROVE Head(left) \in Local!Range(left)
  <2>1. Len(left) \in Nat \ {0}
    BY <1>3, <1>8, EmptySeq
  <2>2. Head(left) = left[1]
    <3>1. Len(left) \in 1 .. Len(left) /\ 1 \in 1 .. Len(left)
      BY <2>1
    <3> QED BY <1>3, <3>1, SubSeqFull, HeadTailOfSubSeq
  <2>3. 1 \in DOMAIN left
    BY <1>1, <1>3, <1>4, <2>1
  <2> QED BY <2>2, <2>3 DEF Local!Range
<1>9. primary # Nothing
  <2>1. links # <<>> /\ Local!Range(links) \subseteq Repositories
    BY <1>1, <1>2, EmptySeq, RangeOfSeq DEF Local!Range, Range
  <2> QED BY <2>1 DEF PrimaryOf
<1>10. PrimaryOf(left, IF primary # r THEN primary ELSE IF left = <<>> THEN Nothing ELSE Head(left))
  BY <1>3, <1>4, <1>6, <1>7, <1>8, <1>9 DEF PrimaryOf
<1> QED BY <1>10 DEF left, k


\* What a write of one project makes of the registry.
LEMMA RowWritten ==
    ASSUME RegistryInv, NEW p \in Projects, NEW row, NEW main, PrimaryOf(row, main),
           main \in Repositories \cup {Nothing},
           registry' = [registry EXCEPT !.links[p] = row, !.primary[p] = main]
    PROVE  RegistryInv'
<1> DEFINE rows == [registry.links EXCEPT ![p] = row]
           mains == [registry.primary EXCEPT ![p] = main]
           written == [registry EXCEPT !.links = rows]
<1>1. rows \in [Projects -> Seq(Repositories)] /\ mains \in [Projects -> Repositories \cup {Nothing}]
  BY DEF RegistryInv, Registry, PrimaryOf
<1>2. registry' = [written EXCEPT !.primary = mains]
  BY DEF RegistryInv, Registry
<1>3. \A q \in Projects : PrimaryOf(rows[q], mains[q])
  BY DEF RegistryInv, Registry
<1> HIDE DEF rows, mains
<1>4. written \in Registry /\ written.links = rows
  BY <1>1 DEF RegistryInv, Registry
<1> HIDE DEF written
<1>5. registry' \in Registry /\ registry'.links = rows /\ registry'.primary = mains
  BY <1>1, <1>2, <1>4 DEF Registry
<1> QED BY <1>3, <1>5 DEF RegistryInv

\* The writes of the server.
LEMMA LinkedIsSound ==
    ASSUME Local!LocalProjectsAssumption, RegistryInv, NEW p \in Projects, NEW r \in Repositories,
           NEW primary \in BOOLEAN, registry' = Local!Linked(p, r, primary)
    PROVE  RegistryInv'
<1> DEFINE row == IF r \in Local!Range(registry.links[p]) THEN registry.links[p] ELSE Append(registry.links[p], r)
           main == IF primary \/ registry.primary[p] = Nothing THEN r ELSE registry.primary[p]
<1>1. registry' = [registry EXCEPT !.links[p] = row, !.primary[p] = main]
  BY DEF Local!Linked, Local!Has
<1>2. PrimaryOf(row, main)
  BY PrimaryAfterLink DEF RegistryInv, Local!LocalProjectsAssumption
<1>3. main \in Repositories \cup {Nothing}
  BY DEF RegistryInv, Registry
<1> HIDE DEF row, main
<1> QED BY <1>1, <1>2, <1>3, RowWritten

LEMMA UnlinkedIsSound ==
    ASSUME Local!LocalProjectsAssumption, RegistryInv, NEW p \in Projects, NEW r \in Repositories,
           Local!Has(p, r), registry' = Local!Unlinked(p, r)
    PROVE  RegistryInv'
<1> DEFINE row == Local!RemoveAt(registry.links[p], CHOOSE i \in DOMAIN registry.links[p] : registry.links[p][i] = r)
           main == IF registry.primary[p] # r THEN registry.primary[p]
                   ELSE IF row = <<>> THEN Nothing ELSE Head(row)
<1>1. registry' = [registry EXCEPT !.links[p] = row, !.primary[p] = main]
  BY DEF Local!Unlinked
<1>2. PrimaryOf(row, main)
  BY PrimaryAfterUnlinking DEF RegistryInv, Local!LocalProjectsAssumption, Local!Has
<1>3. main \in Repositories \cup {Nothing}
  <2>1. row \in Seq(Repositories)
    BY <1>2 DEF PrimaryOf
  <2>2. Local!Range(row) \subseteq Repositories
    BY <2>1, RangeOfSeq DEF Local!Range, Range
  <2> HIDE DEF row, main
  <2> QED BY <1>2, <2>1, <2>2 DEF PrimaryOf
<1> HIDE DEF row, main
<1> QED BY <1>1, <1>2, <1>3, RowWritten

\* Another repository of the project is promoted.
LEMMA PromotedIsSound ==
    ASSUME RegistryInv, NEW p \in Projects, NEW r \in Repositories,
           Local!Has(p, r), registry' = [registry EXCEPT !.primary[p] = r]
    PROVE  RegistryInv'
<1>1. registry' = [registry EXCEPT !.links[p] = registry.links[p], !.primary[p] = r]
  BY DEF RegistryInv, Registry
<1>2. PrimaryOf(registry.links[p], r)
  <2>1. registry.links[p] \in Seq(Repositories) /\ r \in Local!Range(registry.links[p])
    BY DEF Local!Has, RegistryInv, Registry
  <2>2. registry.links[p] # <<>>
    BY <2>1 DEF Local!Range
  <2> QED BY <2>1, <2>2 DEF PrimaryOf, RegistryInv
<1> QED BY <1>1, <1>2, RowWritten

-----------------------------------------------------------------------------

LEMMA RegistryStep ==
    ASSUME Local!LocalProjectsAssumption, LocalInv, Local!LocalProjectsNext
    PROVE  RegistryInv'
<1>0. RegistryInv
  BY DEF LocalInv
<1>1. CASE UNCHANGED registry
  BY <1>0, <1>1 DEF RegistryInv
<1>2. CASE Local!Other
  <2>1. PICK p \in registry.exists, r \in Repositories :
          \/ \E primary \in BOOLEAN : registry' = Local!Linked(p, r, primary)
          \/ Local!Has(p, r) /\ registry' = Local!Unlinked(p, r)
          \/ Local!Has(p, r) /\ registry' = [registry EXCEPT !.primary[p] = r]
    BY <1>2 DEF Local!Other
  <2>2. p \in Projects
    BY <1>0 DEF RegistryInv, Registry
  <2> QED BY <1>0, <2>1, <2>2, LinkedIsSound, UnlinkedIsSound, PromotedIsSound
<1>3. ASSUME NEW d \in deeds, Local!Write(d) PROVE RegistryInv'
  <2>1. d \in Deed
    BY DEF LocalInv
  <2>2. CASE d.kind = "create" \/ d.kind = "issue"
    <3>1. /\ registry' \in Registry /\ registry'.links = registry.links
          /\ registry'.primary = registry.primary
      <4>1. CASE d.kind = "create"
        <5>1. registry' = [registry EXCEPT !.exists = @ \cup {d.project}]
          BY <1>3, <4>1 DEF Local!Write
        <5> QED BY <1>0, <2>1, <5>1 DEF RegistryInv, Registry, Deed
      <4>2. CASE d.kind = "issue"
        <5>1. registry' = [registry EXCEPT !.issues[d.project] = @ \cup {d.repository}]
          BY <1>3, <4>2 DEF Local!Write
        <5> QED BY <1>0, <2>1, <5>1 DEF RegistryInv, Registry, Deed
      <4> QED BY <2>2, <4>1, <4>2
    <3> QED BY <1>0, <3>1 DEF RegistryInv
  <2>3. CASE d.kind = "link"
    <3>1. registry' = Local!Linked(d.project, d.repository, d.primary)
      BY <1>3, <2>3 DEF Local!Write
    <3> QED BY <1>0, <2>1, <3>1, LinkedIsSound DEF Deed
  <2>4. CASE d.kind = "primary"
    <3>1. Local!Has(d.project, d.repository) /\ registry' = [registry EXCEPT !.primary[d.project] = d.repository]
      BY <1>3, <2>4 DEF Local!Write, Local!Accepted
    <3> QED BY <1>0, <2>1, <3>1, PromotedIsSound DEF Deed
  <2>5. CASE d.kind = "unlink"
    <3>1. Local!Has(d.project, d.repository) /\ registry' = Local!Unlinked(d.project, d.repository)
      BY <1>3, <2>5 DEF Local!Write, Local!Accepted
    <3> QED BY <1>0, <2>1, <3>1, UnlinkedIsSound DEF Deed
  <2> QED BY <2>1, <2>2, <2>3, <2>4, <2>5 DEF Deed, Kinds
<1>4. ASSUME NEW d \in deeds, Local!Join(d) PROVE RegistryInv'
  <2>1. d \in Deed /\ registry' = Local!Linked(d.project, d.repository, d.primary)
    BY <1>4 DEF LocalInv, Local!Join
  <2> QED BY <1>0, <2>1, LinkedIsSound DEF Deed
<1> QED BY <1>1, <1>2, <1>3, <1>4 DEF Local!LocalProjectsNext, Local!SelectRepository, Local!OpenProjects,
      Local!LeaveProjects, Local!ReadCatalog, Local!ProjectsArrive, Local!ReadingFails, Local!IssuesArrive,
      Local!ReadLinks, Local!ChooseProject, Local!LinkRepositoryProject, Local!MakeRepositoryPrimary,
      Local!UnlinkRepositoryProject, Local!CreateRepositoryProject, Local!AddRepositoryIssueToProject,
      Local!Begins, Local!Check, Local!Fails, Local!Answers, Local!UnlinkAnswers

\* A deed that begins, and one that goes on.
LEMMA DeedBegins ==
    ASSUME LocalInv, NEW kind \in Kinds, NEW p \in Projects, NEW locks \in BOOLEAN, Local!Begins(kind, p, locks)
    PROVE  deeds' \subseteq Deed
<1>1. desk.selected \in Repositories /\ Local!ShownProjects \subseteq Projects
  BY DEF LocalInv, DeskInv, Desk, Local!ShownProjects, Local!Link
<1>2. [kind |-> kind, project |-> p, repository |-> desk.selected,
       at |-> IF kind = "link" THEN "check" ELSE "write", locks |-> locks, primary |-> kind = "create",
       next |-> IF kind = "unlink" /\ p = desk.chosen THEN Local!ShownProjects \ {p} ELSE {Nothing}] \in Deed
  BY <1>1 DEF Deed
<1> QED BY <1>2 DEF Local!Begins, LocalInv

LEMMA DeedsStep ==
    ASSUME LocalInv, Local!LocalProjectsNext
    PROVE  deeds' \subseteq Deed
<1>1. CASE UNCHANGED deeds
  BY <1>1 DEF LocalInv
<1>2. ASSUME NEW p \in Projects,
             \/ Local!LinkRepositoryProject(p) \/ Local!MakeRepositoryPrimary(p)
             \/ Local!UnlinkRepositoryProject(p) \/ Local!CreateRepositoryProject(p)
      PROVE  deeds' \subseteq Deed
  BY <1>2, DeedBegins DEF Kinds, Local!LinkRepositoryProject, Local!MakeRepositoryPrimary,
     Local!UnlinkRepositoryProject, Local!CreateRepositoryProject
<1>3. CASE Local!AddRepositoryIssueToProject
  <2>1. desk.chosen \in Projects /\ Local!Begins("issue", desk.chosen, TRUE)
    BY <1>3 DEF Local!AddRepositoryIssueToProject, LocalInv, DeskInv, Desk
  <2> QED BY <2>1, DeedBegins DEF Kinds
<1>4. ASSUME NEW d \in deeds,
             \/ Local!Check(d) \/ Local!Write(d) \/ Local!Join(d) \/ Local!Fails(d)
             \/ Local!Answers(d) \/ Local!UnlinkAnswers(d)
      PROVE  deeds' \subseteq Deed
  <2>1. d \in Deed /\ deeds \subseteq Deed
    BY DEF LocalInv
  <2>2. CASE Local!Check(d)
    <3> DEFINE at == IF Local!Has(d.project, d.repository) THEN "read" ELSE "write"
               moved == [d EXCEPT !.at = at]
               primary == registry.links[d.project] = <<>>
    <3>1. moved \in Deed
      BY <2>1 DEF Deed
    <3>2. deeds' = (deeds \ {d}) \cup {[moved EXCEPT !.primary = primary]}
      BY <2>2 DEF Local!Check
    <3>3. primary \in BOOLEAN
      OBVIOUS
    <3> HIDE DEF moved, primary
    <3>4. [moved EXCEPT !.primary = primary] \in Deed
      BY <3>1, <3>3 DEF Deed
    <3> QED BY <2>1, <3>2, <3>4
  <2>3. CASE Local!Write(d) \/ Local!Join(d)
    <3>1. PICK at \in {"join", "shown", "read"} : deeds' = (deeds \ {d}) \cup {[d EXCEPT !.at = at]}
      BY <2>3 DEF Local!Write, Local!Join, Local!Becomes
    <3>2. [d EXCEPT !.at = at] \in Deed
      BY <2>1 DEF Deed
    <3> QED BY <2>1, <3>1, <3>2
  <2>4. CASE Local!Fails(d) \/ Local!Answers(d) \/ Local!UnlinkAnswers(d)
    BY <2>1, <2>4 DEF Local!Fails, Local!Answers, Local!UnlinkAnswers
  <2> QED BY <1>4, <2>2, <2>3, <2>4
<1> QED BY <1>1, <1>2, <1>3, <1>4 DEF Local!LocalProjectsNext, Local!Other, Local!SelectRepository,
      Local!OpenProjects, Local!LeaveProjects, Local!ReadCatalog, Local!ProjectsArrive, Local!ReadingFails,
      Local!IssuesArrive, Local!ReadLinks, Local!ChooseProject

LEMMA ReadingStep ==
    ASSUME LocalInv, Local!LocalProjectsNext
    PROVE  ReadingInv'
<1> DEFINE R == [catalog : (SUBSET Projects) \cup {Nothing}, read : SUBSET Projects, links : SUBSET Local!Link]
<1>1. CASE UNCHANGED reading
  BY <1>1 DEF LocalInv, ReadingInv
<1>2. CASE reading' = Nothing
  BY <1>2 DEF ReadingInv
<1>3. CASE Local!OpenProjects
  <2>1. reading' = [catalog |-> Nothing, read |-> {}, links |-> {}]
    BY <1>3 DEF Local!OpenProjects
  <2> QED BY <2>1 DEF ReadingInv
<1>4. CASE Local!ReadCatalog
  BY <1>4 DEF Local!ReadCatalog, LocalInv, ReadingInv, RegistryInv, Registry
<1>5. ASSUME NEW p \in Projects, Local!ReadLinks(p) PROVE ReadingInv'
  <2>1. Local!OwnLinks(p, desk.selected) \subseteq Local!Link
    BY DEF Local!OwnLinks, Local!Link, LocalInv, DeskInv, Desk
  <2> DEFINE read == [reading EXCEPT !.read = @ \cup {p}]
  <2>2. read \in R
    BY <1>5 DEF Local!ReadLinks, LocalInv, ReadingInv
  <2>3. reading' = [read EXCEPT !.links = @ \cup Local!OwnLinks(p, desk.selected)]
    BY <1>5 DEF Local!ReadLinks, LocalInv, ReadingInv
  <2> HIDE DEF read
  <2> QED BY <2>1, <2>2, <2>3 DEF ReadingInv
<1> QED BY <1>1, <1>2, <1>3, <1>4, <1>5 DEF Local!LocalProjectsNext, Local!Other, Local!SelectRepository,
      Local!LeaveProjects, Local!ProjectsArrive, Local!ReadingFails, Local!IssuesArrive, Local!ChooseProject,
      Local!LinkRepositoryProject, Local!MakeRepositoryPrimary, Local!UnlinkRepositoryProject,
      Local!CreateRepositoryProject, Local!AddRepositoryIssueToProject, Local!Begins, Local!Check, Local!Write,
      Local!Join, Local!Fails, Local!Answers, Local!UnlinkAnswers

\* A page on which a project, or none, is chosen.
Page(d) == d \in Desk /\ (d.asked => d.chosen # Nothing)

LEMMA Chosen ==
    ASSUME NEW d, Page(d), NEW p \in Projects \cup {Nothing}
    PROVE  Page(Local!Choose(d, p))
<1>1. CASE p = d.chosen
  BY <1>1 DEF Local!Choose
<1>2. CASE p # d.chosen
  <2> DEFINE chosen == [d EXCEPT !.chosen = p]
             asks == p # Nothing
             asked == [chosen EXCEPT !.asked = asks]
             issues == IF p = Nothing THEN {} ELSE d.issues
  <2>1. Local!Choose(d, p) = [asked EXCEPT !.issues = issues]
    BY <1>2 DEF Local!Choose, Page, Desk
  <2>2. chosen \in Desk /\ chosen.chosen = p
    BY DEF Page, Desk
  <2>3. asks \in BOOLEAN /\ issues \in SUBSET Repositories
    BY DEF Page, Desk
  <2> HIDE DEF chosen, issues
  <2>4. asked \in Desk /\ asked.chosen = p /\ asked.asked = asks
    BY <2>2, <2>3 DEF Desk
  <2> HIDE DEF asked
  <2>5. /\ [asked EXCEPT !.issues = issues] \in Desk
        /\ [asked EXCEPT !.issues = issues].chosen = p
        /\ [asked EXCEPT !.issues = issues].asked = asks
    BY <2>3, <2>4 DEF Desk
  <2> QED BY <2>1, <2>5 DEF Page
<1> QED BY <1>1, <1>2

\* A page whose list is replaced.
LEMMA Relisted ==
    ASSUME NEW d, Page(d), NEW links \in SUBSET Local!Link
    PROVE  Page([d EXCEPT !.links = links])
BY DEF Page, Desk

LEMMA DeskStep ==
    ASSUME LocalInv, Local!LocalProjectsNext
    PROVE  DeskInv'
<1>0. Page(desk) /\ (Page(desk') => DeskInv')
  BY DEF LocalInv, DeskInv, Page
<1>1. CASE UNCHANGED desk
  BY <1>1 DEF LocalInv, DeskInv
<1>2. ASSUME NEW r \in Repositories, Local!SelectRepository(r) PROVE Page(desk')
  <2> DEFINE d1 == [desk EXCEPT !.selected = r]
             d2 == [d1 EXCEPT !.open = FALSE]
             d3 == [d2 EXCEPT !.catalog = {}]
             d4 == [d3 EXCEPT !.links = {}]
             d5 == [d4 EXCEPT !.issues = {}]
  <2>1. desk' = Local!Choose(d5, Nothing)
    BY <1>0, <1>2 DEF Local!SelectRepository, Page, Desk
  <2>2. Page(d1)
    BY <1>0 DEF Page, Desk
  <2> HIDE DEF d1
  <2>3. Page(d2)
    BY <2>2 DEF Page, Desk
  <2> HIDE DEF d2
  <2>4. Page(d3)
    BY <2>3 DEF Page, Desk
  <2> HIDE DEF d3
  <2>5. Page(d4)
    BY <2>4 DEF Page, Desk
  <2> HIDE DEF d4
  <2>6. Page(d5)
    BY <2>5 DEF Page, Desk
  <2> HIDE DEF d5
  <2> QED BY <2>1, <2>6, Chosen
<1>3. CASE Local!OpenProjects
  <2> DEFINE opened == [desk EXCEPT !.open = TRUE]
  <2>1. Page(opened) /\ desk' = [opened EXCEPT !.busy = TRUE]
    BY <1>0, <1>3 DEF Local!OpenProjects, Page, Desk
  <2> HIDE DEF opened
  <2> QED BY <1>0, <2>1 DEF Page, Desk
<1>4. CASE Local!LeaveProjects
  BY <1>0, <1>4 DEF Local!LeaveProjects, Page, Desk
<1>5. CASE Local!ProjectsArrive
  <2> DEFINE idle == [desk EXCEPT !.busy = FALSE]
             listed == [idle EXCEPT !.catalog = reading.catalog]
             shown == [listed EXCEPT !.links = reading.links]
             linked == {l.project : l \in reading.links}
  <2>1. desk' = shown \/ \E p \in linked \cup {Nothing} : desk' = Local!Choose(shown, p)
    BY <1>0, <1>5 DEF Local!ProjectsArrive, Page, Desk
  <2>2. reading.catalog \in SUBSET Projects /\ reading.links \in SUBSET Local!Link
    BY <1>5 DEF Local!ProjectsArrive, LocalInv, ReadingInv
  <2>3. linked \subseteq Projects
    BY <2>2 DEF Local!Link
  <2>4. Page(idle)
    BY <1>0 DEF Page, Desk
  <2> HIDE DEF idle
  <2>5. Page(listed)
    BY <2>2, <2>4 DEF Page, Desk
  <2> HIDE DEF listed
  <2>6. Page(shown)
    BY <2>2, <2>5, Relisted
  <2> HIDE DEF shown, linked
  <2> QED BY <1>0, <2>1, <2>3, <2>6, Chosen
<1>6. CASE Local!ReadingFails
  BY <1>0, <1>6 DEF Local!ReadingFails, Page, Desk
<1>7. CASE Local!IssuesArrive
  <2>1. desk.chosen \in Projects /\ registry.issues[desk.chosen] \in SUBSET Repositories
    BY <1>0, <1>7 DEF Local!IssuesArrive, Page, Desk, LocalInv, RegistryInv, Registry
  <2> DEFINE answered == [desk EXCEPT !.asked = FALSE]
  <2>2. Page(answered)
    BY <1>0 DEF Page, Desk
  <2>3. desk' = answered \/ desk' = [answered EXCEPT !.issues = registry.issues[desk.chosen]]
    BY <1>7 DEF Local!IssuesArrive
  <2> HIDE DEF answered
  <2> QED BY <1>0, <2>1, <2>2, <2>3 DEF Page, Desk
<1>8. ASSUME NEW p \in Projects, Local!ChooseProject(p) PROVE Page(desk')
  BY <1>0, <1>8, Chosen DEF Local!ChooseProject
<1>9. ASSUME NEW d \in deeds, Local!Join(d) PROVE Page(desk')
  <2>1. d.project \in Projects
    BY DEF LocalInv, Deed
  <2> QED BY <1>0, <1>9, <2>1 DEF Local!Join, Page, Desk
<1>10. ASSUME NEW d \in deeds, Local!Answers(d) PROVE Page(desk')
  <2>1. d \in Deed /\ d.project \in Projects
    BY DEF LocalInv, Deed
  <2> DEFINE links == {l \in desk.links : l.project # d.project} \cup Local!OwnLinks(d.project, d.repository)
             listed == [desk EXCEPT !.links = links]
  <2>2. links \in SUBSET Local!Link
    BY <1>0, <2>1 DEF Page, Desk, Local!OwnLinks, Local!Link, Deed
  <2>3. Page(listed)
    BY <1>0, <2>2, Relisted
  <2>4. Page([desk EXCEPT !.issues = registry.issues[d.project]])
    <3>1. registry.issues[d.project] \in SUBSET Repositories
      BY <2>1 DEF LocalInv, RegistryInv, Registry
    <3> QED BY <1>0, <3>1 DEF Page, Desk
  <2>5. \/ desk' = [desk EXCEPT !.issues = registry.issues[d.project]]
        \/ desk' = listed \/ desk' = Local!Choose(listed, d.project)
    BY <1>10 DEF Local!Answers, Local!Shown
  <2> HIDE DEF listed
  <2> QED BY <2>1, <2>3, <2>4, <2>5, Chosen
<1>11. ASSUME NEW d \in deeds, Local!UnlinkAnswers(d) PROVE Page(desk')
  <2>1. d.next \subseteq Projects \cup {Nothing}
    BY DEF LocalInv, Deed
  <2> DEFINE links == {l \in desk.links : l.project # d.project}
             rest == [desk EXCEPT !.links = links]
  <2>2. links \in SUBSET Local!Link
    BY <1>0 DEF Page, Desk
  <2>3. Page(rest)
    BY <1>0, <2>2, Relisted
  <2>4. desk' = rest \/ desk' = Local!Choose(rest, Nothing) \/ \E p \in d.next : desk' = Local!Choose(rest, p)
    BY <1>11 DEF Local!UnlinkAnswers
  <2> HIDE DEF rest
  <2> QED BY <2>1, <2>3, <2>4, Chosen
<1> QED BY <1>0, <1>1, <1>2, <1>3, <1>4, <1>5, <1>6, <1>7, <1>8, <1>9, <1>10, <1>11
      DEF Local!LocalProjectsNext, Local!Other, Local!ReadCatalog, Local!ReadLinks, Local!LinkRepositoryProject,
          Local!MakeRepositoryPrimary, Local!UnlinkRepositoryProject, Local!CreateRepositoryProject,
          Local!AddRepositoryIssueToProject, Local!Begins, Local!Check, Local!Write, Local!Fails

(* However many windows link, unlink, create and promote, a project with       *)
(* repositories has exactly one primary one, which is one of them              *)
(* (linkRepositoryProject and its neighbours in RepositoriesPage.tsx, the      *)
(* statements of sqlite/repositories.go and the trigger that promotes), and    *)
(* the page and what is under way keep their shape.                            *)
THEOREM ProjectsKeepOnePrimary ==
    ASSUME Local!LocalProjectsAssumption
    PROVE  Local!LocalProjectsSpec => [](Local!LocalProjectsTypeOK /\ Local!OnePrimary)
<1>1. Local!LocalProjectsInit => LocalInv
  <2> SUFFICES ASSUME Local!LocalProjectsInit PROVE LocalInv
    OBVIOUS
  <2>1. RegistryInv
    <3>1. /\ registry \in Registry
          /\ \A p \in Projects : registry.links[p] = <<>> /\ registry.primary[p] = Nothing
      BY DEF Local!LocalProjectsInit, Registry
    <3>2. <<>> \in Seq(Repositories) /\ DOMAIN <<>> = {}
      BY EmptySeq
    <3> QED BY <3>1, <3>2 DEF RegistryInv, PrimaryOf
  <2>2. DeskInv /\ ReadingInv /\ deeds \subseteq Deed
    BY DEF Local!LocalProjectsInit, DeskInv, Desk, ReadingInv
  <2> QED BY <2>1, <2>2 DEF LocalInv
<1>2. LocalInv /\ [Local!LocalProjectsNext]_(Local!projectVars) => LocalInv'
  <2>1. CASE UNCHANGED Local!projectVars
    BY <2>1 DEF Local!projectVars, LocalInv, RegistryInv, DeskInv, ReadingInv
  <2> QED BY <2>1, RegistryStep, DeskStep, ReadingStep, DeedsStep DEF LocalInv
<1>3. LocalInv => Local!LocalProjectsTypeOK /\ Local!OnePrimary
  <2> SUFFICES ASSUME LocalInv PROVE Local!LocalProjectsTypeOK /\ Local!OnePrimary
    OBVIOUS
  <2>1. Local!LocalProjectsTypeOK
    BY DEF Local!LocalProjectsTypeOK, LocalInv, RegistryInv, Registry, DeskInv, Desk
  <2>2. Local!OnePrimary
    BY DEF Local!OnePrimary, LocalInv, RegistryInv, PrimaryOf, Local!IsInjective
  <2> QED BY <2>1, <2>2
<1> QED BY <1>1, <1>2, <1>3, PTL DEF Local!LocalProjectsSpec

-----------------------------------------------------------------------------
(* The code of a linked repository                                         *)

Tab ==
    [open : BOOLEAN, branch : Branches \cup {Nothing}, reading : BOOLEAN, listed : SUBSET Files,
     more : BOOLEAN, loading : BOOLEAN, first : BOOLEAN]

\* Every page up to the last one read, and the one that is asked for or was refused comes next.
FolderInv ==
    /\ folder \in [loaded : BOOLEAN, asked : Nat, shown : SUBSET Nat, page : Nat, more : BOOLEAN, retry : Nat]
    /\ folder.page <= FolderPages /\ folder.shown = 1 .. folder.page
    /\ folder.asked = 0 \/ (folder.asked = folder.page + 1 /\ folder.asked <= FolderPages)
    /\ folder.retry = 0 \/ (folder.retry = folder.page + 1 /\ folder.retry <= FolderPages)
    /\ ~folder.loaded => folder.page = 0
    /\ folder.more => folder.page < FolderPages

TabInv ==
    /\ code \in Tab /\ nodes \subseteq Files /\ FolderInv

\* Texts that exist.
Known == 0 .. Len(texts)
Content == [text : Nat, commit : Nat]
Commit ==
    [step : {"commit", "list"}, branch : Branches, path : Files, text : Nat, previewed : Nat,
     expected : Nat, create : BOOLEAN]
Editor ==
    [file : Content \cup {Nothing}, path : Files \cup {Nothing}, text : Nat, original : Nat,
     preview : Nat, create : BOOLEAN, refused : Commit \cup {Nothing}]

\* The difference that is shown is that of the text in the editor.
ShowsItsText(e) == e \in Editor /\ e.text \in Known /\ e.preview \in {0, e.text}

EditorInv ==
    /\ texts \in Seq(SUBSET Nat) /\ Len(texts) <= MaxTexts
    /\ ShowsItsText(editor)
    /\ saving # Nothing => saving \in Commit /\ saving.text = saving.previewed /\ saving.text \in Known
    /\ \A c \in calls : c.of = "file" => c.branch \in Branches /\ c.path \in Files
    /\ store \in [Branches -> [Files -> Content]]
    /\ \A b \in Branches, f \in Files : store[b][f].text \in Known

CodeInv == TabInv /\ EditorInv

LEMMA TabStep ==
    ASSUME Code!CodeAssumption, CodeInv, Code!CodeNext
    PROVE  TabInv'
<1>0. code \in Tab /\ nodes \subseteq Files /\ FolderInv
  BY DEF CodeInv, TabInv
<1>1. CASE UNCHANGED <<code, nodes, folder>>
  BY <1>0, <1>1 DEF TabInv, FolderInv
<1>2. \A b : Code!Names(b) \subseteq Files /\ Code!Rest(b) \subseteq Files
  BY DEF Code!Names, Code!Rest
<1>3. folder' = Code!NewFolder => FolderInv'
  BY DEF Code!NewFolder, FolderInv, Code!CodeAssumption
<1>4. folder' = folder => FolderInv'
  BY <1>0 DEF FolderInv
<1>5. ASSUME NEW b \in Branches \cup {Nothing}, NEW reads \in BOOLEAN, Code!Shows(b, reads) PROVE TabInv'
  <2>1. code' \in Tab /\ nodes' \subseteq Files /\ folder' = Code!NewFolder
    BY <1>0, <1>5 DEF Code!Shows, Tab
  <2> QED BY <1>3, <2>1 DEF TabInv
<1>6. CASE Code!EnterCode
  <2>1. code.branch \in Branches \cup {Nothing} /\ Code!Shows(code.branch, TRUE)
    BY <1>0, <1>6 DEF Code!EnterCode, Tab
  <2> QED BY <1>5, <2>1
<1>7. CASE Code!BranchesRead
  <2>1. \/ Code!Shows(Main, FALSE)
        \/ code' = [code EXCEPT !.reading = FALSE] /\ UNCHANGED <<nodes, folder>>
    BY <1>7 DEF Code!BranchesRead
  <2>2. Main \in Branches
    BY DEF Code!CodeAssumption
  <2>3. CASE code' = [code EXCEPT !.reading = FALSE] /\ UNCHANGED <<nodes, folder>>
    BY <1>0, <1>4, <2>3 DEF TabInv, Tab
  <2> QED BY <1>5, <2>1, <2>2, <2>3
<1>8. ASSUME NEW b \in Branches, Code!ChooseBranch(b) PROVE TabInv'
  <2>1. code.reading \in BOOLEAN /\ Code!Shows(b, code.reading)
    BY <1>0, <1>8 DEF Code!ChooseBranch, Tab
  <2> QED BY <1>5, <2>1
<1>9. CASE Code!LeaveCode
  <2>1. code' \in Tab
    BY <1>0, <1>9 DEF Code!LeaveCode, Tab
  <2> QED BY <1>3, <1>9, <2>1 DEF Code!LeaveCode, TabInv
<1>10. CASE Code!FirstArrives
  <2>1. CASE /\ Code!Listed(Code!Names(code.branch) \cap FirstPage, Code!Rest(code.branch) # {})
             /\ folder' = Code!Merged
    <3> DEFINE names == Code!Names(code.branch) \cap FirstPage
               more == Code!Rest(code.branch) # {}
    <3>1. names \in SUBSET Files /\ more \in BOOLEAN
      BY <1>2
    <3>2. /\ code' = [code EXCEPT !.listed = names, !.more = more, !.loading = FALSE, !.first = FALSE]
          /\ nodes' \subseteq nodes \cup names /\ folder' = folder
      BY <2>1 DEF Code!Listed, Code!Merged
    <3> HIDE DEF names, more
    <3> QED BY <1>0, <1>4, <3>1, <3>2 DEF TabInv, Tab
  <2>2. CASE code' = [code EXCEPT !.loading = FALSE, !.first = FALSE] /\ UNCHANGED <<nodes, folder>>
    BY <1>0, <1>4, <2>2 DEF TabInv, Tab
  <2> QED BY <1>10, <2>1, <2>2 DEF Code!FirstArrives
<1>11. CASE Code!LoadMoreRemoteTree
  BY <1>0, <1>4, <1>11 DEF Code!LoadMoreRemoteTree, TabInv, Tab
<1>12. ASSUME NEW c \in calls, Code!MoreArrives(c) PROVE TabInv'
  <2> DEFINE listed == code.listed \cup Code!Rest(c.branch)
  <2>1. listed \in SUBSET Files
    BY <1>0, <1>2 DEF Tab
  <2>2. \/ /\ code' = [code EXCEPT !.listed = listed, !.more = FALSE, !.loading = FALSE]
           /\ nodes' \subseteq nodes \cup Code!Rest(c.branch) /\ folder' = folder
        \/ code' = [code EXCEPT !.loading = FALSE] /\ UNCHANGED <<nodes, folder>>
    BY <1>12 DEF Code!MoreArrives, Code!Merged
  <2> HIDE DEF listed
  <2> QED BY <1>0, <1>2, <1>4, <2>1, <2>2 DEF TabInv, Tab
<1>13. CASE Code!ToggleDirectory \/ Code!LoadMoreEntries \/ Code!Retry
  <2> DEFINE next == folder.page + 1
  <2>1. next <= FolderPages /\ folder' = [folder EXCEPT !.asked = next, !.retry = 0] /\ UNCHANGED <<code, nodes>>
    <3>1. CASE Code!ToggleDirectory
      <4>1. next = 1 /\ 1 <= FolderPages
        BY <1>0, <3>1 DEF Code!ToggleDirectory, FolderInv, Code!CodeAssumption
      <4> HIDE DEF next
      <4> QED BY <3>1, <4>1 DEF Code!ToggleDirectory, Code!LoadDirectoryPage
    <3>2. CASE Code!LoadMoreEntries
      <4>1. next <= FolderPages
        <5>1. folder.page \in Nat /\ folder.page < FolderPages /\ FolderPages \in Nat
          BY <1>0, <3>2 DEF Code!LoadMoreEntries, FolderInv, Code!CodeAssumption
        <5> QED BY <5>1
      <4> QED BY <3>2, <4>1 DEF Code!LoadMoreEntries, Code!LoadDirectoryPage
    <3>3. CASE Code!Retry
      <4>1. folder.retry = next /\ next <= FolderPages
        BY <1>0, <3>3 DEF Code!Retry, FolderInv
      <4> HIDE DEF next
      <4> QED BY <3>3, <4>1 DEF Code!Retry, Code!LoadDirectoryPage
    <3> QED BY <1>13, <3>1, <3>2, <3>3
  <2>2. next \in Nat
    BY <1>0 DEF FolderInv
  <2>3. /\ folder' \in [loaded : BOOLEAN, asked : Nat, shown : SUBSET Nat, page : Nat, more : BOOLEAN, retry : Nat]
        /\ folder'.asked = next /\ folder'.retry = 0 /\ folder'.page = folder.page
        /\ folder'.shown = folder.shown /\ folder'.loaded = folder.loaded /\ folder'.more = folder.more
    <3> HIDE DEF next
    <3> QED BY <1>0, <2>1, <2>2 DEF FolderInv
  <2>4. FolderInv'
    BY <1>0, <2>1, <2>3 DEF FolderInv
  <2> QED BY <1>0, <2>1, <2>4 DEF TabInv
<1>14. CASE Code!DirectoryArrives
  <2>1. folder.asked = folder.page + 1 /\ folder.asked <= FolderPages /\ UNCHANGED <<code, nodes>>
        /\ folder.page \in Nat /\ folder.shown = 1 .. folder.page /\ FolderPages \in Nat
    BY <1>0, <1>14 DEF Code!DirectoryArrives, FolderInv, Code!CodeAssumption
  <2> DEFINE n == folder.page
             children == Code!Children(folder.asked)
             more == folder.asked < FolderPages
  <2>2. children = 1 .. n + 1
    <3>1. children = IF n + 1 = 1 THEN {1} ELSE (1 .. n) \cup {n + 1}
      BY <2>1 DEF Code!Children
    <3>2. n \in Nat
      BY <2>1
    <3> HIDE DEF n, children
    <3>3. 1 .. n + 1 = (1 .. n) \cup {n + 1}
      BY <3>2
    <3>4. n = 0 => (1 .. n) \cup {n + 1} = {1}
      BY <3>2
    <3>5. CASE n = 0
      BY <3>1, <3>3, <3>4, <3>5
    <3>6. CASE n # 0
      <4>1. n + 1 # 1
        BY <3>2, <3>6
      <4> QED BY <3>1, <3>3, <4>1
    <3> QED BY <3>5, <3>6
  <2>3. CASE folder' = [loaded |-> TRUE, asked |-> 0, shown |-> children, page |-> folder.asked,
                        more |-> more, retry |-> 0]
    <3>1. children \in SUBSET Nat /\ folder.asked \in Nat /\ more \in BOOLEAN
      BY <2>1, <2>2
    <3>2. more => folder.asked < FolderPages
      OBVIOUS
    <3>3. children = 1 .. folder.asked
      BY <2>1, <2>2
    <3> HIDE DEF children, more
    <3>4. FolderInv'
      BY <2>1, <2>3, <3>1, <3>2, <3>3 DEF FolderInv
    <3> QED BY <1>0, <2>1, <3>4 DEF TabInv
  <2>4. CASE folder' = [folder EXCEPT !.asked = 0, !.retry = folder.asked]
    <3>1. FolderInv'
      BY <1>0, <2>1, <2>4 DEF FolderInv
    <3> QED BY <1>0, <2>1, <3>1 DEF TabInv
  <2> QED BY <1>14, <2>3, <2>4 DEF Code!DirectoryArrives
<1>15. CASE Code!ListingArrives
  <2> DEFINE listed == Code!Names(saving.branch) \cap FirstPage
             more == Code!Rest(saving.branch) # {}
  <2>1. listed \in SUBSET Files /\ more \in BOOLEAN
    BY <1>2
  <2>2. \/ /\ code' = [code EXCEPT !.listed = listed, !.more = more]
           /\ nodes' \subseteq nodes \cup code'.listed /\ folder' = folder
        \/ UNCHANGED <<code, nodes, folder>>
    BY <1>15 DEF Code!ListingArrives, Code!Merged
  <2> HIDE DEF listed, more
  <2> QED BY <1>0, <1>1, <1>4, <2>1, <2>2 DEF TabInv, Tab
<1> QED BY <1>1, <1>6, <1>7, <1>8, <1>9, <1>10, <1>11, <1>12, <1>13, <1>14, <1>15
      DEF Code!CodeNext, Code!FileArrives, Code!OpenRemoteFile, Code!NamePath, Code!NewFile, Code!EditText,
          Code!PreviewDiff, Code!SaveRemoteFile, Code!CommitArrives, Code!OthersCommit

\* A text that is written is a new one.
LEMMA TextWritten ==
    ASSUME EditorInv, MaxTexts \in Nat, NEW from \in Known, Len(texts) < MaxTexts, texts' = Code!Written(from)
    PROVE  /\ texts' \in Seq(SUBSET Nat) /\ Len(texts') = Len(texts) + 1 /\ Len(texts') <= MaxTexts
           /\ Known \subseteq Known' /\ Len(texts) + 1 \in Known' /\ Len(texts) + 1 \in Nat
<1> DEFINE of == {Len(texts) + 1} \cup IF from = 0 THEN {} ELSE texts[from]
<1>1. texts \in Seq(SUBSET Nat) /\ Len(texts) \in Nat
  BY LenProperties DEF EditorInv
<1>2. of \in SUBSET Nat
  <2>1. from = 0 \/ from \in 1 .. Len(texts)
    BY <1>1 DEF Known
  <2>2. from # 0 => texts[from] \in SUBSET Nat
    BY <1>1, <2>1, ElementOfSeq
  <2> QED BY <1>1, <2>2
<1>3. texts' = Append(texts, of)
  BY DEF Code!Written
<1> HIDE DEF of
<1>4. texts' \in Seq(SUBSET Nat) /\ Len(texts') = Len(texts) + 1
  BY <1>1, <1>2, <1>3, AppendProperties
<1> QED BY <1>1, <1>4 DEF Known

\* A commit of a text that exists keeps the repository one of such texts.
LEMMA StoreCommitted ==
    ASSUME EditorInv, MaxTexts \in Nat, NEW b \in Branches, NEW f \in Files, NEW new \in Nat, new \in Known',
           Known \subseteq Known', Code!Committed(b, f, new)
    PROVE  /\ store' \in [Branches -> [Files -> Content]]
           /\ \A c \in Branches, g \in Files : store'[c][g].text \in Known'
<1> DEFINE here == store[b][f]
           commit == IF here = Code!NoFile THEN MaxTexts + 1 ELSE here.commit + 1
           file == [text |-> new, commit |-> commit]
           row == [store[b] EXCEPT ![f] = file]
<1>1. here \in Content
  BY DEF EditorInv
<1>2. file \in Content /\ file.text = new
  BY <1>1 DEF Content
<1>3. store' = [store EXCEPT ![b] = row]
  BY DEF Code!Committed, EditorInv
<1> HIDE DEF file
<1>4. row \in [Files -> Content] /\ \A g \in Files : row[g].text \in Known'
  <2>1. store[b] \in [Files -> Content] /\ \A g \in Files : store[b][g].text \in Known
    BY DEF EditorInv
  <2> QED BY <1>2, <2>1
<1> HIDE DEF row
<1> QED BY <1>3, <1>4 DEF EditorInv

LEMMA EditorStep ==
    ASSUME Code!CodeAssumption, CodeInv, Code!CodeNext
    PROVE  EditorInv'
<1>0. EditorInv /\ code \in Tab /\ nodes \subseteq Files /\ MaxTexts \in Nat /\ texts \in Seq(SUBSET Nat)
      /\ Len(texts) \in Nat /\ Len(texts) <= MaxTexts
  BY LenProperties DEF CodeInv, TabInv, EditorInv, Code!CodeAssumption
<1>a. editor \in Editor /\ editor.refused \in Commit \cup {Nothing} /\ ShowsItsText(editor) /\ 0 \in Known
  BY <1>0 DEF EditorInv, ShowsItsText, Editor, Known
<1>1. ASSUME UNCHANGED <<saving, store, texts>>, ShowsItsText(editor'),
             \A c \in calls' : c.of = "file" => c.branch \in Branches /\ c.path \in Files
      PROVE  EditorInv'
  BY <1>0, <1>1 DEF EditorInv, ShowsItsText, Known
<1>2. ASSUME UNCHANGED <<editor, saving, store, texts>>, calls' \subseteq calls PROVE EditorInv'
  BY <1>0, <1>2 DEF EditorInv, ShowsItsText, Known
<1>3. ASSUME NEW b, NEW reads, Code!Shows(b, reads) PROVE ShowsItsText(editor')
  <2>1. editor.refused \in Commit \cup {Nothing} /\ editor.create \in BOOLEAN
    BY <1>0 DEF EditorInv, ShowsItsText, Editor
  <2>2. Code!EmptyEditor(editor.create) \in Editor
    BY <2>1 DEF Code!EmptyEditor, Editor
  <2>3. /\ Code!EmptyEditor(editor.create).text = 0
        /\ Code!EmptyEditor(editor.create).preview = 0
    BY DEF Code!EmptyEditor
  <2>4. \/ editor' = editor
        \/ editor' = [Code!EmptyEditor(editor.create) EXCEPT !.refused = editor.refused]
    BY <1>3 DEF Code!Shows
  <2>5. ShowsItsText([Code!EmptyEditor(editor.create) EXCEPT !.refused = editor.refused])
    BY <1>0, <2>1, <2>2, <2>3 DEF ShowsItsText, Editor, Known
  <2>6. ShowsItsText(editor)
    BY <1>0 DEF EditorInv
  <2> QED BY <2>4, <2>5, <2>6
<1>4. CASE Code!EnterCode \/ Code!BranchesRead \/ \E b \in Branches : Code!ChooseBranch(b)
  <2>1. UNCHANGED <<saving, calls, store, texts>> /\ (editor' = editor \/ \E b, reads : Code!Shows(b, reads))
    BY <1>4 DEF Code!EnterCode, Code!BranchesRead, Code!ChooseBranch
  <2>2. ShowsItsText(editor')
    BY <1>0, <1>3, <2>1 DEF EditorInv
  <2>3. \A c \in calls' : c.of = "file" => c.branch \in Branches /\ c.path \in Files
    BY <1>0, <2>1 DEF EditorInv
  <2> QED BY <1>1, <2>1, <2>2, <2>3
<1>5. CASE Code!LoadMoreRemoteTree
  <2>1. \A c \in calls' : c.of = "file" => c.branch \in Branches /\ c.path \in Files
    BY <1>0, <1>5 DEF Code!LoadMoreRemoteTree, EditorInv
  <2> QED BY <1>0, <1>1, <1>5, <2>1 DEF Code!LoadMoreRemoteTree, EditorInv
<1>6. ASSUME NEW c \in calls, Code!MoreArrives(c) PROVE EditorInv'
  BY <1>2, <1>6 DEF Code!MoreArrives
<1>7. ASSUME NEW f \in Files, Code!OpenRemoteFile(f) PROVE EditorInv'
  <2>1. code.branch \in Branches
    BY <1>0, <1>7 DEF Code!OpenRemoteFile, Tab
  <2>2. \A c \in calls' : c.of = "file" => c.branch \in Branches /\ c.path \in Files
    BY <1>0, <1>7, <2>1 DEF Code!OpenRemoteFile, EditorInv
  <2>3. ShowsItsText(editor')
    BY <1>0, <1>7 DEF Code!OpenRemoteFile, EditorInv, ShowsItsText, Editor
  <2> QED BY <1>1, <1>7, <2>2, <2>3 DEF Code!OpenRemoteFile
<1>8. ASSUME NEW c \in calls, Code!FileArrives(c) PROVE EditorInv'
  <2> DEFINE there == store[c.branch][c.path]
  <2>1. c.path \in Files /\ there \in Content /\ there.text \in Known
    BY <1>0, <1>8 DEF Code!FileArrives, EditorInv
  <2>2. \/ editor' = editor
        \/ editor' = [file |-> there, path |-> c.path, text |-> there.text, original |-> there.text,
                      preview |-> 0, create |-> FALSE, refused |-> editor.refused]
    BY <1>8 DEF Code!FileArrives
  <2> HIDE DEF there
  <2>3. ShowsItsText(editor')
    <3>1. there.text \in Nat
      BY <2>1 DEF Content
    <3>2. ASSUME editor' = [file |-> there, path |-> c.path, text |-> there.text, original |-> there.text,
                            preview |-> 0, create |-> FALSE, refused |-> editor.refused]
          PROVE  ShowsItsText(editor')
      <4>1. editor' \in Editor
        BY <1>a, <2>1, <3>1, <3>2 DEF Editor
      <4>2. editor'.text = there.text /\ editor'.preview = 0
        BY <3>2
      <4> QED BY <2>1, <4>1, <4>2 DEF ShowsItsText
    <3> QED BY <1>a, <2>2, <3>2
  <2> QED BY <1>0, <1>1, <1>8, <2>3 DEF Code!FileArrives, EditorInv
<1>9. CASE Code!NewFile
  <2>1. Code!EmptyEditor(TRUE) \in Editor /\ Code!EmptyEditor(TRUE).text = 0 /\ Code!EmptyEditor(TRUE).preview = 0
    BY DEF Code!EmptyEditor, Editor
  <2>2. ShowsItsText([Code!EmptyEditor(TRUE) EXCEPT !.refused = editor.refused])
    <3> DEFINE empty == Code!EmptyEditor(TRUE)
    <3> HIDE DEF empty
    <3>1. empty \in Editor /\ empty.text = 0 /\ empty.preview = 0
      BY <2>1 DEF empty
    <3>2. ShowsItsText([empty EXCEPT !.refused = editor.refused])
      BY <1>a, <3>1 DEF ShowsItsText, Editor
    <3> QED BY <3>2 DEF empty
  <2> QED BY <1>0, <1>1, <1>9, <2>2 DEF Code!NewFile, EditorInv
<1>10. ASSUME NEW f \in Files, Code!NamePath(f) PROVE EditorInv'
  <2>1. ShowsItsText(editor')
    BY <1>0, <1>10 DEF Code!NamePath, EditorInv, ShowsItsText, Editor
  <2> QED BY <1>0, <1>1, <1>10, <2>1 DEF Code!NamePath, EditorInv
<1>11. CASE Code!EditText
  <2>1. editor.text \in Known /\ Len(texts) < MaxTexts /\ texts' = Code!Written(editor.text)
        /\ editor' = Code!Typed(editor)
    BY <1>0, <1>11 DEF Code!EditText, EditorInv, ShowsItsText
  <2>2. /\ texts' \in Seq(SUBSET Nat) /\ Len(texts') <= MaxTexts
        /\ Known \subseteq Known' /\ Len(texts) + 1 \in Known' /\ Len(texts) + 1 \in Nat
    BY <1>0, <2>1, TextWritten
  <2> DEFINE length == Len(texts) + 1
  <2>3. editor' = [editor EXCEPT !.text = length, !.preview = 0]
    BY <2>1 DEF Code!Typed
  <2>4. length \in Nat /\ length \in Known' /\ editor \in Editor
    BY <1>0, <2>2 DEF EditorInv, ShowsItsText
  <2> HIDE DEF length
  <2>5. ShowsItsText(editor)'
    BY <2>3, <2>4 DEF ShowsItsText, Editor
  <2>6. UNCHANGED <<saving, calls, store>>
    BY <1>11 DEF Code!EditText
  <2> QED BY <1>0, <2>2, <2>5, <2>6 DEF EditorInv
<1>12. CASE Code!PreviewDiff
  <2>1. ShowsItsText(editor')
    BY <1>0, <1>12 DEF Code!PreviewDiff, EditorInv, ShowsItsText, Editor
  <2> QED BY <1>0, <1>1, <1>12, <2>1 DEF Code!PreviewDiff, EditorInv
<1>13. CASE Code!SaveRemoteFile
  <2> DEFINE new == editor.create \/ editor.file = Nothing
             expected == Code!ExpectedRevision(editor.file)
  <2>1. /\ code.branch \in Branches /\ editor.path \in Files /\ editor.text \in Nat /\ editor.text \in Known
        /\ editor.preview = editor.text
    BY <1>0, <1>13 DEF Code!SaveRemoteFile, Code!Editing, Tab, EditorInv, ShowsItsText, Editor
  <2>2. expected \in Nat /\ new \in BOOLEAN
    BY <1>0 DEF Code!ExpectedRevision, EditorInv, ShowsItsText, Editor, Content
  <2>3. saving' = [step |-> "commit", branch |-> code.branch, path |-> editor.path, text |-> editor.text,
                   previewed |-> editor.preview, expected |-> expected, create |-> new]
    BY <1>13 DEF Code!SaveRemoteFile
  <2> HIDE DEF new, expected
  <2>4. saving' \in Commit /\ saving'.text = saving'.previewed /\ saving'.text \in Known
    BY <2>1, <2>2, <2>3 DEF Commit
  <2>5. ShowsItsText(editor')
    BY <1>0, <1>13 DEF Code!SaveRemoteFile, EditorInv, ShowsItsText, Editor
  <2> QED BY <1>0, <1>13, <2>4, <2>5 DEF Code!SaveRemoteFile, EditorInv, ShowsItsText, Known
<1>14. CASE Code!CommitArrives
  <2>0. /\ saving \in Commit /\ saving.text = saving.previewed /\ saving.text \in Known
        /\ UNCHANGED <<calls, texts>> /\ Known' = Known
    BY <1>0, <1>14 DEF Code!CommitArrives, EditorInv, Known
  <2>1. CASE ~Code!Accepts(saving)
    <3>1. saving' = Nothing /\ editor' = [editor EXCEPT !.refused = saving] /\ store' = store
      BY <1>14, <2>1 DEF Code!CommitArrives
    <3>2. ShowsItsText(editor')
      BY <1>0, <2>0, <3>1 DEF EditorInv, ShowsItsText, Editor
    <3> QED BY <1>0, <2>0, <3>1, <3>2 DEF EditorInv, ShowsItsText
  <2>2. CASE Code!Accepts(saving)
    <3>1. Code!Committed(saving.branch, saving.path, saving.text)
      BY <1>14, <2>2 DEF Code!CommitArrives
    <3>2. /\ store' \in [Branches -> [Files -> Content]]
          /\ \A b \in Branches, f \in Files : store'[b][f].text \in Known'
      BY <1>0, <2>0, <3>1, StoreCommitted DEF Commit
    <3>3. \/ saving' = Nothing /\ editor' = editor
          \/ /\ saving' = [saving EXCEPT !.step = "list"]
             /\ editor' = [editor EXCEPT !.file = store'[saving.branch][saving.path],
                             !.original = saving.text, !.preview = 0, !.create = FALSE]
      BY <1>14, <2>2 DEF Code!CommitArrives
    <3> DEFINE file == store'[saving.branch][saving.path]
    <3>4. file \in Content /\ saving.text \in Nat
      BY <2>0, <3>2 DEF Commit
    <3>5. ShowsItsText(editor')
      <4>1. \/ editor' = editor
            \/ editor' = [editor EXCEPT !.file = file, !.original = saving.text, !.preview = 0, !.create = FALSE]
        BY <3>3
      <4> HIDE DEF file
      <4>2. CASE editor' = editor
        BY <1>a, <4>2
      <4>3. CASE editor' = [editor EXCEPT !.file = file, !.original = saving.text, !.preview = 0, !.create = FALSE]
        <5>1. editor' \in Editor /\ editor'.text = editor.text /\ editor'.preview = 0
          BY <1>a, <3>4, <4>3 DEF Editor
        <5> QED BY <1>a, <5>1 DEF ShowsItsText
      <4> QED BY <4>1, <4>2, <4>3
    <3>6. saving' # Nothing => saving' \in Commit /\ saving'.text = saving'.previewed /\ saving'.text \in Known
      BY <2>0, <3>3 DEF Commit
    <3> QED BY <1>0, <2>0, <3>2, <3>5, <3>6 DEF EditorInv, ShowsItsText
  <2> QED BY <2>1, <2>2
<1>15. CASE Code!ListingArrives
  BY <1>0, <1>15 DEF Code!ListingArrives, EditorInv, ShowsItsText, Known
<1>16. ASSUME NEW b \in Branches, NEW f \in Files, Code!OthersCommit(b, f) PROVE EditorInv'
  <2>1. store[b][f].text \in Known /\ Len(texts) < MaxTexts /\ texts' = Code!Written(store[b][f].text)
        /\ Code!Committed(b, f, Len(texts) + 1) /\ UNCHANGED <<editor, saving, calls>>
    BY <1>0, <1>16 DEF Code!OthersCommit, EditorInv
  <2>2. /\ texts' \in Seq(SUBSET Nat) /\ Len(texts') <= MaxTexts
        /\ Known \subseteq Known' /\ Len(texts) + 1 \in Known' /\ Len(texts) + 1 \in Nat
    BY <1>0, <2>1, TextWritten
  <2>3. /\ store' \in [Branches -> [Files -> Content]]
        /\ \A c \in Branches, g \in Files : store'[c][g].text \in Known'
    BY <1>0, <2>1, <2>2, StoreCommitted
  <2> QED BY <1>0, <2>1, <2>2, <2>3 DEF EditorInv, ShowsItsText
<1>17. CASE Code!LeaveCode \/ Code!FirstArrives \/ Code!ToggleDirectory \/ Code!LoadMoreEntries
            \/ Code!Retry \/ Code!DirectoryArrives
  BY <1>2, <1>17 DEF Code!LeaveCode, Code!FirstArrives, Code!ToggleDirectory, Code!LoadMoreEntries, Code!Retry,
     Code!DirectoryArrives
<1> QED BY <1>4, <1>5, <1>6, <1>7, <1>8, <1>9, <1>10, <1>11, <1>12, <1>13, <1>14, <1>15, <1>16, <1>17
      DEF Code!CodeNext

(* What is committed to a linked repository is the text whose difference was  *)
(* shown last, and a folder shows all its pages up to the last one read       *)
(* (saveRemoteFile and the tree of RepositoryHubPanel.tsx), for any branches, *)
(* files, pages and provider, and however late files, listings and answers    *)
(* come; what the tab keeps has its shape.                                    *)
THEOREM CommitsArePreviewed ==
    ASSUME Code!CodeAssumption
    PROVE  Code!CodeSpec => [](Code!CodeTypeOK /\ Code!OnlyPreviewedIsCommitted /\ Code!DirectoryIsWhole)
<1>1. Code!CodeInit => CodeInv
  <2> SUFFICES ASSUME Code!CodeInit PROVE CodeInv
    OBVIOUS
  <2>1. TabInv
    BY DEF Code!CodeInit, Code!NewFolder, Code!CodeAssumption, TabInv, Tab, FolderInv
  <2>2. texts \in Seq(SUBSET Nat) /\ Len(texts) = 1
    <3>1. texts = <<{1}>>
      BY DEF Code!CodeInit
    <3> QED BY <3>1
  <2>3. 1 <= MaxTexts /\ MaxTexts \in Nat
    BY DEF Code!CodeAssumption
  <2>4. store \in [Branches -> [Files -> Content]] /\ \A b \in Branches, f \in Files : store[b][f].text \in {0, 1}
    <3>1. PICK has \in [Files -> SUBSET Branches] :
            store = [b \in Branches |-> [f \in Files |->
                       IF b \in has[f] THEN [text |-> 1, commit |-> MaxTexts + 1] ELSE Code!NoFile]]
      BY DEF Code!CodeInit
    <3> QED BY <2>3, <3>1 DEF Code!NoFile, Content
  <2>5. ShowsItsText(editor)
    BY <2>2 DEF Code!CodeInit, Code!EmptyEditor, ShowsItsText, Editor, Known
  <2>6. Known = {0, 1}
    <3>1. 0 .. 1 = {0, 1}
      OBVIOUS
    <3> QED BY <2>2, <3>1 DEF Known
  <2>7. saving = Nothing /\ calls = {}
    BY DEF Code!CodeInit
  <2> QED BY <2>1, <2>2, <2>3, <2>4, <2>5, <2>6, <2>7 DEF CodeInv, EditorInv
<1>2. CodeInv /\ [Code!CodeNext]_(Code!codeVars) => CodeInv'
  <2>1. CASE UNCHANGED Code!codeVars
    BY <2>1 DEF Code!codeVars, CodeInv, TabInv, FolderInv, EditorInv, ShowsItsText, Known
  <2> QED BY <2>1, TabStep, EditorStep DEF CodeInv
<1>3. CodeInv => Code!CodeTypeOK /\ Code!OnlyPreviewedIsCommitted /\ Code!DirectoryIsWhole
  <2> SUFFICES ASSUME CodeInv PROVE Code!CodeTypeOK /\ Code!OnlyPreviewedIsCommitted /\ Code!DirectoryIsWhole
    OBVIOUS
  <2>1. Code!CodeTypeOK
    <3>1. folder.page \in 0 .. FolderPages /\ folder.shown \subseteq 1 .. FolderPages
      <4>1. /\ folder.page \in Nat /\ FolderPages \in Nat /\ folder.page <= FolderPages
            /\ folder.shown = 1 .. folder.page
        BY DEF CodeInv, TabInv, FolderInv, Code!CodeAssumption
      <4> QED BY <4>1
    <3> QED BY <3>1 DEF Code!CodeTypeOK, CodeInv, TabInv, Tab, EditorInv, ShowsItsText, Editor, Known, Commit
  <2> QED BY <2>1 DEF Code!OnlyPreviewedIsCommitted, Code!DirectoryIsWhole, CodeInv, TabInv, FolderInv, EditorInv
<1> QED BY <1>1, <1>2, <1>3, PTL DEF Code!CodeSpec

-----------------------------------------------------------------------------
(* The tutor's models                                                      *)

Rows == {"available", "unavailable", "blocked", "unknown", "checking", "unlisted"}
Panel ==
    [life : Nat, open : BOOLEAN, models : [Models -> Rows], selection : Models \cup {Nothing},
     loading : BOOLEAN, testing : Models \cup {Nothing}, permitted : SUBSET Models, begun : Nat,
     tested : Nat]
Load ==
    [life : Nat, stage : {"providers", "create", "catalogue", "probe"}, force : BOOLEAN,
     selection : Models \cup {Nothing}, previous : [Models -> Rows], listed : [Models -> Rows],
     candidate : Models \cup {Nothing}, permitted : SUBSET Models]
Test == [life : Nat, model : Models, permitted : SUBSET Models]

\* A list in which only models that the policy permits may still be tested.
WithinPolicy(rows, permitted) == \A m \in Models : rows[m] = "unknown" => m \in permitted

\* What a load has read, or the list that it began with, keeps to the policy.
LoadFollows(c, shown) ==
    /\ c.life <= shown.life
    /\ c.stage = "probe" => c.candidate \in c.permitted /\ WithinPolicy(c.listed, c.permitted)
    /\ c.stage # "probe" /\ c.life = shown.life => WithinPolicy(c.previous, shown.permitted)

\* The panel has one load, while it says that it loads.
Underway(asked, shown) ==
    /\ asked \in Seq(Load)
    /\ \A i \in DOMAIN asked : LoadFollows(asked[i], shown)
    /\ \A i, k \in DOMAIN asked : asked[i].life = shown.life /\ asked[k].life = shown.life => i = k
    /\ shown.open => (shown.loading <=> \E i \in DOMAIN asked : asked[i].life = shown.life)

LegacyInv ==
    /\ legacy \in [stored : SUBSET {"v1", "v2", "snapshot"}, had : BOOLEAN, providers : Nat]
    /\ Tutor!ConnectionIsKept

PanelInv == panel \in Panel /\ WithinPolicy(panel.models, panel.permitted)
TestsInv == tests \in Seq(Test) /\ \A i \in DOMAIN tests : tests[i].model \in tests[i].permitted

TutorInv == PanelInv /\ Underway(loads, panel) /\ TestsInv /\ LegacyInv

LEMMA LegacyStep ==
    ASSUME TutorInv, Tutor!ModelsNext
    PROVE  LegacyInv'
<1>0. LegacyInv /\ legacy.stored \subseteq {"v1", "v2", "snapshot"} /\ legacy.providers \in Nat
  BY DEF TutorInv, LegacyInv
<1>1. CASE UNCHANGED legacy
  BY <1>0, <1>1 DEF LegacyInv, Tutor!ConnectionIsKept
<1>2. CASE Tutor!OpenPanel
  <2> DEFINE stored == IF "v2" \in legacy.stored THEN {"snapshot"} ELSE legacy.stored
  <2>1. legacy' = [legacy EXCEPT !.stored = stored]
    BY <1>2 DEF Tutor!OpenPanel
  <2>2. stored \in SUBSET {"v1", "v2", "snapshot"} /\ (legacy.stored # {} => stored # {})
    BY <1>0
  <2> HIDE DEF stored
  <2> QED BY <1>0, <2>1, <2>2 DEF LegacyInv, Tutor!ConnectionIsKept
<1>3. ASSUME NEW i \in DOMAIN loads, Tutor!ProvidersRead(i) PROVE LegacyInv'
  <2>1. legacy' = legacy \/ (legacy' = [legacy EXCEPT !.stored = {}] /\ legacy.providers > 0)
    BY <1>3 DEF Tutor!ProvidersRead, Tutor!Moved
  <2> QED BY <1>0, <1>1, <2>1 DEF LegacyInv, Tutor!ConnectionIsKept
<1>4. ASSUME NEW i \in DOMAIN loads, Tutor!ProviderCreated(i) PROVE LegacyInv'
  <2> DEFINE n == legacy.providers + 1
             moved == [legacy EXCEPT !.providers = n]
  <2>1. legacy' \in {legacy, moved, [moved EXCEPT !.stored = {}]}
    BY <1>4 DEF Tutor!ProviderCreated
  <2>2. n \in Nat /\ n > 0
    BY <1>0
  <2> HIDE DEF n
  <2>3. /\ moved \in [stored : SUBSET {"v1", "v2", "snapshot"}, had : BOOLEAN, providers : Nat]
        /\ moved.providers = n
    BY <1>0, <2>2 DEF LegacyInv
  <2> HIDE DEF moved
  <2> QED BY <1>0, <1>1, <2>1, <2>2, <2>3 DEF LegacyInv, Tutor!ConnectionIsKept
<1> QED BY <1>1, <1>2, <1>3, <1>4 DEF Tutor!ModelsNext, Tutor!ClosePanel, Tutor!RefreshModels, Tutor!ChooseModel,
      Tutor!LoadFails, Tutor!CatalogueRead, Tutor!CandidateTested, Tutor!ChosenTested

\* A load that begins while the panel has none.
LEMMA LoadBegins ==
    ASSUME TutorInv, NEW from \in Panel, NEW force \in BOOLEAN, Tutor!BeginLoad(from, force),
           from.open, from.permitted = panel.permitted, WithinPolicy(from.models, panel.permitted),
           \/ from.life = panel.life + 1
           \/ from.life = panel.life /\ \A i \in DOMAIN loads : loads[i].life # panel.life
    PROVE  PanelInv' /\ Underway(loads', panel')
<1> DEFINE new == [life |-> from.life, stage |-> "providers", force |-> force, selection |-> from.selection,
                   previous |-> from.models, listed |-> Tutor!Unlisted, candidate |-> Nothing, permitted |-> {}]
           begun == from.begun + 1
           n == Len(loads)
<1>1. loads' = Append(loads, new) /\ panel' = [from EXCEPT !.loading = TRUE, !.begun = begun]
  BY DEF Tutor!BeginLoad
<1>2. begun \in Nat /\ from.life \in Nat /\ panel.life \in Nat
  BY DEF Panel, TutorInv, PanelInv
<1> HIDE DEF begun
<1>3. new \in Load
  BY DEF Load, Panel, Tutor!Unlisted, Rows
<1>4. /\ panel' \in Panel /\ panel'.models = from.models /\ panel'.permitted = panel.permitted
      /\ panel'.life = from.life /\ panel'.loading /\ panel'.open
  BY <1>1, <1>2 DEF Panel
<1>5. n \in Nat /\ DOMAIN loads = 1 .. n /\ loads \in Seq(Load)
  BY LenProperties DEF TutorInv, Underway
<1>6. new.life = from.life /\ new.stage = "providers" /\ new.previous = from.models
  OBVIOUS
<1>7. \A i \in 1 .. n : LoadFollows(loads[i], panel) /\ loads[i] \in Load
  BY <1>5, ElementOfSeq DEF TutorInv, Underway
<1> HIDE DEF new, n
<1>8. /\ loads' \in Seq(Load) /\ Len(loads') = n + 1
      /\ \A i \in 1 .. n : loads'[i] = loads[i]
      /\ loads'[n + 1] = new
  BY <1>1, <1>3, <1>5, AppendProperties DEF n
<1>9. DOMAIN loads' = 1 .. n + 1 /\ \A i \in 1 .. n + 1 : i \in 1 .. n \/ i = n + 1
  BY <1>5, <1>8, LenProperties
<1>10. ASSUME NEW i \in 1 .. n PROVE LoadFollows(loads'[i], panel') /\ loads'[i].life # from.life
  <2>1. LoadFollows(loads[i], panel) /\ loads[i] \in Load /\ loads'[i] = loads[i]
    BY <1>7, <1>8
  <2>2. loads[i].life \in Nat /\ loads[i].life # from.life
    BY <1>2, <1>5, <2>1 DEF Load, LoadFollows
  <2>3. loads[i].life <= from.life
    BY <1>2, <2>1, <2>2 DEF LoadFollows
  <2> QED BY <1>4, <2>1, <2>2, <2>3 DEF LoadFollows
<1>11. LoadFollows(loads'[n + 1], panel')
  BY <1>2, <1>4, <1>6, <1>8 DEF LoadFollows
<1>12. PanelInv'
  BY <1>4 DEF PanelInv
<1>13. n + 1 \in 1 .. n + 1 /\ loads'[n + 1].life = panel'.life
  BY <1>4, <1>5, <1>6, <1>8
<1>14. \A i \in 1 .. n : loads'[i].life # panel'.life
  BY <1>4, <1>10
<1> QED BY <1>4, <1>8, <1>9, <1>10, <1>11, <1>12, <1>13, <1>14 DEF Underway

\* A load that ends: the panel shows its end, when it is the panel's.
LEMMA LoadEnds ==
    ASSUME NEW asked, NEW shown \in Panel, Underway(asked, shown), NEW k \in DOMAIN asked,
           NEW next \in Panel, next.life = shown.life, next.open = shown.open,
           \/ asked[k].life = shown.life /\ ~next.loading
           \/ ~(shown.open /\ asked[k].life = shown.life) /\ next = shown
    PROVE  Underway(RemoveAt(asked, k), next)
<1> DEFINE rest == RemoveAt(asked, k)
<1>1. asked \in Seq(Load)
  BY DEF Underway
<1>2. rest \in Seq(Load) /\ OthersOf(asked, k, rest)
  BY <1>1, OthersStay
<1> HIDE DEF rest
<1>3. PICK was \in [DOMAIN rest -> DOMAIN asked \ {k}] :
        /\ \A i \in DOMAIN rest : rest[i] = asked[was[i]]
        /\ \A i, j \in DOMAIN rest : was[i] = was[j] => i = j
        /\ \A j \in DOMAIN asked \ {k} : \E i \in DOMAIN rest : was[i] = j
  BY <1>2 DEF OthersOf
<1>4. \A i \in DOMAIN rest : was[i] \in DOMAIN asked /\ was[i] # k
  BY <1>3
<1>5. \A i, j \in DOMAIN rest : rest[i].life = next.life /\ rest[j].life = next.life => i = j
  BY <1>3, <1>4 DEF Underway
<1>6. ASSUME NEW i \in DOMAIN rest PROVE LoadFollows(rest[i], next)
  <2>1. LoadFollows(asked[was[i]], shown) /\ rest[i] = asked[was[i]]
    BY <1>3, <1>4 DEF Underway
  <2>2. CASE next = shown
    BY <2>1, <2>2
  <2>3. CASE asked[k].life = shown.life
    <3>1. asked[was[i]].life # shown.life
      BY <1>4, <2>3 DEF Underway
    <3> QED BY <2>1, <3>1 DEF LoadFollows
  <2> QED BY <2>2, <2>3
<1>7. ASSUME next.open PROVE next.loading <=> \E i \in DOMAIN rest : rest[i].life = next.life
  <2>1. CASE asked[k].life = shown.life
    <3>1. \A i \in DOMAIN rest : rest[i].life # shown.life
      BY <1>3, <1>4, <2>1 DEF Underway
    <3> QED BY <1>7, <2>1, <3>1
  <2>2. CASE asked[k].life # shown.life
    <3>1. next = shown /\ (shown.loading <=> \E j \in DOMAIN asked : asked[j].life = shown.life)
      BY <1>7, <2>2 DEF Underway
    <3>2. (\E j \in DOMAIN asked : asked[j].life = shown.life) <=> \E i \in DOMAIN rest : rest[i].life = shown.life
      BY <1>3, <1>4, <2>2
    <3> QED BY <3>1, <3>2
  <2> QED BY <2>1, <2>2
<1> QED BY <1>2, <1>5, <1>6, <1>7 DEF Underway, rest

\* A load that goes on.
LEMMA LoadGoesOn ==
    ASSUME NEW asked, NEW shown \in Panel, Underway(asked, shown), NEW k \in DOMAIN asked,
           NEW c \in Load, c.life = asked[k].life,
           NEW next \in Panel, next.life = shown.life, next.open = shown.open, next.loading = shown.loading,
           next.permitted = shown.permitted \/ asked[k].life = shown.life, LoadFollows(c, next)
    PROVE  Underway([asked EXCEPT ![k] = c], next)
<1> DEFINE now == [asked EXCEPT ![k] = c]
<1>1. asked \in Seq(Load)
  BY DEF Underway
<1>2. now \in Seq(Load) /\ DOMAIN now = DOMAIN asked
  BY <1>1, ExceptSeq
<1>3. now[k] = c /\ \A i \in DOMAIN asked \ {k} : now[i] = asked[i]
  OBVIOUS
<1> HIDE DEF now
<1>4. \A i \in DOMAIN asked : now[i].life = asked[i].life
  BY <1>3
<1>5. ASSUME NEW i \in DOMAIN asked \ {k} PROVE LoadFollows(asked[i], next)
  <2>1. LoadFollows(asked[i], shown)
    BY DEF Underway
  <2>2. CASE next.permitted = shown.permitted
    BY <2>1, <2>2 DEF LoadFollows
  <2>3. CASE asked[k].life = shown.life
    <3>1. asked[i].life # shown.life
      BY <2>3 DEF Underway
    <3> QED BY <2>1, <3>1 DEF LoadFollows
  <2> QED BY <2>2, <2>3
<1> QED BY <1>2, <1>3, <1>4, <1>5 DEF Underway, now

\* The tests of chosen models.
LEMMA TestsStep ==
    ASSUME TutorInv, Tutor!ModelsNext
    PROVE  TestsInv'
<1>1. tests \in Seq(Test) /\ \A i \in DOMAIN tests : tests[i].model \in tests[i].permitted
  BY DEF TutorInv, TestsInv
<1>2. CASE UNCHANGED tests
  BY <1>1, <1>2 DEF TestsInv
<1>3. ASSUME NEW m \in Models, panel.models[m] = "unknown",
             tests' = Append(tests, [life |-> panel.life, model |-> m, permitted |-> panel.permitted])
      PROVE  TestsInv'
  <2> DEFINE new == [life |-> panel.life, model |-> m, permitted |-> panel.permitted]
  <2>1. new \in Test /\ new.model \in new.permitted
    BY <1>3 DEF TutorInv, PanelInv, Panel, WithinPolicy, Test
  <2> HIDE DEF new
  <2>2. /\ tests' \in Seq(Test) /\ Len(tests') = Len(tests) + 1
        /\ \A i \in 1 .. Len(tests) : tests'[i] = tests[i]
        /\ tests'[Len(tests) + 1] = new
    BY <1>1, <1>3, <2>1, AppendProperties DEF new
  <2>3. /\ Len(tests) \in Nat /\ DOMAIN tests = 1 .. Len(tests)
        /\ DOMAIN tests' = 1 .. Len(tests) + 1
    BY <1>1, <2>2, LenProperties
  <2>4. \A i \in 1 .. Len(tests) + 1 : i \in 1 .. Len(tests) \/ i = Len(tests) + 1
    BY <2>3
  <2> QED BY <1>1, <2>1, <2>2, <2>3, <2>4 DEF TestsInv
<1>4. ASSUME NEW k \in DOMAIN tests, tests' = Tutor!RemoveAt(tests, k) PROVE TestsInv'
  <2>1. tests' = RemoveAt(tests, k)
    BY <1>4 DEF Tutor!RemoveAt, RemoveAt
  <2>2. /\ tests' \in Seq(Test)
        /\ \E was \in [DOMAIN tests' -> DOMAIN tests \ {k}] :
             /\ \A i \in DOMAIN tests' : tests'[i] = tests[was[i]]
    BY <1>1, <2>1, OthersStay DEF OthersOf
  <2> QED BY <1>1, <2>2 DEF TestsInv
<1>5. CASE Tutor!ChooseModel
  BY <1>2, <1>3, <1>5 DEF Tutor!ChooseModel
<1>6. ASSUME NEW k \in DOMAIN tests, Tutor!ChosenTested(k) PROVE TestsInv'
  BY <1>4, <1>6 DEF Tutor!ChosenTested
<1>7. CASE Tutor!OpenPanel \/ Tutor!ClosePanel \/ Tutor!RefreshModels
  BY <1>2, <1>7 DEF Tutor!OpenPanel, Tutor!ClosePanel, Tutor!RefreshModels
<1>8. ASSUME NEW i \in DOMAIN loads,
             \/ Tutor!ProvidersRead(i) \/ Tutor!ProviderCreated(i) \/ Tutor!LoadFails(i)
             \/ Tutor!CatalogueRead(i) \/ Tutor!CandidateTested(i)
      PROVE  TestsInv'
  BY <1>2, <1>8 DEF Tutor!ProvidersRead, Tutor!ProviderCreated, Tutor!LoadFails, Tutor!CatalogueRead,
     Tutor!CandidateTested
<1> QED BY <1>5, <1>6, <1>7, <1>8 DEF Tutor!ModelsNext

\* The panel, while no load begins, goes on or ends.
LEMMA PanelStep ==
    ASSUME TutorInv,
           \/ Tutor!ClosePanel
           \/ Tutor!ChooseModel
           \/ \E k \in DOMAIN tests : Tutor!ChosenTested(k)
    PROVE  PanelInv' /\ Underway(loads', panel')
<1>1. panel \in Panel /\ WithinPolicy(panel.models, panel.permitted) /\ Underway(loads, panel)
  BY DEF TutorInv, PanelInv
<1>2. ASSUME loads' = loads, panel' \in Panel, panel'.life = panel.life, panel'.permitted = panel.permitted,
             panel'.open => panel.open /\ panel'.loading = panel.loading,
             WithinPolicy(panel'.models, panel'.permitted)
      PROVE  PanelInv' /\ Underway(loads', panel')
  BY <1>1, <1>2 DEF PanelInv, Underway, LoadFollows
<1>3. CASE Tutor!ClosePanel
  <2>1. loads' = loads /\ panel' = [panel EXCEPT !.open = FALSE]
    BY <1>3 DEF Tutor!ClosePanel
  <2> QED BY <1>1, <1>2, <2>1 DEF Panel
<1>4. CASE Tutor!ChooseModel
  <2>1. PICK m \in Models :
          \/ panel' = [panel EXCEPT !.selection = m]
          \/ panel' = [panel EXCEPT !.testing = m, !.models[m] = "checking", !.tested = @ + 1]
    BY <1>4 DEF Tutor!ChooseModel
  <2>2. loads' = loads
    BY <1>4 DEF Tutor!ChooseModel
  <2> DEFINE rows == [panel.models EXCEPT ![m] = "checking"]
             n == panel.tested + 1
  <2>3. rows \in [Models -> Rows] /\ WithinPolicy(rows, panel.permitted) /\ n \in Nat
    BY <1>1 DEF Panel, Rows, WithinPolicy
  <2>4. \/ panel' = [panel EXCEPT !.selection = m]
        \/ panel' = [panel EXCEPT !.testing = m, !.models = rows, !.tested = n]
    BY <1>1, <2>1 DEF Panel
  <2> HIDE DEF rows, n
  <2>5. CASE panel' = [panel EXCEPT !.selection = m]
    <3>1. /\ panel' \in Panel /\ panel'.life = panel.life /\ panel'.permitted = panel.permitted
          /\ panel'.open = panel.open /\ panel'.loading = panel.loading /\ panel'.models = panel.models
      BY <1>1, <2>5 DEF Panel
    <3> QED BY <1>1, <1>2, <2>2, <3>1
  <2>6. CASE panel' = [panel EXCEPT !.testing = m, !.models = rows, !.tested = n]
    <3>1. /\ panel' \in Panel /\ panel'.life = panel.life /\ panel'.permitted = panel.permitted
          /\ panel'.open = panel.open /\ panel'.loading = panel.loading /\ panel'.models = rows
      BY <1>1, <2>3, <2>6 DEF Panel
    <3> QED BY <1>2, <2>2, <2>3, <3>1
  <2> QED BY <2>4, <2>5, <2>6
<1>5. ASSUME NEW k \in DOMAIN tests, Tutor!ChosenTested(k) PROVE PanelInv' /\ Underway(loads', panel')
  <2> DEFINE m == tests[k].model
  <2>1. m \in Models
    <3>1. tests \in Seq(Test)
      BY DEF TutorInv, TestsInv
    <3>2. tests[k] \in Test
      BY <3>1, ElementOfSeq, LenProperties
    <3> QED BY <3>2 DEF Test
  <2>2. loads' = loads
    BY <1>5 DEF Tutor!ChosenTested
  <2>3. PICK verdict \in Tutor!Verdicts :
          panel' = IF ~Tutor!Live(tests[k]) THEN panel
                   ELSE [panel EXCEPT !.testing = Nothing,
                           !.models[m] = IF @ = "unlisted" THEN @ ELSE verdict,
                           !.selection = IF verdict = "available" THEN m ELSE @]
    BY <1>5 DEF Tutor!ChosenTested
  <2> HIDE DEF m
  <2> DEFINE row == IF panel.models[m] = "unlisted" THEN panel.models[m] ELSE verdict
             rows == [panel.models EXCEPT ![m] = row]
             selection == IF verdict = "available" THEN m ELSE panel.selection
  <2>4. row \in Rows \ {"unknown"} /\ selection \in Models \cup {Nothing}
    BY <1>1, <2>1 DEF Panel, Rows, Tutor!Verdicts
  <2>5. panel' = panel \/ panel' = [panel EXCEPT !.testing = Nothing, !.models = rows, !.selection = selection]
    BY <1>1, <2>1, <2>3 DEF Panel
  <2> HIDE DEF row, selection
  <2>6. rows \in [Models -> Rows] /\ WithinPolicy(rows, panel.permitted)
    BY <1>1, <2>1, <2>4 DEF Panel, WithinPolicy
  <2> HIDE DEF rows
  <2>7. CASE panel' = panel
    BY <1>1, <1>2, <2>2, <2>7
  <2>8. CASE panel' = [panel EXCEPT !.testing = Nothing, !.models = rows, !.selection = selection]
    <3>1. /\ panel' \in Panel /\ panel'.life = panel.life /\ panel'.permitted = panel.permitted
          /\ panel'.open = panel.open /\ panel'.loading = panel.loading /\ panel'.models = rows
      BY <1>1, <2>4, <2>6, <2>8 DEF Panel
    <3> QED BY <1>2, <2>2, <2>6, <3>1
  <2> QED BY <2>5, <2>7, <2>8
<1> QED BY <1>3, <1>4, <1>5

\* A load that goes on or ends.
LEMMA LoadStep ==
    ASSUME TutorInv, NEW k \in DOMAIN loads,
           \/ Tutor!ProvidersRead(k) \/ Tutor!ProviderCreated(k) \/ Tutor!LoadFails(k)
           \/ Tutor!CatalogueRead(k) \/ Tutor!CandidateTested(k),
           LocalModels \subseteq Models, Nothing \notin Models
    PROVE  PanelInv' /\ Underway(loads', panel')
<1>1. panel \in Panel /\ WithinPolicy(panel.models, panel.permitted) /\ Underway(loads, panel)
  BY DEF TutorInv, PanelInv
<1>2. /\ loads \in Seq(Load) /\ loads[k] \in Load /\ LoadFollows(loads[k], panel)
      /\ loads[k].life \in Nat /\ panel.life \in Nat
  <2>1. loads \in Seq(Load) /\ LoadFollows(loads[k], panel)
    BY <1>1 DEF Underway
  <2>2. loads[k] \in Load
    BY <2>1, ElementOfSeq, LenProperties
  <2> QED BY <1>1, <2>1, <2>2 DEF Load, Panel
<1>3. ASSUME NEW rows \in [Models -> Rows], NEW selection \in Models \cup {Nothing}, NEW permitted \in SUBSET Models,
             WithinPolicy(rows, permitted), loads' = Tutor!RemoveAt(loads, k),
             panel' = IF Tutor!Live(loads[k])
                      THEN [panel EXCEPT !.models = rows, !.selection = selection, !.loading = FALSE,
                                         !.permitted = permitted]
                      ELSE panel
      PROVE  PanelInv' /\ Underway(loads', panel')
  <2>1. loads' = RemoveAt(loads, k)
    BY <1>3 DEF Tutor!RemoveAt, RemoveAt
  <2>2. CASE ~Tutor!Live(loads[k])
    <3>1. panel' = panel /\ ~(panel.open /\ loads[k].life = panel.life)
      BY <1>3, <2>2 DEF Tutor!Live
    <3>2. Underway(RemoveAt(loads, k), panel)
      BY <1>1, <3>1, LoadEnds
    <3> QED BY <1>1, <2>1, <3>1, <3>2 DEF PanelInv
  <2>3. CASE Tutor!Live(loads[k])
    <3> DEFINE next == [panel EXCEPT !.models = rows, !.selection = selection, !.loading = FALSE,
                                     !.permitted = permitted]
    <3>1. panel' = next /\ loads[k].life = panel.life
      BY <1>3, <2>3 DEF Tutor!Live
    <3>2. /\ next \in Panel /\ next.life = panel.life /\ next.open = panel.open /\ ~next.loading
          /\ next.models = rows /\ next.permitted = permitted
      BY <1>1 DEF Panel
    <3> HIDE DEF next
    <3>3. Underway(RemoveAt(loads, k), next)
      BY <1>1, <3>1, <3>2, LoadEnds
    <3> QED BY <1>3, <2>1, <3>1, <3>2, <3>3 DEF PanelInv
  <2> QED BY <2>2, <2>3
<1>4. ASSUME NEW stage \in {"create", "catalogue"}, loads[k].stage # "probe", loads' = [loads EXCEPT ![k].stage = stage],
             panel' = panel
      PROVE  PanelInv' /\ Underway(loads', panel')
  <2> DEFINE c == [loads[k] EXCEPT !.stage = stage]
  <2>1. loads' = [loads EXCEPT ![k] = c]
    BY <1>2, <1>4
  <2>2. c \in Load /\ c.life = loads[k].life /\ c.stage = stage /\ c.previous = loads[k].previous
    BY <1>2 DEF Load
  <2> HIDE DEF c
  <2>3. LoadFollows(c, panel)
    BY <1>2, <1>4, <2>2 DEF LoadFollows
  <2>4. Underway([loads EXCEPT ![k] = c], panel)
    BY <1>1, <2>2, <2>3, LoadGoesOn
  <2> QED BY <1>1, <1>4, <2>1, <2>4 DEF PanelInv
<1>5. CASE Tutor!ProvidersRead(k)
  BY <1>4, <1>5 DEF Tutor!ProvidersRead, Tutor!OnTo
<1>6. CASE Tutor!ProviderCreated(k)
  BY <1>4, <1>6 DEF Tutor!ProviderCreated, Tutor!OnTo
<1>7. CASE Tutor!LoadFails(k)
  <2> DEFINE rows == loads[k].previous
  <2>1. /\ loads' = Tutor!RemoveAt(loads, k)
        /\ panel' = IF Tutor!Live(loads[k]) THEN [panel EXCEPT !.models = rows, !.loading = FALSE] ELSE panel
    BY <1>7 DEF Tutor!LoadFails
  <2>2. rows \in [Models -> Rows] /\ (Tutor!Live(loads[k]) => WithinPolicy(rows, panel.permitted))
    BY <1>2, <1>7 DEF Tutor!LoadFails, Tutor!Live, Load, LoadFollows
  <2> HIDE DEF rows
  <2>3. CASE Tutor!Live(loads[k])
    <3>1. /\ panel.selection \in Models \cup {Nothing} /\ panel.permitted \in SUBSET Models
          /\ panel' = [panel EXCEPT !.models = rows, !.selection = panel.selection, !.loading = FALSE,
                                    !.permitted = panel.permitted]
      BY <1>1, <2>1, <2>3 DEF Panel
    <3> QED BY <1>3, <2>1, <2>2, <2>3, <3>1
  <2>4. CASE ~Tutor!Live(loads[k])
    <3>1. /\ panel.models \in [Models -> Rows] /\ panel.selection \in Models \cup {Nothing}
          /\ panel.permitted \in SUBSET Models
      BY <1>1 DEF Panel
    <3>2. panel' = panel
      BY <2>1, <2>4
    <3> QED BY <1>1, <1>3, <2>1, <2>4, <3>1, <3>2
  <2> QED BY <2>3, <2>4
<1>8. CASE Tutor!CandidateTested(k)
  <2> DEFINE listed == loads[k].listed
             candidate == loads[k].candidate
  <2>1. PICK verdict \in Tutor!Verdicts : Tutor!EndLoad(k, [listed EXCEPT ![candidate] = verdict])
    BY <1>8 DEF Tutor!CandidateTested
  <2> DEFINE rows == [listed EXCEPT ![candidate] = verdict]
  <2>2. /\ listed \in [Models -> Rows] /\ loads[k].permitted \in SUBSET Models
        /\ WithinPolicy(listed, loads[k].permitted)
    BY <1>2, <1>8 DEF Tutor!CandidateTested, Load, LoadFollows
  <2> HIDE DEF listed, candidate
  <2>3. rows \in [Models -> Rows] /\ WithinPolicy(rows, loads[k].permitted)
    BY <2>1, <2>2 DEF Tutor!Verdicts, Rows, WithinPolicy
  <2> HIDE DEF rows
  <2>4. /\ loads' = Tutor!RemoveAt(loads, k)
        /\ IF Tutor!Live(loads[k])
           THEN \E s \in Tutor!Selections(loads[k], rows) :
                  panel' = [panel EXCEPT !.models = rows, !.selection = s, !.loading = FALSE,
                                         !.permitted = loads[k].permitted]
           ELSE UNCHANGED panel
    BY <2>1 DEF Tutor!EndLoad, rows
  <2>5. Tutor!Selections(loads[k], rows) \subseteq Models \cup {Nothing}
    BY DEF Tutor!Selections, Tutor!Available
  <2>6. \E s \in Models \cup {Nothing} :
          panel' = IF Tutor!Live(loads[k])
                   THEN [panel EXCEPT !.models = rows, !.selection = s, !.loading = FALSE,
                                      !.permitted = loads[k].permitted]
                   ELSE panel
    BY <2>4, <2>5
  <2> QED BY <1>3, <2>2, <2>3, <2>4, <2>6
<1>9. CASE Tutor!CatalogueRead(k)
  <2>1. PICK offline \in BOOLEAN, healthy \in SUBSET Models, cached \in [Models -> {"available", "unknown"}] :
          LET permitted == IF offline THEN LocalModels ELSE Models
              listed == [m \in Models |-> Tutor!Availability(m, permitted, healthy, cached)]
              c == [loads[k] EXCEPT !.listed = listed, !.permitted = permitted]
          IN \E candidate \in Tutor!Candidates(c, healthy) :
               IF candidate = Nothing \/ (~c.force /\ listed[candidate] # "unknown")
               THEN /\ loads' = Tutor!RemoveAt(loads, k)
                    /\ IF Tutor!Live(c)
                       THEN \E s \in Tutor!Selections(c, listed) :
                              panel' = [panel EXCEPT !.models = listed, !.selection = s,
                                                     !.loading = FALSE, !.permitted = permitted]
                       ELSE UNCHANGED panel
               ELSE /\ loads' = [loads EXCEPT ![k] = [c EXCEPT
                                   !.stage = "probe", !.candidate = candidate,
                                   !.listed[candidate] = "checking"]]
                    /\ panel' = IF Tutor!Live(c)
                                THEN [panel EXCEPT !.models = [listed EXCEPT ![candidate] = "checking"],
                                                   !.permitted = permitted]
                                ELSE panel
    BY <1>9 DEF Tutor!CatalogueRead
  <2> DEFINE permitted == IF offline THEN LocalModels ELSE Models
             listed == [m \in Models |-> Tutor!Availability(m, permitted, healthy, cached)]
             c == [loads[k] EXCEPT !.listed = listed, !.permitted = permitted]
  <2>2. permitted \in SUBSET Models
    OBVIOUS
  <2> HIDE DEF permitted
  <2>3. listed \in [Models -> Rows] /\ WithinPolicy(listed, permitted)
    BY DEF Tutor!Availability, Rows, WithinPolicy
  <2>4. PICK candidate \in Tutor!Candidates(c, healthy) :
               IF candidate = Nothing \/ (~c.force /\ listed[candidate] # "unknown")
               THEN /\ loads' = Tutor!RemoveAt(loads, k)
                    /\ IF Tutor!Live(c)
                       THEN \E s \in Tutor!Selections(c, listed) :
                              panel' = [panel EXCEPT !.models = listed, !.selection = s,
                                                     !.loading = FALSE, !.permitted = permitted]
                       ELSE UNCHANGED panel
               ELSE /\ loads' = [loads EXCEPT ![k] = [c EXCEPT
                                   !.stage = "probe", !.candidate = candidate,
                                   !.listed[candidate] = "checking"]]
                    /\ panel' = IF Tutor!Live(c)
                                THEN [panel EXCEPT !.models = [listed EXCEPT ![candidate] = "checking"],
                                                   !.permitted = permitted]
                                ELSE panel
    BY <2>1 DEF permitted
  <2> HIDE DEF listed
  <2>5. /\ c \in Load /\ c.life = loads[k].life /\ c.listed = listed /\ c.permitted = permitted
        /\ c.force = loads[k].force
    BY <1>2, <2>2, <2>3 DEF Load
  <2> HIDE DEF c
  <2>6. Tutor!Live(c) <=> Tutor!Live(loads[k])
    BY <2>5 DEF Tutor!Live
  <2>7. candidate \in permitted \/ candidate = Nothing
    BY <2>4, <2>5 DEF Tutor!Candidates, Tutor!CanProbe
  <2>8. CASE candidate = Nothing \/ (~c.force /\ listed[candidate] # "unknown")
    <3>1. /\ loads' = Tutor!RemoveAt(loads, k)
          /\ IF Tutor!Live(loads[k])
             THEN \E s \in Tutor!Selections(c, listed) :
                    panel' = [panel EXCEPT !.models = listed, !.selection = s, !.loading = FALSE,
                                           !.permitted = permitted]
             ELSE UNCHANGED panel
      BY <2>4, <2>6, <2>8
    <3>2. Tutor!Selections(c, listed) \subseteq Models \cup {Nothing}
      BY DEF Tutor!Selections, Tutor!Available
    <3>3. \E s \in Models \cup {Nothing} :
            panel' = IF Tutor!Live(loads[k])
                     THEN [panel EXCEPT !.models = listed, !.selection = s, !.loading = FALSE,
                                        !.permitted = permitted]
                     ELSE panel
      BY <3>1, <3>2
    <3> QED BY <1>3, <2>2, <2>3, <3>1, <3>3
  <2>9. CASE ~(candidate = Nothing \/ (~c.force /\ listed[candidate] # "unknown"))
    <3> DEFINE rows == [listed EXCEPT ![candidate] = "checking"]
               now == [c EXCEPT !.stage = "probe", !.candidate = candidate, !.listed = rows]
               next == IF Tutor!Live(loads[k])
                       THEN [panel EXCEPT !.models = rows, !.permitted = permitted] ELSE panel
    <3>1. candidate \in permitted /\ candidate \in Models
      BY <2>2, <2>7, <2>9
    <3>2. loads' = [loads EXCEPT ![k] = now] /\ panel' = next
      BY <2>4, <2>5, <2>6, <2>9 DEF Load
    <3>3. rows \in [Models -> Rows] /\ WithinPolicy(rows, permitted)
      BY <2>3, <3>1 DEF Rows, WithinPolicy
    <3> HIDE DEF rows
    <3>4. /\ now \in Load /\ now.life = loads[k].life /\ now.stage = "probe" /\ now.candidate = candidate
          /\ now.listed = rows /\ now.permitted = permitted
      BY <2>5, <3>1, <3>3 DEF Load
    <3> HIDE DEF now
    <3>5. /\ next \in Panel /\ next.life = panel.life /\ next.open = panel.open /\ next.loading = panel.loading
          /\ WithinPolicy(next.models, next.permitted)
          /\ next.permitted = panel.permitted \/ loads[k].life = panel.life
      <4>1. CASE Tutor!Live(loads[k])
        BY <1>1, <2>2, <3>3, <4>1 DEF Tutor!Live, Panel
      <4>2. CASE ~Tutor!Live(loads[k])
        BY <1>1, <4>2
      <4> QED BY <4>1, <4>2
    <3> HIDE DEF next
    <3>6. LoadFollows(now, next)
      BY <1>2, <3>1, <3>3, <3>4, <3>5 DEF LoadFollows
    <3>7. Underway([loads EXCEPT ![k] = now], next)
      BY <1>1, <3>4, <3>5, <3>6, LoadGoesOn
    <3> QED BY <3>2, <3>5, <3>7 DEF PanelInv
  <2> QED BY <2>8, <2>9
<1> QED BY <1>5, <1>6, <1>7, <1>8, <1>9

(* The reading companion's list of models keeps to the policy, and the       *)
(* Tutor's connection is not lost (ShelfStudyAssistant.tsx): for any models, *)
(* any number of loads and tests, whatever fails and however often the       *)
(* reader leaves and comes back, a model is verified only where the policy   *)
(* as last read permits it, the panel says that it loads exactly while its   *)
(* load is under way, and the connection of the former Tutor is in the       *)
(* browser or on the server.                                                 *)
THEOREM TutorKeepsToPolicy ==
    ASSUME Tutor!ModelsAssumption
    PROVE  Tutor!ModelsSpec => [](Tutor!ModelsTypeOK /\ Tutor!ConnectionIsKept /\ Tutor!TestsFollowPolicy)
<1>1. Tutor!ModelsInit => TutorInv
  <2> SUFFICES ASSUME Tutor!ModelsInit PROVE TutorInv
    OBVIOUS
  <2>1. PanelInv
    <3>1. PICK selection \in Models \cup {Nothing} :
            panel = [life |-> 0, open |-> FALSE, models |-> Tutor!Unlisted, selection |-> selection,
                     loading |-> FALSE, testing |-> Nothing, permitted |-> {}, begun |-> 0, tested |-> 0]
      BY DEF Tutor!ModelsInit
    <3> QED BY <3>1 DEF PanelInv, Panel, Tutor!Unlisted, Rows, WithinPolicy
  <2>2. Underway(loads, panel)
    <3>1. loads = <<>> /\ ~panel.open
      BY DEF Tutor!ModelsInit
    <3> QED BY <3>1, EmptySeq DEF Underway
  <2>3. TestsInv
    BY EmptySeq DEF Tutor!ModelsInit, TestsInv
  <2>4. LegacyInv
    <3>1. PICK at \in {{"v1"}, {"v2"}, {}} : legacy = [stored |-> at, had |-> at # {}, providers |-> 0]
      BY DEF Tutor!ModelsInit
    <3> QED BY <3>1 DEF LegacyInv, Tutor!ConnectionIsKept
  <2> QED BY <2>1, <2>2, <2>3, <2>4 DEF TutorInv
<1>2. TutorInv /\ [Tutor!ModelsNext]_(Tutor!modelsVars) => TutorInv'
  <2> SUFFICES ASSUME TutorInv, [Tutor!ModelsNext]_(Tutor!modelsVars) PROVE TutorInv'
    OBVIOUS
  <2>1. CASE UNCHANGED Tutor!modelsVars
    BY <2>1 DEF Tutor!modelsVars, TutorInv, PanelInv, TestsInv, LegacyInv, Tutor!ConnectionIsKept
  <2>2. CASE Tutor!ModelsNext
    <3>0. PanelInv /\ Underway(loads, panel) /\ panel.life \in Nat
      BY DEF TutorInv, PanelInv, Panel
    <3>1. LegacyInv' /\ TestsInv'
      BY <2>2, LegacyStep, TestsStep
    <3>2. CASE Tutor!OpenPanel
      <4> DEFINE life == panel.life + 1
                 from == [panel EXCEPT !.open = TRUE, !.life = life, !.models = Tutor!Unlisted, !.testing = Nothing]
      <4>1. Tutor!BeginLoad(from, FALSE)
        BY <3>0, <3>2 DEF Tutor!OpenPanel, PanelInv, Panel
      <4>2. life \in Nat
        BY <3>0
      <4>3. /\ from \in Panel /\ from.open /\ from.life = life /\ from.permitted = panel.permitted
            /\ WithinPolicy(from.models, panel.permitted)
        <5> HIDE DEF life
        <5> QED BY <3>0, <4>2 DEF PanelInv, Panel, Tutor!Unlisted, Rows, WithinPolicy
      <4> HIDE DEF from
      <4>4. PanelInv' /\ Underway(loads', panel')
        BY <4>1, <4>3, LoadBegins
      <4> QED BY <3>1, <4>4 DEF TutorInv
    <3>3. CASE Tutor!RefreshModels
      <4>1. Tutor!BeginLoad(panel, TRUE) /\ panel.open /\ ~panel.loading
        BY <3>3 DEF Tutor!RefreshModels
      <4>2. /\ panel \in Panel /\ WithinPolicy(panel.models, panel.permitted)
            /\ \A i \in DOMAIN loads : loads[i].life # panel.life
        BY <3>0, <4>1 DEF PanelInv, Underway
      <4>3. PanelInv' /\ Underway(loads', panel')
        BY <4>1, <4>2, LoadBegins
      <4> QED BY <3>1, <4>3 DEF TutorInv
    <3>4. CASE Tutor!ClosePanel \/ Tutor!ChooseModel \/ \E k \in DOMAIN tests : Tutor!ChosenTested(k)
      BY <3>1, <3>4, PanelStep DEF TutorInv
    <3>5. ASSUME NEW k \in DOMAIN loads,
                 \/ Tutor!ProvidersRead(k) \/ Tutor!ProviderCreated(k) \/ Tutor!LoadFails(k)
                 \/ Tutor!CatalogueRead(k) \/ Tutor!CandidateTested(k)
          PROVE  TutorInv'
      BY <3>1, <3>5, LoadStep DEF TutorInv, Tutor!ModelsAssumption
    <3> QED BY <2>2, <3>2, <3>3, <3>4, <3>5 DEF Tutor!ModelsNext
  <2> QED BY <2>1, <2>2
<1>3. TutorInv => Tutor!ModelsTypeOK /\ Tutor!ConnectionIsKept /\ Tutor!TestsFollowPolicy
  BY DEF TutorInv, PanelInv, Panel, Underway, LoadFollows, TestsInv, LegacyInv, Tutor!ModelsTypeOK, Tutor!Live,
     Tutor!Verdicts, Rows, Tutor!TestsFollowPolicy
<1> QED BY <1>1, <1>2, <1>3, PTL DEF Tutor!ModelsSpec

-----------------------------------------------------------------------------
(* The command dialog                                                      *)

Fetch == [repository : Repositories \cup {Nothing}, active : BOOLEAN]
Call ==
    [command : Forms!Commands, lines : SUBSET Forms!Item, done : BOOLEAN, refused : BOOLEAN, fits : BOOLEAN]
Created == [item : Forms!Item, by : Forms!Commands]

\* The choices are those of the last reading that began.
ChoicesInv ==
    /\ dialog \in Forms!Form \cup {Nothing}
    /\ fetches \subseteq Fetch
    /\ options \in [of : Repositories \cup {Nothing}, loading : BOOLEAN]
    /\ \A f \in fetches : f.active => dialog \in Forms!Form /\ f.repository = dialog.repository
    /\ dialog \in Forms!Form =>
         /\ options.of \in {Nothing, dialog.repository}
         /\ options.loading <=> \E f \in fetches : f.active

\* Lines of which none is created yet, and lines that were typed for a command.
NotCreated(lines) == \A t \in created : t.item \notin lines
LinesOf(lines, command) == \A i \in lines : i.of = command /\ i.typed <= past.typed

\* What may still be submitted is not created yet, and belongs to the command that is open.
LinesAreNew ==
    /\ past.again = {} /\ \A t \in created : t.item.of = t.by /\ t.item.typed <= past.typed
    /\ dialog \in Forms!Form =>
         /\ LinesOf(dialog.lines, dialog.command)
         /\ dialog.result # Nothing => NotCreated(dialog.result) /\ LinesOf(dialog.result, dialog.command)
         /\ calls = {} /\ dialog.result = Nothing => NotCreated(dialog.lines)
    /\ \A c \in calls :
         /\ dialog \in Forms!Form /\ dialog.command = c.command /\ dialog.result = Nothing
         /\ NotCreated(c.lines) /\ LinesOf(c.lines, c.command)
         /\ ~c.done \/ c.refused => NotCreated(dialog.lines)

CreatedInv ==
    /\ calls \subseteq Call /\ created \subseteq Created
    /\ past \in [openings : Nat, typed : 0 .. MaxTyped, again : SUBSET Created, lost : BOOLEAN, crossed : BOOLEAN]
    /\ submitting \in BOOLEAN /\ (submitting <=> calls # {})
    /\ \A c, d \in calls : c = d
    /\ ~past.lost /\ ~past.crossed => LinesAreNew

FormsInv == ChoicesInv /\ CreatedInv

LEMMA ChoicesStep ==
    ASSUME Forms!FormsAssumption, FormsInv, Forms!FormsNext
    PROVE  ChoicesInv'
<1>0. /\ ChoicesInv
      /\ calls \subseteq Call /\ past.typed \in 0 .. MaxTyped
      /\ Nothing \notin Forms!Form /\ Nothing \notin SUBSET Forms!Item
      /\ Forms!IsOpen <=> dialog \in Forms!Form
  BY DEF FormsInv, ChoicesInv, CreatedInv, Forms!FormsAssumption, Forms!IsOpen
<1>1. ASSUME UNCHANGED <<options, fetches>>,
             \/ dialog' = dialog
             \/ /\ dialog \in Forms!Form /\ dialog' \in Forms!Form
                /\ dialog'.repository = dialog.repository
      PROVE  ChoicesInv'
  BY <1>0, <1>1 DEF ChoicesInv
<1>2. /\ Forms!Abandoned \subseteq Fetch
      /\ \A f \in Forms!Abandoned : ~f.active
  BY <1>0 DEF Forms!Abandoned, ChoicesInv, Fetch
<1>3. ASSUME Forms!Closes PROVE ChoicesInv'
  BY <1>0, <1>2, <1>3 DEF Forms!Closes, ChoicesInv
<1>4. ASSUME NEW r \in Repositories \cup {Nothing}, Forms!ReadsChoices(r), dialog' \in Forms!Form, dialog'.repository = r
      PROVE  ChoicesInv'
  <2> DEFINE begun == [repository |-> r, active |-> TRUE]
             awaited == [of |-> Nothing, loading |-> TRUE]
  <2>1. fetches' = Forms!Abandoned \cup {begun} /\ options' = awaited
    BY <1>4 DEF Forms!ReadsChoices
  <2>2. begun \in Fetch /\ begun.active /\ begun.repository = r
    BY DEF Fetch
  <2>3. /\ awaited \in [of : Repositories \cup {Nothing}, loading : BOOLEAN]
        /\ awaited.of = Nothing /\ awaited.loading
    OBVIOUS
  <2> HIDE DEF begun, awaited
  <2> QED BY <1>0, <1>2, <1>4, <2>1, <2>2, <2>3 DEF ChoicesInv
<1>5. ASSUME NEW c \in Forms!Commands, Forms!RunQuickCreate(c) PROVE ChoicesInv'
  <2> DEFINE form == Forms!NewForm(c)
  <2>1. form \in Forms!Form /\ form.repository = Nothing
    BY DEF Forms!NewForm, Forms!Form
  <2> HIDE DEF form
  <2>2. dialog' = form /\ dialog \notin Forms!Form
    BY <1>0, <1>5 DEF Forms!RunQuickCreate, form
  <2>3. CASE Forms!ReadsChoices(Nothing)
    BY <1>4, <2>1, <2>2, <2>3
  <2>4. CASE options' = Forms!NoOptions /\ UNCHANGED fetches
    BY <1>0, <2>1, <2>2, <2>4 DEF ChoicesInv, Forms!NoOptions
  <2> QED BY <1>5, <2>3, <2>4 DEF Forms!RunQuickCreate
<1>6. ASSUME NEW r \in Repositories, Forms!ChooseRepository(r) PROVE ChoicesInv'
  <2>1. dialog' = [dialog EXCEPT !.repository = r] /\ Forms!ReadsChoices(r) /\ dialog \in Forms!Form
    BY <1>0, <1>6 DEF Forms!ChooseRepository
  <2>2. dialog' \in Forms!Form /\ dialog'.repository = r
    BY <2>1 DEF Forms!Form
  <2> QED BY <1>4, <2>1, <2>2
<1>7. ASSUME NEW f \in fetches, Forms!ChoicesArrive(f) PROVE ChoicesInv'
  <2>1. fetches' = fetches \ {f} /\ dialog' = dialog /\ f \in Fetch
    BY <1>0, <1>7 DEF Forms!ChoicesArrive, ChoicesInv
  <2>2. CASE f.active
    <3>1. options' = [of |-> f.repository, loading |-> FALSE] \/ options' = Forms!NoOptions
      BY <1>7, <2>2 DEF Forms!ChoicesArrive
    <3>2. /\ options' \in [of : Repositories \cup {Nothing}, loading : BOOLEAN]
          /\ options'.of \in {Nothing, f.repository} /\ ~options'.loading
      <4>1. f.repository \in Repositories \cup {Nothing}
        BY <2>1 DEF Fetch
      <4>2. CASE options' = [of |-> f.repository, loading |-> FALSE]
        BY <4>1, <4>2
      <4>3. CASE options' = Forms!NoOptions
        BY <4>3 DEF Forms!NoOptions
      <4> QED BY <3>1, <4>2, <4>3
    <3>3. ASSUME NEW g \in fetches, g.active PROVE g = f
      BY <1>0, <2>1, <2>2, <3>3 DEF ChoicesInv, Fetch
    <3> QED BY <1>0, <2>1, <2>2, <3>2, <3>3 DEF ChoicesInv
  <2>3. CASE ~f.active
    <3>1. options' = options
      BY <1>7, <2>3 DEF Forms!ChoicesArrive
    <3> QED BY <1>0, <2>1, <2>3, <3>1 DEF ChoicesInv
  <2> QED BY <2>2, <2>3
<1>8. CASE Forms!ChooseBranch
  <2>1. /\ dialog \in Forms!Form /\ UNCHANGED <<options, fetches>>
        /\ dialog' = [dialog EXCEPT !.branch = options.of]
    BY <1>0, <1>8 DEF Forms!ChooseBranch
  <2>2. options.of \in Repositories \cup {Nothing}
    BY <1>0 DEF ChoicesInv
  <2> QED BY <1>1, <2>1, <2>2 DEF Forms!Form
<1>9. CASE Forms!Type
  <2> DEFINE lines == {[of |-> dialog.command, typed |-> past.typed + 1, line |-> i] :
                         i \in IF dialog.command \in Batches THEN 1..2 ELSE {1}}
  <2>1. /\ dialog \in Forms!Form /\ UNCHANGED <<options, fetches>> /\ past.typed < MaxTyped
        /\ dialog' = [dialog EXCEPT !.lines = lines]
    BY <1>0, <1>9 DEF Forms!Type
  <2>2. lines \in SUBSET Forms!Item
    BY <1>0, <2>1 DEF Forms!Form, Forms!Item, Forms!FormsAssumption
  <2> HIDE DEF lines
  <2> QED BY <1>1, <2>1, <2>2 DEF Forms!Form
<1>10. CASE Forms!BackToEdit \/ Forms!Review \/ Forms!RetryFailedItems
  <2>1. dialog \in Forms!Form /\ UNCHANGED <<options, fetches>>
    BY <1>0, <1>10 DEF Forms!BackToEdit, Forms!Review, Forms!MaySubmit, Forms!RetryFailedItems
  <2>2. CASE Forms!BackToEdit \/ Forms!Review
    <3>1. dialog' = [dialog EXCEPT !.preview = FALSE] \/ dialog' = [dialog EXCEPT !.preview = TRUE]
      BY <2>2 DEF Forms!BackToEdit, Forms!Review
    <3>2. dialog' \in Forms!Form /\ dialog'.repository = dialog.repository
      BY <2>1, <3>1 DEF Forms!Form
    <3> QED BY <1>1, <2>1, <3>2
  <2>3. CASE Forms!RetryFailedItems
    <3>1. /\ dialog' = [dialog EXCEPT !.lines = dialog.result, !.result = Nothing, !.preview = FALSE]
          /\ dialog.result # Nothing
      BY <2>3 DEF Forms!RetryFailedItems
    <3>2. dialog' \in Forms!Form /\ dialog'.repository = dialog.repository
      BY <2>1, <3>1 DEF Forms!Form
    <3> QED BY <1>1, <2>1, <3>2
  <2> QED BY <1>10, <2>2, <2>3
<1>11. CASE Forms!CloseDialog \/ Forms!Finish
  BY <1>3, <1>11 DEF Forms!CloseDialog, Forms!Finish
<1>12. CASE Forms!ExecuteCommand
  BY <1>1, <1>12 DEF Forms!ExecuteCommand
<1>13. ASSUME NEW c \in calls, Forms!ServerRuns(c) \/ Forms!CallFails(c) PROVE ChoicesInv'
  <2>1. UNCHANGED <<dialog, options, fetches>>
    BY <1>13, Zenon DEF Forms!ServerRuns, Forms!CallFails
  <2> QED BY <1>1, <2>1
<1>14. ASSUME NEW c \in calls, Forms!Answers(c) PROVE ChoicesInv'
  <2>1. c.lines \in SUBSET Forms!Item
    BY <1>0 DEF Call
  <2>2. CASE Forms!Closes \/ UNCHANGED <<dialog, options, fetches>>
    BY <1>1, <1>3, <2>2
  <2>3. CASE /\ dialog \in Forms!Form /\ dialog' = [dialog EXCEPT !.result = c.lines]
             /\ UNCHANGED <<options, fetches>>
    <3>1. dialog' \in Forms!Form /\ dialog'.repository = dialog.repository
      BY <2>1, <2>3 DEF Forms!Form
    <3> QED BY <1>1, <2>3, <3>1
  <2> QED BY <1>0, <1>14, <2>2, <2>3 DEF Forms!Answers
<1> QED BY <1>5, <1>6, <1>7, <1>8, <1>9, <1>10, <1>11, <1>12, <1>13, <1>14 DEF Forms!FormsNext

LEMMA CreatedStep ==
    ASSUME Forms!FormsAssumption, FormsInv, Forms!FormsNext
    PROVE  CreatedInv'
<1>0. /\ CreatedInv /\ calls \subseteq Call /\ created \subseteq Created
      /\ past \in [openings : Nat, typed : 0 .. MaxTyped, again : SUBSET Created, lost : BOOLEAN, crossed : BOOLEAN]
      /\ dialog \in Forms!Form \cup {Nothing} /\ MaxTyped \in Nat
      /\ Nothing \notin Forms!Form /\ Nothing \notin SUBSET Forms!Item
      /\ Forms!IsOpen <=> dialog \in Forms!Form
  BY DEF FormsInv, ChoicesInv, CreatedInv, Forms!FormsAssumption, Forms!IsOpen
<1>1. ASSUME UNCHANGED <<submitting, calls, created>>, past'.typed = past.typed,
             past' \in [openings : Nat, typed : 0 .. MaxTyped, again : SUBSET Created, lost : BOOLEAN, crossed : BOOLEAN],
             ~past'.lost /\ ~past'.crossed /\ LinesAreNew => LinesAreNew',
             ~past'.lost /\ ~past'.crossed => ~past.lost /\ ~past.crossed
      PROVE  CreatedInv'
  BY <1>0, <1>1 DEF CreatedInv
<1>1a. ASSUME UNCHANGED <<submitting, calls, created>>,
             past' \in [openings : Nat, typed : 0 .. MaxTyped, again : SUBSET Created, lost : BOOLEAN, crossed : BOOLEAN],
             past'.lost = past.lost, past'.crossed = past.crossed, LinesAreNew => LinesAreNew'
      PROVE  CreatedInv'
  BY <1>0, <1>1a DEF CreatedInv
<1>2. ASSUME UNCHANGED <<submitting, calls, created, past>>, LinesAreNew => LinesAreNew'
      PROVE  CreatedInv'
  BY <1>0, <1>2 DEF CreatedInv
<1>3. ASSUME dialog' = dialog, UNCHANGED <<submitting, calls, created, past>> PROVE CreatedInv'
  BY <1>0, <1>3 DEF CreatedInv, LinesAreNew, NotCreated, LinesOf
<1>4. ASSUME NEW c \in Forms!Commands, Forms!RunQuickCreate(c) PROVE CreatedInv'
  <2> DEFINE form == Forms!NewForm(c)
             n == past.openings + 1
  <2>1. form.lines = {} /\ form.result = Nothing
    BY DEF Forms!NewForm
  <2> HIDE DEF form
  <2>2. /\ dialog' = form /\ dialog \notin Forms!Form /\ UNCHANGED <<submitting, calls, created>>
        /\ past' = [past EXCEPT !.openings = n]
    BY <1>0, <1>4 DEF Forms!RunQuickCreate, form
  <2>3. n \in Nat
    BY <1>0
  <2> HIDE DEF n
  <2>4. /\ past' \in [openings : Nat, typed : 0 .. MaxTyped, again : SUBSET Created, lost : BOOLEAN, crossed : BOOLEAN]
        /\ past'.typed = past.typed /\ past'.again = past.again /\ past'.lost = past.lost
        /\ past'.crossed = past.crossed
    BY <1>0, <2>2, <2>3
  <2>5. LinesAreNew => LinesAreNew'
    BY <2>1, <2>2, <2>4 DEF LinesAreNew, NotCreated, LinesOf
  <2> QED BY <1>1, <2>2, <2>4, <2>5
<1>5. CASE Forms!CloseDialog
  <2> DEFINE crossed == past.crossed \/ submitting
  <2>1. /\ dialog' = Nothing /\ UNCHANGED <<submitting, calls, created>>
        /\ past' = [past EXCEPT !.crossed = crossed]
    BY <1>5 DEF Forms!CloseDialog, Forms!Closes
  <2>2. crossed \in BOOLEAN /\ (~crossed => ~past.crossed /\ calls = {})
    BY <1>0 DEF CreatedInv
  <2> HIDE DEF crossed
  <2>3. /\ past' \in [openings : Nat, typed : 0 .. MaxTyped, again : SUBSET Created, lost : BOOLEAN, crossed : BOOLEAN]
        /\ past'.typed = past.typed /\ past'.again = past.again /\ past'.lost = past.lost
        /\ past'.crossed = crossed
    BY <1>0, <2>1, <2>2
  <2>4. ~crossed /\ LinesAreNew => LinesAreNew'
    BY <1>0, <2>1, <2>2, <2>3 DEF LinesAreNew
  <2> QED BY <1>1, <2>1, <2>2, <2>3, <2>4
<1>6. CASE Forms!Finish
  <2>1. dialog' = Nothing /\ UNCHANGED <<submitting, calls, created, past>> /\ ~submitting
    BY <1>6 DEF Forms!Finish, Forms!Closes, Forms!MaySubmit
  <2>2. calls = {}
    BY <1>0, <2>1 DEF CreatedInv
  <2> QED BY <1>0, <1>2, <2>1, <2>2 DEF LinesAreNew
<1>7. ASSUME UNCHANGED <<submitting, calls, created, past>>, dialog \in Forms!Form, dialog' \in Forms!Form,
             dialog'.command = dialog.command, dialog'.lines = dialog.lines, dialog'.result = dialog.result
      PROVE  CreatedInv'
  BY <1>2, <1>7 DEF LinesAreNew, NotCreated, LinesOf
<1>8. ASSUME NEW r \in Repositories, Forms!ChooseRepository(r) PROVE CreatedInv'
  <2>1. /\ dialog' = [dialog EXCEPT !.repository = r] /\ dialog \in Forms!Form
        /\ UNCHANGED <<submitting, calls, created, past>>
    BY <1>0, <1>8 DEF Forms!ChooseRepository
  <2>2. /\ dialog' \in Forms!Form /\ dialog'.command = dialog.command /\ dialog'.lines = dialog.lines
        /\ dialog'.result = dialog.result
    BY <2>1 DEF Forms!Form
  <2> QED BY <1>7, <2>1, <2>2
<1>9. CASE Forms!ChooseBranch
  <2>1. /\ dialog' = [dialog EXCEPT !.branch = options.of] /\ dialog \in Forms!Form
        /\ UNCHANGED <<submitting, calls, created, past>>
    BY <1>0, <1>9 DEF Forms!ChooseBranch
  <2>2. options.of \in Repositories \cup {Nothing}
    BY DEF FormsInv, ChoicesInv
  <2>3. /\ dialog' \in Forms!Form /\ dialog'.command = dialog.command /\ dialog'.lines = dialog.lines
        /\ dialog'.result = dialog.result
    BY <2>1, <2>2 DEF Forms!Form
  <2> QED BY <1>7, <2>1, <2>3
<1>10. CASE Forms!BackToEdit \/ Forms!Review
  <2>1. /\ dialog \in Forms!Form /\ UNCHANGED <<submitting, calls, created, past>>
        /\ dialog' = [dialog EXCEPT !.preview = FALSE] \/ dialog' = [dialog EXCEPT !.preview = TRUE]
    BY <1>0, <1>10 DEF Forms!BackToEdit, Forms!Review, Forms!MaySubmit
  <2>2. /\ dialog' \in Forms!Form /\ dialog'.command = dialog.command /\ dialog'.lines = dialog.lines
        /\ dialog'.result = dialog.result
    BY <2>1 DEF Forms!Form
  <2> QED BY <1>7, <2>1, <2>2
<1>11. CASE Forms!Type
  <2> DEFINE n == past.typed + 1
             lines == {[of |-> dialog.command, typed |-> n, line |-> i] :
                         i \in IF dialog.command \in Batches THEN 1..2 ELSE {1}}
  <2>1. /\ dialog \in Forms!Form /\ past.typed < MaxTyped /\ dialog.result = Nothing
        /\ dialog' = [dialog EXCEPT !.lines = lines]
        /\ past' = [past EXCEPT !.typed = n]
        /\ UNCHANGED <<submitting, calls, created>>
    BY <1>0, <1>11 DEF Forms!Type
  <2>2. n \in 1 .. MaxTyped
    BY <1>0, <2>1
  <2>3. /\ past' \in [openings : Nat, typed : 0 .. MaxTyped, again : SUBSET Created, lost : BOOLEAN, crossed : BOOLEAN]
        /\ past'.typed = n /\ past'.again = past.again /\ past'.lost = past.lost /\ past'.crossed = past.crossed
    <3> HIDE DEF n
    <3> QED BY <1>0, <2>1, <2>2
  <2>4. past.typed < n /\ past.typed \in Nat
    BY <1>0
  <2> HIDE DEF n
  <2>5. \A i \in lines : i.of = dialog.command /\ i.typed = n
    OBVIOUS
  <2>6. lines \in SUBSET Forms!Item
    BY <1>0, <2>1, <2>2 DEF Forms!Form, Forms!Item
  <2> HIDE DEF lines
  <2>7. dialog'.lines = lines /\ dialog'.command = dialog.command /\ dialog'.result = Nothing /\ dialog' \in Forms!Form
    BY <2>1, <2>6 DEF Forms!Form
  <2>8. LinesAreNew => LinesAreNew'
    <3> SUFFICES ASSUME LinesAreNew PROVE LinesAreNew'
      OBVIOUS
    <3>1. ASSUME NEW i \in Forms!Item, i.typed <= past.typed PROVE i.typed <= n /\ i.typed # n
      BY <2>2, <2>4, <3>1 DEF Forms!Item
    <3>2. \A t \in created : t.item.of = t.by /\ t.item.typed <= n /\ t.item \notin lines
      BY <1>0, <2>5, <3>1 DEF LinesAreNew, Created
    <3>3. ASSUME NEW c \in calls
          PROVE  /\ dialog.command = c.command /\ NotCreated(c.lines)
                 /\ \A i \in c.lines : i.of = c.command /\ i.typed <= n
      BY <1>0, <3>1 DEF LinesAreNew, LinesOf, Call
    <3>4. n <= n
      BY <2>2
    <3> QED BY <2>1, <2>3, <2>5, <2>7, <3>2, <3>3, <3>4 DEF LinesAreNew, NotCreated, LinesOf
  <2> QED BY <1>1a, <2>1, <2>3, <2>8
<1>12. CASE Forms!ExecuteCommand
  <2> DEFINE new == [command |-> dialog.command, lines |-> dialog.lines, done |-> FALSE, refused |-> FALSE,
                     fits |-> dialog.branch \in {Nothing, dialog.repository}]
  <2>1. /\ dialog \in Forms!Form /\ dialog.result = Nothing /\ calls' = calls \cup {new} /\ submitting' = TRUE
        /\ UNCHANGED <<dialog, created, past>> /\ ~submitting
    BY <1>0, <1>12 DEF Forms!ExecuteCommand, Forms!MaySubmit
  <2>2. calls = {}
    BY <1>0, <2>1 DEF CreatedInv
  <2>3. new \in Call /\ new.command = dialog.command /\ new.lines = dialog.lines /\ ~new.done /\ ~new.refused
    BY <2>1 DEF Call, Forms!Form
  <2> HIDE DEF new
  <2>4. LinesAreNew => LinesAreNew'
    BY <2>1, <2>2, <2>3 DEF LinesAreNew, NotCreated, LinesOf
  <2> QED BY <1>0, <2>1, <2>2, <2>3, <2>4 DEF CreatedInv
<1>13. ASSUME NEW c \in calls, Forms!ServerRuns(c) PROVE CreatedInv'
  <2>1. PICK made \in SUBSET c.lines :
          /\ ~c.fits => made = {}
          /\ LET new == {[item |-> i, by |-> c.command] : i \in made}
             IN /\ created' = created \cup new
                /\ past' = [past EXCEPT !.again = @ \cup (new \cap created)]
          /\ calls' = (calls \ {c}) \cup
               {[c EXCEPT !.done = TRUE, !.lines = @ \ made, !.refused = c.command \in Singles /\ made = {}]}
    BY <1>13, Zenon DEF Forms!ServerRuns
  <2> DEFINE new == {[item |-> i, by |-> c.command] : i \in made}
             again == past.again \cup (new \cap created)
             left == c.lines \ made
             refused == c.command \in Singles /\ made = {}
             answered == [c EXCEPT !.done = TRUE, !.lines = left, !.refused = refused]
  <2>2. /\ ~c.done /\ UNCHANGED <<dialog, submitting>> /\ created' = created \cup new
        /\ past' = [past EXCEPT !.again = again] /\ c \in Call
    <3>1. ~c.done /\ UNCHANGED <<dialog, submitting>> /\ c \in Call
      BY <1>0, <1>13, Zenon DEF Forms!ServerRuns
    <3>2. created' = created \cup new
      BY <2>1, Zenon
    <3>3. past' = [past EXCEPT !.again = @ \cup (new \cap created)]
      BY <2>1, Zenon
    <3> HIDE DEF new
    <3> QED BY <1>0, <3>1, <3>2, <3>3
  <2>3. calls' = {answered}
    <3>1. calls \ {c} = {}
      BY <1>0 DEF CreatedInv
    <3>2. calls' = (calls \ {c}) \cup
            {[c EXCEPT !.done = TRUE, !.lines = @ \ made, !.refused = c.command \in Singles /\ made = {}]}
      BY <2>1, Zenon
    <3>3. [c EXCEPT !.done = TRUE, !.lines = @ \ made, !.refused = c.command \in Singles /\ made = {}] = answered
      BY <2>2 DEF Call
    <3> QED BY <3>1, <3>2, <3>3, Zenon
  <2>4. made \subseteq c.lines /\ c.lines \in SUBSET Forms!Item /\ c.command \in Forms!Commands
    BY <2>2 DEF Call
  <2>5. /\ new \subseteq Created
        /\ \A t \in new : t.item \in made /\ t.by = c.command
    BY <2>4 DEF Created
  <2>6. refused \in BOOLEAN /\ left \in SUBSET Forms!Item /\ (refused => made = {})
    BY <2>4
  <2>7. made = {} => new = {}
    OBVIOUS
  <2> HIDE DEF new, refused, left
  <2>8. /\ answered \in Call /\ answered.done /\ answered.lines = left /\ answered.refused = refused
        /\ answered.command = c.command
    BY <2>2, <2>6 DEF Call
  <2> HIDE DEF answered
  <2>9. again \in SUBSET Created
    BY <1>0
  <2> HIDE DEF again
  <2>10. /\ past' \in [openings : Nat, typed : 0 .. MaxTyped, again : SUBSET Created, lost : BOOLEAN, crossed : BOOLEAN]
         /\ past'.typed = past.typed /\ past'.again = again /\ past'.lost = past.lost
         /\ past'.crossed = past.crossed
    BY <1>0, <2>2, <2>9
  <2>11. LinesAreNew => LinesAreNew'
    <3> SUFFICES ASSUME LinesAreNew PROVE LinesAreNew'
      OBVIOUS
    <3>1. /\ NotCreated(c.lines) /\ LinesOf(c.lines, c.command) /\ NotCreated(dialog.lines)
          /\ dialog \in Forms!Form /\ dialog.command = c.command /\ dialog.result = Nothing
          /\ LinesOf(dialog.lines, dialog.command)
      BY <2>2 DEF LinesAreNew
    <3>2. new \cap created = {}
      BY <2>4, <2>5, <3>1 DEF NotCreated
    <3>3. again = {}
      BY <3>2 DEF again, LinesAreNew
    <3>4. \A t \in created' : t.item.of = t.by /\ t.item.typed <= past'.typed
      BY <2>2, <2>4, <2>5, <2>10, <3>1 DEF LinesAreNew, LinesOf
    <3>5. \A t \in created' : t.item \notin left
      BY <2>2, <2>4, <2>5, <3>1 DEF NotCreated, left
    <3>6. refused => \A t \in created' : t.item \notin dialog.lines
      BY <2>2, <2>6, <2>7, <3>1 DEF NotCreated
    <3>7. LinesOf(left, c.command)
      BY <3>1 DEF LinesOf, left
    <3>8. dialog' = dialog /\ past'.again = {} /\ calls' # {}
      BY <2>2, <2>3, <2>10, <3>3
    <3>9. ASSUME NEW d \in calls'
          PROVE  d.command = c.command /\ d.lines = left /\ d.done /\ d.refused = refused
      BY <2>3, <2>8
    <3> QED BY <2>10, <3>1, <3>4, <3>5, <3>6, <3>7, <3>8, <3>9 DEF LinesAreNew, NotCreated, LinesOf
  <2>12. /\ calls' \subseteq Call /\ calls' # {} /\ \A d, e \in calls' : d = e
         /\ submitting' \in BOOLEAN /\ submitting'
    BY <1>0, <2>2, <2>3, <2>8 DEF CreatedInv
  <2>13. created' \subseteq Created
    BY <1>0, <2>2, <2>5
  <2> QED BY <1>0, <2>10, <2>11, <2>12, <2>13 DEF CreatedInv
<1>14. ASSUME NEW c \in calls, Forms!Answers(c) PROVE CreatedInv'
  <2>1. /\ c.done /\ calls' = calls \ {c} /\ submitting' = FALSE /\ UNCHANGED <<created, past>>
        /\ c.lines \in SUBSET Forms!Item
    BY <1>0, <1>14 DEF Forms!Answers, Call
  <2>2. calls' = {}
    BY <1>0, <2>1 DEF CreatedInv
  <2>3. \/ c.refused /\ dialog' = dialog
        \/ dialog' = Nothing
        \/ dialog \in Forms!Form /\ dialog' = [dialog EXCEPT !.result = c.lines]
    BY <1>0, <1>14 DEF Forms!Answers, Forms!Closes
  <2>4. LinesAreNew => LinesAreNew'
    <3> SUFFICES ASSUME LinesAreNew PROVE LinesAreNew'
      OBVIOUS
    <3>1. /\ dialog \in Forms!Form /\ dialog.command = c.command /\ dialog.result = Nothing
          /\ NotCreated(c.lines) /\ LinesOf(c.lines, c.command) /\ LinesOf(dialog.lines, dialog.command)
          /\ c.refused => NotCreated(dialog.lines)
      BY DEF LinesAreNew
    <3>2. CASE c.refused /\ dialog' = dialog
      BY <2>1, <2>2, <3>1, <3>2 DEF LinesAreNew, NotCreated, LinesOf
    <3>3. CASE dialog' = Nothing
      BY <1>0, <2>1, <2>2, <3>3 DEF LinesAreNew
    <3>4. CASE dialog' = [dialog EXCEPT !.result = c.lines]
      <4>1. dialog'.lines = dialog.lines /\ dialog'.command = dialog.command /\ dialog'.result = c.lines
        BY <3>1, <3>4 DEF Forms!Form
      <4>2. c.lines # Nothing
        BY <1>0, <2>1
      <4> QED BY <2>1, <2>2, <3>1, <4>1, <4>2 DEF LinesAreNew, NotCreated, LinesOf
    <3> QED BY <2>3, <3>2, <3>3, <3>4
  <2> QED BY <1>0, <2>1, <2>2, <2>4 DEF CreatedInv
<1>15. ASSUME NEW c \in calls, Forms!CallFails(c) PROVE CreatedInv'
  <2> DEFINE lost == past.lost \/ c.done
  <2>1. /\ calls' = calls \ {c} /\ submitting' = FALSE /\ UNCHANGED <<created, dialog>>
        /\ past' = [past EXCEPT !.lost = lost] /\ c \in Call
    BY <1>0, <1>15 DEF Forms!CallFails
  <2>2. calls' = {}
    BY <1>0, <2>1 DEF CreatedInv
  <2>3. lost \in BOOLEAN /\ (~lost => ~past.lost /\ ~c.done)
    BY <1>0, <2>1 DEF Call
  <2> HIDE DEF lost
  <2>4. /\ past' \in [openings : Nat, typed : 0 .. MaxTyped, again : SUBSET Created, lost : BOOLEAN, crossed : BOOLEAN]
        /\ past'.typed = past.typed /\ past'.again = past.again /\ past'.lost = lost
        /\ past'.crossed = past.crossed
    BY <1>0, <2>1, <2>3
  <2>5. ~lost /\ LinesAreNew => LinesAreNew'
    BY <2>1, <2>2, <2>3, <2>4 DEF LinesAreNew, NotCreated, LinesOf
  <2> QED BY <1>0, <2>1, <2>2, <2>3, <2>4, <2>5 DEF CreatedInv
<1>16. CASE Forms!RetryFailedItems
  <2>1. /\ dialog \in Forms!Form /\ dialog.result # Nothing /\ UNCHANGED <<submitting, calls, created, past>>
        /\ dialog' = [dialog EXCEPT !.lines = dialog.result, !.result = Nothing, !.preview = FALSE]
    BY <1>0, <1>16 DEF Forms!RetryFailedItems
  <2>2. dialog'.lines = dialog.result /\ dialog'.command = dialog.command /\ dialog'.result = Nothing
    BY <2>1 DEF Forms!Form
  <2>3. LinesAreNew => LinesAreNew'
    <3> SUFFICES ASSUME LinesAreNew PROVE LinesAreNew'
      OBVIOUS
    <3>1. calls = {} /\ NotCreated(dialog.result) /\ LinesOf(dialog.result, dialog.command)
      BY <2>1 DEF LinesAreNew
    <3> QED BY <2>1, <2>2, <3>1 DEF LinesAreNew, NotCreated, LinesOf
  <2> QED BY <1>2, <2>1, <2>3
<1>17. ASSUME NEW f \in fetches, Forms!ChoicesArrive(f) PROVE CreatedInv'
  BY <1>3, <1>17 DEF Forms!ChoicesArrive
<1> QED BY <1>4, <1>5, <1>6, <1>8, <1>9, <1>10, <1>11, <1>12, <1>13, <1>14, <1>15, <1>16, <1>17 DEF Forms!FormsNext

(* What is typed into a form of the web client is created once and by its    *)
(* own command, and the branches offered are those of the repository chosen  *)
(* (CommandRunner.tsx): for any commands, repositories and number of calls,  *)
(* however the dialog is closed and opened while they run, and in whatever   *)
(* order choices and answers come.                                           *)
THEOREM TypedIsCreatedOnce ==
    ASSUME Forms!FormsAssumption
    PROVE  Forms!FormsSpec => [](Forms!FormsTypeOK /\ Forms!ChoicesAreOwn /\ Forms!CreatedOnce)
<1>1. Forms!FormsInit => FormsInv
  <2> SUFFICES ASSUME Forms!FormsInit PROVE FormsInv
    OBVIOUS
  <2>1. MaxTyped \in Nat /\ Nothing \notin Forms!Form
    BY DEF Forms!FormsAssumption
  <2>2. ChoicesInv
    BY <2>1 DEF Forms!FormsInit, Forms!NoOptions, ChoicesInv
  <2>3. CreatedInv
    <3>1. /\ past = [openings |-> 0, typed |-> 0, again |-> {}, lost |-> FALSE, crossed |-> FALSE]
          /\ dialog = Nothing /\ submitting = FALSE /\ calls = {} /\ created = {}
      BY DEF Forms!FormsInit
    <3>2. 0 \in 0 .. MaxTyped /\ {} \in SUBSET Created
      BY <2>1
    <3>3. past \in [openings : Nat, typed : 0 .. MaxTyped, again : SUBSET Created, lost : BOOLEAN, crossed : BOOLEAN]
      BY <3>1, <3>2
    <3> QED BY <2>1, <3>1, <3>3 DEF CreatedInv, LinesAreNew
  <2> QED BY <2>2, <2>3 DEF FormsInv
<1>2. FormsInv /\ [Forms!FormsNext]_(Forms!formVars) => FormsInv'
  <2> SUFFICES ASSUME FormsInv, [Forms!FormsNext]_(Forms!formVars) PROVE FormsInv'
    OBVIOUS
  <2>1. CASE UNCHANGED Forms!formVars
    BY <2>1 DEF Forms!formVars, FormsInv, ChoicesInv, CreatedInv, LinesAreNew, NotCreated, LinesOf
  <2>2. CASE Forms!FormsNext
    BY <2>2, ChoicesStep, CreatedStep DEF FormsInv
  <2> QED BY <2>1, <2>2
<1>3. FormsInv => Forms!FormsTypeOK /\ Forms!ChoicesAreOwn /\ Forms!CreatedOnce
  <2> SUFFICES ASSUME FormsInv PROVE Forms!FormsTypeOK /\ Forms!ChoicesAreOwn /\ Forms!CreatedOnce
    OBVIOUS
  <2>1. Forms!FormsTypeOK
    BY DEF FormsInv, ChoicesInv, CreatedInv, Created, Forms!FormsTypeOK
  <2>2. Forms!ChoicesAreOwn
    BY DEF FormsInv, ChoicesInv, Forms!ChoicesAreOwn, Forms!IsOpen
  <2>3. Forms!CreatedOnce
    BY DEF FormsInv, CreatedInv, LinesAreNew, Forms!CreatedOnce
  <2> QED BY <2>1, <2>2, <2>3
<1> QED BY <1>1, <1>2, <1>3, PTL DEF Forms!FormsSpec

-----------------------------------------------------------------------------
(* Notices and chimes                                                      *)

Waiting == [of : Nat, token : Nat, silenced : BOOLEAN]
Bus == [of : Nat, token : Nat, silenced : BOOLEAN, timer : BOOLEAN]
Sound ==
    [enabled : BOOLEAN, audio : {"none", "suspended", "running"}, version : Nat,
     waiting : SUBSET Waiting, buses : SUBSET Bus]

\* Of the chimes asked for so far: those that wait, of which a stop silences the earlier ones,
\* and those that sound.
WaitsInTune(s, chimes) ==
    \A w \in s.waiting : /\ w.of \in 1 .. chimes
                         /\ w.token <= s.version /\ (w.token = s.version => ~w.silenced)
BusesInTune(s, chimes) ==
    \A b \in s.buses : b.of \in 1 .. chimes /\ b.token = s.version /\ s.enabled /\ ~b.silenced /\ b.timer

InTune(s, chimes) ==
    /\ s \in Sound /\ WaitsInTune(s, chimes) /\ BusesInTune(s, chimes)
    /\ s.audio = "running" => s.waiting = {}

\* Chimes that waited go on.
LEMMA ActivatedInTune ==
    ASSUME NEW s \in Sound, NEW chimes \in Nat, WaitsInTune(s, chimes), BusesInTune(s, chimes)
    PROVE  InTune(Sounds!Activated(s), chimes) /\ Sounds!Activated(s).version = s.version
<1> DEFINE allowed == {w \in s.waiting : s.enabled /\ w.token = s.version}
           new == {[of |-> c.of, token |-> c.token, silenced |-> c.silenced, timer |-> TRUE] : c \in allowed}
           buses == s.buses \cup new
           now == [s EXCEPT !.audio = "running", !.waiting = {}, !.buses = buses]
<1>1. s.waiting \subseteq Waiting /\ s.buses \subseteq Bus
  BY DEF Sound
<1>2. \A c \in allowed : c \in Waiting /\ c.of \in 1 .. chimes /\ c.token = s.version /\ s.enabled /\ ~c.silenced
  BY <1>1 DEF WaitsInTune
<1> HIDE DEF allowed
<1>3. /\ new \subseteq Bus
      /\ \A b \in new : b.of \in 1 .. chimes /\ b.token = s.version /\ s.enabled /\ ~b.silenced /\ b.timer
  <2>1. ASSUME NEW c \in allowed,
               NEW b, b = [of |-> c.of, token |-> c.token, silenced |-> c.silenced, timer |-> TRUE]
        PROVE  /\ b \in Bus
               /\ b.of \in 1 .. chimes /\ b.token = s.version /\ s.enabled /\ ~b.silenced /\ b.timer
    <3>1. /\ c.of \in Nat /\ c.token \in Nat /\ c.silenced \in BOOLEAN
          /\ c.of \in 1 .. chimes /\ c.token = s.version /\ s.enabled /\ ~c.silenced
      BY <1>2 DEF Waiting
    <3> QED BY <2>1, <3>1 DEF Bus
  <2> QED BY <2>1
<1>4. Sounds!Activated(s) = now
  BY DEF Sounds!Activated, Sound, allowed
<1> HIDE DEF new
<1>5. buses \in SUBSET Bus
  BY <1>1, <1>3
<1>6. \A b \in buses : b.of \in 1 .. chimes /\ b.token = s.version /\ s.enabled /\ ~b.silenced /\ b.timer
  BY <1>3 DEF BusesInTune
<1> HIDE DEF buses
<1>7. /\ now \in Sound /\ now.audio = "running" /\ now.waiting = {} /\ now.buses = buses
      /\ now.version = s.version /\ now.enabled = s.enabled
  BY <1>5 DEF Sound
<1> HIDE DEF now
<1> QED BY <1>4, <1>6, <1>7 DEF InTune, WaitsInTune, BusesInTune

\* Sounds are stopped, also while they are turned off.
LEMMA StoppedInTune ==
    ASSUME NEW s \in Sound, NEW chimes \in Nat, WaitsInTune(s, chimes), s.audio = "running" => s.waiting = {}
    PROVE  InTune(Sounds!Stopped(s), chimes)
<1> DEFINE version == s.version + 1
           waiting == {[w EXCEPT !.silenced = TRUE] : w \in s.waiting}
           now == [s EXCEPT !.version = version, !.buses = {}, !.waiting = waiting]
<1>1. s.waiting \subseteq Waiting /\ s.version \in Nat
  BY DEF Sound
<1>2. ASSUME NEW w \in s.waiting
      PROVE  /\ [w EXCEPT !.silenced = TRUE] \in Waiting
             /\ [w EXCEPT !.silenced = TRUE].of = w.of /\ [w EXCEPT !.silenced = TRUE].token = w.token
             /\ w.of \in 1 .. chimes /\ w.token <= s.version /\ w.token \in Nat
  BY <1>1 DEF Waiting, WaitsInTune
<1>3. waiting \in SUBSET Waiting /\ \A w \in waiting : w.of \in 1 .. chimes /\ w.token <= s.version /\ w.token \in Nat
  BY <1>2
<1>4. Sounds!Stopped(s) = now
  BY DEF Sounds!Stopped, Sound
<1>5. s.waiting = {} => waiting = {}
  OBVIOUS
<1> HIDE DEF waiting
<1>6. version \in Nat /\ s.version < version
  BY <1>1
<1>7. \A w \in waiting : w.token <= version /\ w.token # version
  BY <1>1, <1>3, <1>6
<1> HIDE DEF version
<1>8. /\ now \in Sound /\ now.audio = s.audio /\ now.waiting = waiting /\ now.buses = {} /\ now.version = version
  BY <1>3, <1>6 DEF Sound
<1> HIDE DEF now
<1> QED BY <1>3, <1>4, <1>5, <1>7, <1>8 DEF InTune, WaitsInTune, BusesInTune

\* A chime is asked for.
LEMMA ChimesInTune ==
    ASSUME NEW s, history.chimes \in Nat, InTune(s, history.chimes), NEW now \in Sounds!Chimes(s)
    PROVE  InTune(now, history.chimes + 1)
<1> DEFINE n == history.chimes + 1
           new == [of |-> n, token |-> s.version, silenced |-> FALSE]
           waiting == s.waiting \cup {new}
           asked == [s EXCEPT !.waiting = waiting]
<1>1. s \in Sound /\ s.version \in Nat /\ s.waiting \subseteq Waiting /\ WaitsInTune(s, history.chimes)
  BY DEF InTune, Sound
<1>2. n \in Nat /\ n \in 1 .. n /\ \A i \in 1 .. history.chimes : i \in 1 .. n
  OBVIOUS
<1>3. WaitsInTune(s, n) /\ BusesInTune(s, n) /\ InTune(s, n)
  BY <1>2 DEF InTune, WaitsInTune, BusesInTune
<1>4. \/ now = s
      \/ now = Sounds!Activated(asked)
      \/ s.audio # "running" /\ now = [asked EXCEPT !.audio = "suspended"]
  <2>1. /\ ~s.enabled => now = s
        /\ s.enabled /\ s.audio = "running" => now = Sounds!Activated(asked)
        /\ s.enabled /\ s.audio # "running" =>
             now = Sounds!Activated(asked) \/ now = [asked EXCEPT !.audio = "suspended"]
    BY <1>1 DEF Sounds!Chimes, Sound
  <2> QED BY <2>1
<1>5. new \in Waiting /\ new.of = n /\ new.token = s.version /\ ~new.silenced
  BY <1>1, <1>2 DEF Waiting
<1> HIDE DEF n, new
<1>6. waiting \in SUBSET Waiting
  BY <1>1, <1>5
<1>7. \A w \in waiting : w.of \in 1 .. n /\ w.token <= s.version /\ (w.token = s.version => ~w.silenced)
  BY <1>1, <1>2, <1>3, <1>5 DEF WaitsInTune
<1> HIDE DEF waiting
<1>8. /\ asked \in Sound /\ asked.waiting = waiting /\ asked.buses = s.buses /\ asked.version = s.version
      /\ asked.enabled = s.enabled
  BY <1>1, <1>6 DEF Sound
<1> HIDE DEF asked
<1>9. WaitsInTune(asked, n) /\ BusesInTune(asked, n)
  BY <1>3, <1>7, <1>8 DEF WaitsInTune, BusesInTune
<1>10. InTune(Sounds!Activated(asked), n)
  BY <1>2, <1>8, <1>9, ActivatedInTune
<1>11. InTune([asked EXCEPT !.audio = "suspended"], n)
  <2> DEFINE held == [asked EXCEPT !.audio = "suspended"]
  <2>1. /\ held \in Sound /\ held.waiting = asked.waiting /\ held.buses = asked.buses /\ held.audio = "suspended"
        /\ held.version = asked.version /\ held.enabled = asked.enabled
    BY <1>8 DEF Sound
  <2> HIDE DEF held
  <2>2. InTune(held, n)
    BY <1>9, <2>1 DEF InTune, WaitsInTune, BusesInTune
  <2> QED BY <2>2 DEF held
<1> QED BY <1>3, <1>4, <1>10, <1>11 DEF n

\* A notice of one list, the newest of `notices`, and the newest one of a list.
Window(notices) == {x \in 1 .. notices : x + Limit > notices}
Newest(list) == IF list = {} THEN 0 ELSE CHOOSE x \in list : \A y \in list : y <= x
Listed(list) == Newest(list) \in 0 .. history.notices /\ list = Window(Newest(list))

LEMMA NewestOfWindow ==
    ASSUME Limit \in Nat \ {0}, NEW n \in Nat
    PROVE  Newest(Window(n)) = n
<1>1. CASE n = 0
  BY <1>1 DEF Newest, Window
<1>2. CASE n # 0
  <2>1. n \in Window(n) /\ \A y \in Window(n) : y \in Nat /\ y <= n
    BY <1>2 DEF Window
  <2> DEFINE top == CHOOSE x \in Window(n) : \A y \in Window(n) : y <= x
  <2>2. \E x \in Window(n) : \A y \in Window(n) : y <= x
    BY <2>1
  <2>3. top \in Window(n) /\ \A y \in Window(n) : y <= top
    BY <2>2
  <2>4. Newest(Window(n)) = top
    BY <2>1 DEF Newest
  <2> HIDE DEF top
  <2>5. top \in Nat /\ top <= n /\ n <= top
    BY <2>1, <2>3
  <2> QED BY <2>4, <2>5
<1> QED BY <1>1, <1>2

Poll == [listed : SUBSET Nat, late : BOOLEAN]
History ==
    [notices : 0 .. MaxNotices, chimes : Nat, known : SUBSET Nat, announced : SUBSET Nat,
     again : SUBSET Nat, deleted : BOOLEAN, crossed : BOOLEAN]

InboxInv ==
    /\ inbox \in Seq(Nat) /\ \A i \in DOMAIN inbox : inbox[i] \in 1 .. history.notices
    /\ polls \in Seq(Poll) /\ \A i \in DOMAIN polls : polls[i].listed \subseteq 1 .. history.notices
    /\ seen \in (SUBSET (1 .. history.notices)) \cup {Nothing}
    /\ history \in History

\* While no notice was deleted, the inbox counts down; while no answers crossed, what was announced
\* is no newer than the last answer, and every answer on its way but the late ones is no older.
CountsDown == \A i \in DOMAIN inbox : inbox[i] = history.notices + 1 - i
AnswersInOrder ==
    /\ \A i \in DOMAIN polls : Listed(polls[i].listed)
    /\ \A i, k \in DOMAIN polls : i <= k => Newest(polls[i].listed) <= Newest(polls[k].listed)
NewsOnce ==
    /\ history.announced \cap history.known = {} /\ history.again = {}
    /\ seen = Nothing => history.announced = {} /\ history.known = {}
    /\ seen # Nothing =>
         /\ Listed(seen)
         /\ \A i \in DOMAIN polls : ~polls[i].late => Newest(seen) <= Newest(polls[i].listed)
         /\ \A x \in history.announced \cup history.known : x <= Newest(seen)

NewsInv ==
    ~history.deleted /\ ~history.crossed =>
      Len(inbox) = history.notices /\ CountsDown /\ AnswersInOrder /\ NewsOnce

SoundsInv == InTune(sound, history.chimes) /\ InboxInv /\ NewsInv

LEMMA SoundStep ==
    ASSUME SoundsInv, Sounds!SoundsNext
    PROVE  InTune(sound', history'.chimes)
<1>0. InTune(sound, history.chimes) /\ sound \in Sound /\ history \in History /\ history.chimes \in Nat
  BY DEF SoundsInv, InTune, InboxInv, History
<1>1. ASSUME UNCHANGED sound, history'.chimes = history.chimes PROVE InTune(sound', history'.chimes)
  BY <1>0, <1>1
<1>2. ASSUME NEW s, InTune(s, history.chimes) PROVE InTune(Sounds!Stopped(s), history.chimes)
  BY <1>0, <1>2, StoppedInTune DEF InTune
<1>3. ASSUME NEW s, InTune(s, history.chimes) PROVE InTune(Sounds!Activated(s), history.chimes)
  BY <1>0, <1>3, ActivatedInTune DEF InTune
<1>4. CASE Sounds!StopPlanReminderSequence
  BY <1>0, <1>2, <1>4 DEF Sounds!StopPlanReminderSequence
<1>5. CASE Sounds!PlayPlanReminderDemo
  <2> DEFINE n == history.chimes + 1
  <2>1. sound' \in Sounds!Chimes(Sounds!Stopped(Sounds!Activated(sound))) /\ history' = [history EXCEPT !.chimes = n]
    BY <1>0, <1>5 DEF Sounds!PlayPlanReminderDemo, History
  <2>2. InTune(sound', n)
    BY <1>0, <1>2, <1>3, <2>1, ChimesInTune
  <2> HIDE DEF n
  <2> QED BY <1>0, <2>1, <2>2 DEF History
<1>6. CASE Sounds!TurnSoundOff
  <2> DEFINE off == [sound EXCEPT !.enabled = FALSE]
  <2>1. sound' = Sounds!Stopped(sound) \/ sound' = Sounds!Stopped(off)
    BY <1>6 DEF Sounds!TurnSoundOff
  <2>2. off \in Sound /\ off.waiting = sound.waiting /\ off.audio = sound.audio /\ off.version = sound.version
    BY <1>0 DEF Sound
  <2> HIDE DEF off
  <2>3. WaitsInTune(off, history.chimes)
    BY <1>0, <2>2 DEF InTune, WaitsInTune
  <2>4. InTune(Sounds!Stopped(off), history.chimes)
    BY <1>0, <2>2, <2>3, StoppedInTune DEF InTune
  <2> QED BY <1>0, <1>2, <1>6, <2>1, <2>4 DEF Sounds!TurnSoundOff
<1>7. CASE Sounds!TurnSoundOn
  <2> DEFINE on == [sound EXCEPT !.enabled = TRUE]
  <2>1. (sound' = Sounds!Activated(sound) \/ sound' = Sounds!Activated(on)) /\ history' = history
    BY <1>7 DEF Sounds!TurnSoundOn
  <2>2. /\ on \in Sound /\ on.waiting = sound.waiting /\ on.audio = sound.audio /\ on.version = sound.version
        /\ on.buses = sound.buses /\ on.enabled
    BY <1>0 DEF Sound
  <2> HIDE DEF on
  <2>3. WaitsInTune(on, history.chimes) /\ BusesInTune(on, history.chimes)
    BY <1>0, <2>2 DEF InTune, WaitsInTune, BusesInTune
  <2>4. InTune(Sounds!Activated(on), history.chimes)
    BY <1>0, <2>2, <2>3, ActivatedInTune
  <2> QED BY <1>0, <1>3, <2>1, <2>4
<1>8. CASE Sounds!PointerDown
  BY <1>0, <1>3, <1>8 DEF Sounds!PointerDown
<1>9. CASE Sounds!AudioFails
  <2>1. sound' = [sound EXCEPT !.waiting = {}] /\ history' = history
    BY <1>9 DEF Sounds!AudioFails
  <2>2. /\ sound' \in Sound /\ sound'.waiting = {} /\ sound'.buses = sound.buses /\ sound'.version = sound.version
        /\ sound'.enabled = sound.enabled
    BY <1>0, <2>1 DEF Sound
  <2> QED BY <1>0, <2>1, <2>2 DEF InTune, WaitsInTune, BusesInTune
<1>10. ASSUME NEW b \in sound.buses, Sounds!ReleaseBus(b) PROVE InTune(sound', history'.chimes)
  <2> DEFINE left == sound.buses \ {b}
  <2>1. b.token = sound.version
    BY <1>0 DEF InTune, BusesInTune
  <2>2. (sound.buses \ {b}) \cup {} = left
    OBVIOUS
  <2>3. sound' = [sound EXCEPT !.buses = left] /\ history' = history
    BY <1>0, <1>10, <2>1, <2>2 DEF Sounds!ReleaseBus, Sound
  <2>4. left \subseteq sound.buses /\ left \in SUBSET Bus
    BY <1>0 DEF Sound
  <2> HIDE DEF left
  <2>5. /\ sound' \in Sound /\ sound'.waiting = sound.waiting /\ sound'.buses = left /\ sound'.version = sound.version
        /\ sound'.enabled = sound.enabled /\ sound'.audio = sound.audio
    BY <1>0, <2>3, <2>4 DEF Sound
  <2> QED BY <1>0, <2>3, <2>4, <2>5 DEF InTune, WaitsInTune, BusesInTune
<1>11. CASE Sounds!Arrives
  <2>1. history'.chimes = history.chimes /\ sound' = sound
    BY <1>0, <1>11 DEF Sounds!Arrives, History
  <2> QED BY <1>1, <2>1
<1>12. ASSUME NEW i \in DOMAIN inbox, Sounds!DeleteNotification(i) PROVE InTune(sound', history'.chimes)
  <2>1. history'.chimes = history.chimes /\ sound' = sound
    BY <1>0, <1>12 DEF Sounds!DeleteNotification, History
  <2> QED BY <1>1, <2>1
<1>13. ASSUME NEW i \in DOMAIN polls, Sounds!NotificationsArrive(i) PROVE InTune(sound', history'.chimes)
  <2> DEFINE fresh == Sounds!Fresh(polls[i].listed)
             chimes == IF fresh = {} THEN history.chimes ELSE history.chimes + 1
             known == IF seen = Nothing THEN polls[i].listed ELSE history.known
             again == history.again \cup (fresh \cap history.announced)
             announced == history.announced \cup fresh
             crossed == history.crossed \/ polls[i].late
  <2>1. /\ IF fresh = {} THEN sound' = sound ELSE sound' \in Sounds!Chimes(sound)
        /\ history' = [history EXCEPT !.chimes = chimes, !.known = known, !.again = again,
                                      !.announced = announced, !.crossed = crossed]
    BY <1>0, <1>13 DEF Sounds!NotificationsArrive, History
  <2>2. InTune(sound', chimes)
    BY <1>0, <2>1, ChimesInTune
  <2> HIDE DEF chimes
  <2>3. history'.chimes = chimes
    BY <1>0, <2>1 DEF History
  <2> QED BY <2>2, <2>3
<1>14. CASE Sounds!CheckNotifications
  BY <1>1, <1>14 DEF Sounds!CheckNotifications
<1>15. ASSUME NEW i \in DOMAIN polls, Sounds!PollFails(i) PROVE InTune(sound', history'.chimes)
  BY <1>1, <1>15 DEF Sounds!PollFails
<1> QED BY <1>4, <1>5, <1>6, <1>7, <1>8, <1>9, <1>10, <1>11, <1>12, <1>13, <1>14, <1>15 DEF Sounds!SoundsNext

\* Where the polls were before the i-th answer came or failed.
Before(i, j) == IF j < i THEN j ELSE j + 1

LEMMA FewerPolls ==
    ASSUME polls \in Seq(Poll), NEW i \in DOMAIN polls,
           polls' = Sounds!Without(i) \/ polls' = RemoveAt(polls, i)
    PROVE  /\ polls' \in Seq(Poll)
           /\ \A j \in DOMAIN polls' :
                /\ j \in Nat /\ Before(i, j) \in DOMAIN polls \ {i}
                /\ polls'[j].listed = polls[Before(i, j)].listed
                /\ ~polls'[j].late => ~polls[Before(i, j)].late
                /\ polls' = Sounds!Without(i) /\ ~polls'[j].late => i <= Before(i, j)
           /\ \A j, k \in DOMAIN polls' : j <= k => Before(i, j) <= Before(i, k)
<1> DEFINE n == Len(polls)
<1>1. n \in Nat /\ DOMAIN polls = 1 .. n /\ i \in 1 .. n /\ n - 1 \in Nat /\ \A j \in 1 .. n : polls[j] \in Poll
  BY LenProperties, ElementOfSeq
<1>2. ASSUME NEW j \in 1 .. n - 1
      PROVE  /\ j \in Nat /\ Before(i, j) \in (1 .. n) \ {i} /\ Before(i, j) = (IF j < i THEN j ELSE j + 1)
             /\ (~(j < i) => i <= Before(i, j))
  <2>1. j \in Nat /\ 1 <= j /\ j <= n - 1 /\ n \in Nat /\ i \in Nat /\ 1 <= i /\ i <= n
    BY <1>1
  <2> HIDE DEF n
  <2> QED BY <2>1 DEF Before
<1>3. \A j, k \in 1 .. n - 1 : j <= k => Before(i, j) <= Before(i, k)
  BY <1>1 DEF Before
<1>4. CASE polls' = RemoveAt(polls, i)
  <2>1. /\ polls' \in Seq(Poll) /\ Len(polls') = n - 1
        /\ \A j \in 1 .. n - 1 : polls'[j] = IF j < i THEN polls[j] ELSE polls[j + 1]
    <3>1. /\ RemoveAt(polls, i) \in Seq(Poll) /\ Len(RemoveAt(polls, i)) = Len(polls) - 1
          /\ \A j \in 1 .. Len(polls) - 1 : RemoveAt(polls, i)[j] = IF j < i THEN polls[j] ELSE polls[j + 1]
      BY <1>1, WithoutOne, Zenon
    <3> QED BY <1>4, <3>1
  <2>2. DOMAIN polls' = 1 .. n - 1
    BY <2>1, LenProperties
  <2> HIDE DEF n
  <2>3. \A j \in 1 .. n - 1 : polls'[j] = polls[Before(i, j)]
    BY <1>2, <2>1
  <2>4. CASE polls' # Sounds!Without(i)
    BY <1>1, <1>2, <1>3, <2>1, <2>2, <2>3, <2>4
  <2>5. CASE polls' = Sounds!Without(i)
    <3>1. ASSUME NEW j \in 1 .. n - 1, ~polls'[j].late PROVE ~(j < i)
      <4>1. polls'[j] = IF j < i THEN [polls[j] EXCEPT !.late = TRUE] ELSE polls[j + 1]
        BY <2>5 DEF Sounds!Without, n
      <4>2. j < i => polls[j] \in Poll
        BY <1>1
      <4> QED BY <3>1, <4>1, <4>2 DEF Poll
    <3> QED BY <1>1, <1>2, <1>3, <2>1, <2>2, <2>3, <3>1
  <2> QED BY <2>4, <2>5
<1>5. CASE polls' = Sounds!Without(i)
  <2>1. polls' = [j \in 1 .. n - 1 |-> IF j < i THEN [polls[j] EXCEPT !.late = TRUE] ELSE polls[j + 1]]
    BY <1>5 DEF Sounds!Without
  <2> HIDE DEF n
  <2>2. ASSUME NEW j \in 1 .. n - 1
        PROVE  /\ polls'[j] \in Poll /\ polls'[j].listed = polls[Before(i, j)].listed
               /\ ~polls'[j].late => ~polls[Before(i, j)].late /\ ~(j < i)
    <3>1. polls'[j] = IF j < i THEN [polls[j] EXCEPT !.late = TRUE] ELSE polls[j + 1]
      BY <2>1
    <3>2. polls[Before(i, j)] \in Poll
      BY <1>1, <1>2
    <3>3. CASE j < i
      BY <1>2, <3>1, <3>2, <3>3 DEF Poll
    <3>4. CASE ~(j < i)
      BY <1>2, <3>1, <3>2, <3>4 DEF Poll
    <3> QED BY <3>3, <3>4
  <2>3. polls' \in [1 .. n - 1 -> Poll]
    BY <2>1, <2>2
  <2>4. polls' \in Seq(Poll)
    BY <1>1, <2>3, FunctionIsSeq
  <2>5. DOMAIN polls' = 1 .. n - 1
    BY <2>1
  <2> QED BY <1>1, <1>2, <1>3, <2>2, <2>4, <2>5
<1> QED BY <1>4, <1>5

LEMMA InboxStep ==
    ASSUME Sounds!SoundsAssumption, SoundsInv, Sounds!SoundsNext
    PROVE  InboxInv'
<1>0. InboxInv /\ history \in History /\ history.notices \in Nat /\ history.chimes \in Nat /\ MaxNotices \in Nat
  BY DEF SoundsInv, InboxInv, History, Sounds!SoundsAssumption
<1>1. ASSUME UNCHANGED <<inbox, seen, polls>>, history' \in History, history'.notices = history.notices
      PROVE  InboxInv'
  BY <1>0, <1>1 DEF InboxInv
<1>2. CASE UNCHANGED <<inbox, seen, polls, history>>
  BY <1>0, <1>1, <1>2
<1>3. CASE \/ Sounds!StopPlanReminderSequence \/ Sounds!TurnSoundOff \/ Sounds!TurnSoundOn
           \/ Sounds!PointerDown \/ Sounds!AudioFails \/ \E b \in sound.buses : Sounds!ReleaseBus(b)
  <2>1. UNCHANGED <<inbox, seen, polls, history>>
    BY <1>3 DEF Sounds!StopPlanReminderSequence, Sounds!TurnSoundOff, Sounds!TurnSoundOn, Sounds!PointerDown,
       Sounds!AudioFails, Sounds!ReleaseBus, Sounds!Stops
  <2> QED BY <1>2, <2>1
<1>4. CASE Sounds!PlayPlanReminderDemo
  <2> DEFINE n == history.chimes + 1
  <2>1. history' = [history EXCEPT !.chimes = n] /\ UNCHANGED <<inbox, seen, polls>>
    BY <1>0, <1>4 DEF Sounds!PlayPlanReminderDemo, Sounds!Stops, History
  <2>2. n \in Nat
    BY <1>0
  <2> HIDE DEF n
  <2> QED BY <1>0, <1>1, <2>1, <2>2 DEF History
<1>5. CASE Sounds!Arrives
  <2> DEFINE n == history.notices + 1
  <2>1. /\ history' = [history EXCEPT !.notices = n] /\ inbox' = <<n>> \o inbox /\ UNCHANGED <<seen, polls>>
        /\ history.notices < MaxNotices
    BY <1>0, <1>5 DEF Sounds!Arrives, History
  <2>2. n \in Nat /\ n \in 0 .. MaxNotices /\ n \in 1 .. n /\ 1 .. history.notices \subseteq 1 .. n
    BY <1>0, <2>1
  <2> HIDE DEF n
  <2>3. history' \in History /\ history'.notices = n
    BY <1>0, <2>1, <2>2 DEF History
  <2>4. /\ inbox \in Seq(Nat) /\ Len(inbox) \in Nat /\ DOMAIN inbox = 1 .. Len(inbox)
        /\ \A i \in 1 .. Len(inbox) : inbox[i] \in 1 .. history.notices
    BY <1>0, LenProperties DEF InboxInv
  <2>5. /\ inbox' \in Seq(Nat) /\ Len(inbox') = Len(inbox) + 1
        /\ \A i \in 1 .. Len(inbox) + 1 : inbox'[i] = IF i = 1 THEN n ELSE inbox[i - 1]
    BY <2>1, <2>2, <2>4, PutFirst
  <2>6. DOMAIN inbox' = 1 .. Len(inbox) + 1
    BY <2>5, LenProperties
  <2>7. ASSUME NEW i \in 1 .. Len(inbox) + 1 PROVE inbox'[i] \in 1 .. n
    <3>1. CASE i = 1
      BY <2>2, <2>5, <3>1
    <3>2. CASE i # 1
      <4>1. i - 1 \in 1 .. Len(inbox)
        BY <2>4, <3>2
      <4>2. inbox'[i] = inbox[i - 1]
        BY <2>5, <3>2
      <4> QED BY <2>2, <2>4, <4>1, <4>2
    <3> QED BY <3>1, <3>2
  <2> QED BY <1>0, <2>1, <2>2, <2>3, <2>5, <2>6, <2>7 DEF InboxInv
<1>6. ASSUME NEW i \in DOMAIN inbox, Sounds!DeleteNotification(i) PROVE InboxInv'
  <2>1. /\ inbox' = RemoveAt(inbox, i) /\ history' = [history EXCEPT !.deleted = TRUE] /\ UNCHANGED <<seen, polls>>
        /\ inbox \in Seq(Nat)
    BY <1>0, <1>6 DEF Sounds!DeleteNotification, Sounds!RemoveAt, RemoveAt, InboxInv
  <2>2. history' \in History /\ history'.notices = history.notices
    BY <1>0, <2>1 DEF History
  <2>3. /\ inbox' \in Seq(Nat)
        /\ \A j \in DOMAIN inbox' : \E k \in DOMAIN inbox : inbox'[j] = inbox[k]
    <3> DEFINE rest == RemoveAt(inbox, i)
               numbers == Nat
    <3>0. inbox \in Seq(numbers)
      BY <2>1
    <3> HIDE DEF numbers
    <3>1. rest \in Seq(numbers) /\ OthersOf(inbox, i, rest)
      BY <3>0, OthersStay
    <3>2. inbox' = rest
      BY <2>1
    <3> HIDE DEF rest
    <3> QED BY <3>1, <3>2 DEF OthersOf, numbers
  <2> QED BY <1>0, <2>1, <2>2, <2>3 DEF InboxInv
<1>7. CASE Sounds!CheckNotifications
  <2> DEFINE list == {inbox[i] : i \in {j \in DOMAIN inbox : j <= Limit}}
             new == [listed |-> list, late |-> FALSE]
  <2>1. polls' = Append(polls, new) /\ UNCHANGED <<inbox, seen, history>>
    BY <1>7 DEF Sounds!CheckNotifications
  <2>2. list \subseteq 1 .. history.notices
    BY <1>0 DEF InboxInv
  <2> HIDE DEF list
  <2>3. new \in Poll /\ new.listed \subseteq 1 .. history.notices
    BY <2>2 DEF Poll
  <2> HIDE DEF new
  <2>4. polls \in Seq(Poll) /\ Len(polls) \in Nat /\ DOMAIN polls = 1 .. Len(polls)
    BY <1>0, LenProperties DEF InboxInv
  <2>5. /\ polls' \in Seq(Poll) /\ Len(polls') = Len(polls) + 1
        /\ \A i \in 1 .. Len(polls) : polls'[i] = polls[i]
        /\ polls'[Len(polls) + 1] = new
    BY <2>1, <2>3, <2>4, AppendProperties
  <2>6. DOMAIN polls' = 1 .. Len(polls) + 1 /\ \A i \in 1 .. Len(polls) + 1 : i \in 1 .. Len(polls) \/ i = Len(polls) + 1
    BY <2>4, <2>5, LenProperties
  <2> QED BY <1>0, <2>1, <2>3, <2>4, <2>5, <2>6 DEF InboxInv
<1>8. ASSUME NEW i \in DOMAIN polls, polls' = Sounds!Without(i) \/ polls' = RemoveAt(polls, i), inbox' = inbox,
             seen' \in {seen, polls[i].listed}, history' \in History, history'.notices = history.notices
      PROVE  InboxInv'
  <2>1. polls \in Seq(Poll)
    BY <1>0 DEF InboxInv
  <2>2. /\ polls' \in Seq(Poll)
        /\ \A j \in DOMAIN polls' :
             Before(i, j) \in DOMAIN polls /\ polls'[j].listed = polls[Before(i, j)].listed
    BY <1>8, <2>1, FewerPolls
  <2> QED BY <1>0, <1>8, <2>2 DEF InboxInv
<1>9. ASSUME NEW i \in DOMAIN polls, Sounds!NotificationsArrive(i) PROVE InboxInv'
  <2> DEFINE fresh == Sounds!Fresh(polls[i].listed)
             chimes == IF fresh = {} THEN history.chimes ELSE history.chimes + 1
             known == IF seen = Nothing THEN polls[i].listed ELSE history.known
             again == history.again \cup (fresh \cap history.announced)
             announced == history.announced \cup fresh
             crossed == history.crossed \/ polls[i].late
  <2>1. /\ history' = [history EXCEPT !.chimes = chimes, !.known = known, !.again = again,
                                      !.announced = announced, !.crossed = crossed]
        /\ polls' = Sounds!Without(i) /\ seen' = polls[i].listed /\ inbox' = inbox
    BY <1>0, <1>9 DEF Sounds!NotificationsArrive, History
  <2>2. /\ polls[i].listed \subseteq 1 .. history.notices /\ polls[i].listed \in SUBSET Nat
        /\ polls[i].late \in BOOLEAN
    <3>1. polls \in Seq(Poll) /\ polls[i].listed \subseteq 1 .. history.notices
      BY <1>0 DEF InboxInv
    <3>2. polls[i] \in Poll
      BY <3>1, ElementOfSeq, LenProperties
    <3> QED BY <3>1, <3>2 DEF Poll
  <2>3. fresh \in SUBSET Nat /\ chimes \in Nat
    BY <1>0, <2>2 DEF Sounds!Fresh
  <2> HIDE DEF fresh, chimes
  <2>4. known \in SUBSET Nat /\ again \in SUBSET Nat /\ announced \in SUBSET Nat /\ crossed \in BOOLEAN
    BY <1>0, <2>2, <2>3 DEF History
  <2> HIDE DEF known, again, announced, crossed
  <2>5. history' \in History /\ history'.notices = history.notices
    BY <1>0, <2>1, <2>3, <2>4 DEF History
  <2> QED BY <1>8, <2>1, <2>5
<1>10. ASSUME NEW i \in DOMAIN polls, Sounds!PollFails(i) PROVE InboxInv'
  <2>1. polls' = RemoveAt(polls, i) /\ UNCHANGED <<inbox, seen, history>>
    BY <1>10 DEF Sounds!PollFails, Sounds!RemoveAt, RemoveAt
  <2> QED BY <1>0, <1>8, <2>1
<1> QED BY <1>3, <1>4, <1>5, <1>6, <1>7, <1>9, <1>10 DEF Sounds!SoundsNext

LEMMA NewsStep ==
    ASSUME Sounds!SoundsAssumption, SoundsInv, Sounds!SoundsNext
    PROVE  NewsInv'
<1>0. /\ InboxInv /\ NewsInv /\ history \in History /\ history.notices \in Nat /\ history.chimes \in Nat
      /\ Limit \in Nat \ {0} /\ polls \in Seq(Poll) /\ inbox \in Seq(Nat)
  BY DEF SoundsInv, InboxInv, History, Sounds!SoundsAssumption
<1>1. ASSUME UNCHANGED <<inbox, seen, polls>>, history'.notices = history.notices,
             history'.known = history.known, history'.announced = history.announced,
             history'.again = history.again, history'.deleted = history.deleted,
             history'.crossed = history.crossed
      PROVE  NewsInv'
  BY <1>0, <1>1 DEF NewsInv, CountsDown, AnswersInOrder, NewsOnce, Listed
<1>2. CASE \/ Sounds!StopPlanReminderSequence \/ Sounds!TurnSoundOff \/ Sounds!TurnSoundOn
           \/ Sounds!PointerDown \/ Sounds!AudioFails \/ \E b \in sound.buses : Sounds!ReleaseBus(b)
  <2>1. UNCHANGED <<inbox, seen, polls, history>>
    BY <1>2 DEF Sounds!StopPlanReminderSequence, Sounds!TurnSoundOff, Sounds!TurnSoundOn, Sounds!PointerDown,
       Sounds!AudioFails, Sounds!ReleaseBus, Sounds!Stops
  <2> QED BY <1>1, <2>1
<1>3. CASE Sounds!PlayPlanReminderDemo
  <2> DEFINE n == history.chimes + 1
  <2>1. history' = [history EXCEPT !.chimes = n] /\ UNCHANGED <<inbox, seen, polls>>
    BY <1>0, <1>3 DEF Sounds!PlayPlanReminderDemo, Sounds!Stops, History
  <2> HIDE DEF n
  <2>2. /\ history'.notices = history.notices
        /\ history'.known = history.known /\ history'.announced = history.announced
        /\ history'.again = history.again /\ history'.deleted = history.deleted
        /\ history'.crossed = history.crossed
    BY <1>0, <2>1 DEF History
  <2> QED BY <1>1, <2>1, <2>2
<1>4. ASSUME NEW i \in DOMAIN inbox, Sounds!DeleteNotification(i) PROVE NewsInv'
  <2>1. history' = [history EXCEPT !.deleted = TRUE]
    BY <1>4 DEF Sounds!DeleteNotification
  <2> QED BY <1>0, <2>1 DEF NewsInv, History
<1>5. CASE Sounds!Arrives
  <2> DEFINE n == history.notices + 1
  <2>1. /\ history' = [history EXCEPT !.notices = n] /\ inbox' = <<n>> \o inbox /\ UNCHANGED <<seen, polls>>
    BY <1>0, <1>5 DEF Sounds!Arrives, History
  <2>2. n \in Nat /\ \A t \in 0 .. history.notices : t \in 0 .. n
    BY <1>0
  <2>3. /\ history'.notices = n
        /\ history'.known = history.known /\ history'.announced = history.announced
        /\ history'.again = history.again /\ history'.deleted = history.deleted
        /\ history'.crossed = history.crossed
    BY <1>0, <2>1 DEF History
  <2>4. /\ inbox' \in Seq(Nat) /\ Len(inbox') = Len(inbox) + 1
        /\ \A i \in 1 .. Len(inbox) + 1 : inbox'[i] = IF i = 1 THEN n ELSE inbox[i - 1]
    BY <1>0, <2>1, <2>2, PutFirst
  <2>5. Len(inbox) \in Nat /\ DOMAIN inbox = 1 .. Len(inbox) /\ DOMAIN inbox' = 1 .. Len(inbox) + 1
    BY <1>0, <2>4, LenProperties
  <2>6. ASSUME CountsDown PROVE CountsDown'
    <3>1. ASSUME NEW i \in 1 .. Len(inbox) + 1 PROVE inbox'[i] = n + 1 - i
      <4>1. CASE i = 1
        BY <2>2, <2>4, <4>1
      <4>2. CASE i # 1
        <5>1. i - 1 \in 1 .. Len(inbox) /\ inbox'[i] = inbox[i - 1]
          BY <2>4, <2>5, <4>2
        <5>2. inbox[i - 1] = history.notices + 1 - (i - 1)
          BY <2>5, <2>6, <5>1 DEF CountsDown
        <5> DEFINE all == history.notices
        <5>3. i \in Int /\ all \in Nat
          BY <1>0, <2>5
        <5> HIDE DEF all
        <5>4. (all + 1) + 1 - i = all + 1 - (i - 1)
          BY <5>3
        <5>5. n + 1 - i = history.notices + 1 - (i - 1)
          BY <5>4 DEF all
        <5> QED BY <5>1, <5>2, <5>5
      <4> QED BY <4>1, <4>2
    <3> HIDE DEF n
    <3> QED BY <2>3, <2>5, <3>1 DEF CountsDown
  <2> HIDE DEF n
  <2>7. ASSUME AnswersInOrder PROVE AnswersInOrder'
    BY <2>1, <2>2, <2>3, <2>7 DEF AnswersInOrder, Listed
  <2>8. ASSUME NewsOnce PROVE NewsOnce'
    BY <2>1, <2>2, <2>3, <2>8 DEF NewsOnce, Listed
  <2>9. Len(inbox) = history.notices => Len(inbox') = n
    BY <2>4 DEF n
  <2> QED BY <1>0, <2>3, <2>6, <2>7, <2>8, <2>9 DEF NewsInv
<1>6. CASE Sounds!CheckNotifications
  <2> DEFINE list == {inbox[i] : i \in {j \in DOMAIN inbox : j <= Limit}}
             new == [listed |-> list, late |-> FALSE]
             n == Len(polls)
  <2>1. polls' = Append(polls, new) /\ UNCHANGED <<inbox, seen, history>>
    BY <1>6 DEF Sounds!CheckNotifications
  <2>2. ASSUME Len(inbox) = history.notices, CountsDown PROVE list = Window(history.notices)
    <3>1. DOMAIN inbox = 1 .. history.notices
      BY <1>0, <2>2, LenProperties
    <3>2. ASSUME NEW x \in list PROVE x \in Window(history.notices)
      <4>1. PICK i \in 1 .. history.notices : i <= Limit /\ x = history.notices + 1 - i
        BY <2>2, <3>1 DEF CountsDown
      <4> DEFINE all == history.notices
      <4>2. i \in Nat /\ 1 <= i /\ i <= all /\ all \in Nat /\ Limit \in Nat /\ i <= Limit /\ x = all + 1 - i
        BY <1>0, <4>1
      <4> HIDE DEF all
      <4>3. x \in 1 .. all /\ x + Limit > all
        BY <4>2
      <4> QED BY <4>3 DEF Window, all
    <3>3. ASSUME NEW x \in Window(history.notices) PROVE x \in list
      <4> DEFINE i == history.notices + 1 - x
      <4>1. i \in 1 .. history.notices /\ i <= Limit /\ history.notices + 1 - i = x
        BY <1>0 DEF Window
      <4> HIDE DEF i
      <4>2. inbox[i] = x
        BY <2>2, <3>1, <4>1 DEF CountsDown
      <4> QED BY <3>1, <4>1, <4>2
    <3> QED BY <3>2, <3>3
  <2>3. list \subseteq Nat
    BY <1>0 DEF InboxInv
  <2> HIDE DEF list
  <2>4. new \in Poll /\ new.listed = list
    BY <2>3 DEF Poll
  <2> HIDE DEF new
  <2>5. n \in Nat /\ DOMAIN polls = 1 .. n
    BY <1>0, LenProperties
  <2>6. /\ polls' \in Seq(Poll) /\ Len(polls') = n + 1
        /\ \A i \in 1 .. n : polls'[i] = polls[i]
        /\ polls'[n + 1] = new
    BY <1>0, <2>1, <2>4, AppendProperties
  <2>7. DOMAIN polls' = 1 .. n + 1 /\ \A i \in 1 .. n + 1 : (i \in 1 .. n /\ i # n + 1) \/ i = n + 1
    BY <2>5, <2>6, LenProperties
  <2> SUFFICES ASSUME Len(inbox) = history.notices, CountsDown, AnswersInOrder, NewsOnce
               PROVE  AnswersInOrder' /\ NewsOnce'
    BY <1>0, <2>1 DEF NewsInv, CountsDown
  <2>8. Newest(list) = history.notices /\ Listed(list)
    BY <1>0, <2>2, NewestOfWindow DEF Listed
  <2>9. \A t : Listed(t)' <=> Listed(t)
    BY <2>1 DEF Listed
  <2>10. \A i \in 1 .. n : Listed(polls[i].listed) /\ Newest(polls[i].listed) <= Newest(list)
    BY <1>0, <2>5, <2>8 DEF AnswersInOrder, Listed
  <2>11. \A i, k \in 1 .. n : i <= k => Newest(polls[i].listed) <= Newest(polls[k].listed)
    BY <2>5 DEF AnswersInOrder
  <2>12. Newest(list) <= Newest(list)
    BY <1>0, <2>8
  <2>13. ASSUME NEW i \in 1 .. n + 1, NEW k \in 1 .. n + 1, i <= k
         PROVE  Newest(polls'[i].listed) <= Newest(polls'[k].listed)
    <3>1. CASE k \in 1 .. n
      <4>1. i \in 1 .. n
        BY <2>5, <2>13, <3>1
      <4> QED BY <2>6, <2>11, <2>13, <3>1, <4>1
    <3>2. CASE k = n + 1
      BY <2>4, <2>6, <2>7, <2>10, <2>12, <3>2
    <3> QED BY <2>7, <3>1, <3>2
  <2>14. ASSUME NEW i \in 1 .. n + 1 PROVE Listed(polls'[i].listed)
    BY <2>4, <2>6, <2>7, <2>8, <2>10
  <2>15. AnswersInOrder'
    BY <2>1, <2>7, <2>13, <2>14 DEF AnswersInOrder, Listed
  <2>16. ASSUME seen # Nothing, NEW i \in 1 .. n + 1, ~polls'[i].late
         PROVE  Newest(seen) <= Newest(polls'[i].listed)
    <3>1. CASE i \in 1 .. n
      BY <2>5, <2>6, <2>16, <3>1 DEF NewsOnce
    <3>2. CASE i = n + 1
      BY <1>0, <2>4, <2>6, <2>8, <2>16, <3>2 DEF NewsOnce, Listed
    <3> QED BY <2>7, <3>1, <3>2
  <2>17. NewsOnce'
    BY <2>1, <2>7, <2>16 DEF NewsOnce, Listed
  <2> QED BY <2>15, <2>17
<1>7. ASSUME NEW i \in DOMAIN polls, polls' = Sounds!Without(i) \/ polls' = RemoveAt(polls, i), AnswersInOrder,
             history'.notices = history.notices
      PROVE  AnswersInOrder'
  <2>1. \A j \in DOMAIN polls' : Before(i, j) \in DOMAIN polls /\ polls'[j].listed = polls[Before(i, j)].listed
    BY <1>0, <1>7, FewerPolls
  <2>2. \A j, k \in DOMAIN polls' : j <= k => Before(i, j) <= Before(i, k)
    BY <1>0, <1>7, FewerPolls
  <2> QED BY <1>7, <2>1, <2>2 DEF AnswersInOrder, Listed
<1>8. ASSUME NEW i \in DOMAIN polls, Sounds!PollFails(i) PROVE NewsInv'
  <2>1. polls' = RemoveAt(polls, i) /\ UNCHANGED <<inbox, seen, history>>
    BY <1>8 DEF Sounds!PollFails, Sounds!RemoveAt, RemoveAt
  <2>2. AnswersInOrder => AnswersInOrder'
    BY <1>7, <2>1
  <2>3. \A j \in DOMAIN polls' : /\ Before(i, j) \in DOMAIN polls /\ polls'[j].listed = polls[Before(i, j)].listed
                                 /\ ~polls'[j].late => ~polls[Before(i, j)].late
    BY <1>0, <2>1, FewerPolls
  <2>4. NewsOnce => NewsOnce'
    BY <2>1, <2>3 DEF NewsOnce, Listed
  <2> QED BY <1>0, <2>1, <2>2, <2>4 DEF NewsInv, CountsDown
<1>9. ASSUME NEW i \in DOMAIN polls, Sounds!NotificationsArrive(i) PROVE NewsInv'
  <2> DEFINE list == polls[i].listed
             fresh == Sounds!Fresh(list)
             chimes == IF fresh = {} THEN history.chimes ELSE history.chimes + 1
             known == IF seen = Nothing THEN list ELSE history.known
             again == history.again \cup (fresh \cap history.announced)
             announced == history.announced \cup fresh
             crossed == history.crossed \/ polls[i].late
  <2>1. /\ history' = [history EXCEPT !.chimes = chimes, !.known = known, !.again = again,
                                      !.announced = announced, !.crossed = crossed]
        /\ polls' = Sounds!Without(i) /\ seen' = list /\ inbox' = inbox
    BY <1>0, <1>9 DEF Sounds!NotificationsArrive, History
  <2>2. list \subseteq 1 .. history.notices /\ list # Nothing
    <3>1. list \subseteq 1 .. history.notices /\ history.notices \in 0 .. MaxNotices /\ MaxNotices \in Nat
      BY <1>0 DEF InboxInv, History, Sounds!SoundsAssumption
    <3>2. list \in SUBSET (1 .. MaxNotices)
      BY <3>1
    <3> QED BY <3>1, <3>2 DEF Sounds!SoundsAssumption
  <2>3. /\ seen = Nothing => fresh = {}
        /\ seen # Nothing => fresh = list \ seen
    BY DEF Sounds!Fresh
  <2> HIDE DEF fresh
  <2>4. polls[i] \in Poll /\ history.crossed \in BOOLEAN /\ polls[i].late \in BOOLEAN
    <3>1. polls[i] \in Poll
      BY <1>0, ElementOfSeq, LenProperties
    <3> QED BY <1>0, <3>1 DEF Poll, History
  <2>5. /\ history'.notices = history.notices /\ history'.deleted = history.deleted
        /\ history'.known = known /\ history'.announced = announced /\ history'.again = again
        /\ history'.crossed = crossed
    <3> HIDE DEF chimes, known, again, announced, crossed
    <3> QED BY <1>0, <2>1 DEF History
  <2> SUFFICES ASSUME ~polls[i].late, Len(inbox) = history.notices, CountsDown, AnswersInOrder, NewsOnce
               PROVE  AnswersInOrder' /\ NewsOnce'
    BY <1>0, <2>1, <2>4, <2>5 DEF NewsInv, CountsDown
  <2>6. AnswersInOrder'
    BY <1>7, <2>1, <2>5
  <2>7. Listed(list) /\ Newest(list) \in Nat /\ \A x \in list : x \in Nat /\ x <= Newest(list)
    <3>1. Listed(list)
      BY DEF AnswersInOrder
    <3>2. Newest(list) \in Nat /\ list = Window(Newest(list))
      BY <1>0, <3>1 DEF Listed
    <3> QED BY <3>1, <3>2 DEF Window
  <2>8. ASSUME NEW j \in DOMAIN polls', ~polls'[j].late PROVE Newest(list) <= Newest(polls'[j].listed)
    <3>1. /\ Before(i, j) \in DOMAIN polls /\ polls'[j].listed = polls[Before(i, j)].listed
          /\ i <= Before(i, j)
      BY <1>0, <2>1, <2>8, FewerPolls
    <3> QED BY <3>1 DEF AnswersInOrder
  <2>9. ASSUME seen # Nothing
        PROVE  /\ \A x \in fresh : x \in Nat /\ x <= Newest(list) /\ Newest(seen) < x
               /\ Newest(seen) <= Newest(list) /\ Newest(seen) \in Nat
    <3>1. Listed(seen) /\ Newest(seen) <= Newest(list)
      BY <2>9 DEF NewsOnce
    <3>2. Newest(seen) \in Nat /\ seen = Window(Newest(seen))
      BY <1>0, <3>1 DEF Listed
    <3>3. ASSUME NEW x \in fresh PROVE x \in Nat /\ x <= Newest(list) /\ Newest(seen) < x
      <4>1. x \in list /\ x \notin seen /\ list = Window(Newest(list))
        BY <2>3, <2>7, <2>9, <3>3 DEF Listed
      <4>2. x \in 1 .. Newest(list) /\ x + Limit > Newest(list)
        BY <4>1 DEF Window
      <4>3. ~(x \in 1 .. Newest(seen) /\ x + Limit > Newest(seen))
        BY <3>2, <4>1 DEF Window
      <4> DEFINE a == Newest(seen)
                 b == Newest(list)
      <4>4. a \in Nat /\ b \in Nat /\ a <= b /\ Limit \in Nat
        BY <1>0, <2>7, <3>1, <3>2
      <4> HIDE DEF a, b
      <4>5. x \in Nat /\ x <= b /\ a < x
        BY <4>2, <4>3, <4>4 DEF a, b
      <4> QED BY <4>5 DEF a, b
    <3> QED BY <3>1, <3>2, <3>3
  <2>10. ASSUME NEW x \in announced \cup known PROVE x <= Newest(list)
    <3>1. CASE seen = Nothing
      BY <2>3, <2>7, <2>10, <3>1 DEF NewsOnce
    <3>2. CASE seen # Nothing
      <4>1. x \in fresh \/ (x <= Newest(seen) /\ x \in history.announced \cup history.known)
        BY <2>10, <3>2 DEF NewsOnce
      <4>2. history.announced \cup history.known \subseteq Nat
        BY <1>0 DEF History
      <4> QED BY <2>7, <2>9, <3>2, <4>1, <4>2
    <3> QED BY <3>1, <3>2
  <2>11. announced \cap known = {} /\ again = {}
    <3>1. CASE seen = Nothing
      BY <2>3, <3>1 DEF NewsOnce
    <3>2. CASE seen # Nothing
      <4>1. ASSUME NEW x \in fresh PROVE x \notin history.announced \cup history.known
        <5>1. x \in Nat /\ Newest(seen) \in Nat /\ Newest(seen) < x
          BY <2>9, <3>2, <4>1
        <5>2. ~(x <= Newest(seen))
          BY <5>1
        <5> QED BY <3>2, <5>2 DEF NewsOnce
      <4> QED BY <3>2, <4>1 DEF NewsOnce
    <3> QED BY <3>1, <3>2
  <2> QED BY <2>1, <2>2, <2>5, <2>6, <2>7, <2>8, <2>10, <2>11 DEF NewsOnce, Listed
<1> QED BY <1>2, <1>3, <1>4, <1>5, <1>6, <1>8, <1>9 DEF Sounds!SoundsNext

(* A chime sounds only while it is wanted, and only news is announced, once  *)
(* (notification-sound.ts, and checkNotifications of AppShell.tsx): for any  *)
(* number of notices, polls, chimes and stops, however long the browser      *)
(* holds a chime back; the second as long as no answers crossed and no       *)
(* notice was deleted.                                                       *)
THEOREM ChimesAreWanted ==
    ASSUME Sounds!SoundsAssumption
    PROVE  Sounds!SoundsSpec => [](Sounds!SoundsTypeOK /\ Sounds!SoundIsWanted /\ Sounds!AnnouncedIsNews)
<1>1. Sounds!SoundsInit => SoundsInv
  <2> SUFFICES ASSUME Sounds!SoundsInit PROVE SoundsInv
    OBVIOUS
  <2>1. PICK enabled \in BOOLEAN :
          sound = [enabled |-> enabled, audio |-> "none", version |-> 0, waiting |-> {}, buses |-> {}]
    BY DEF Sounds!SoundsInit
  <2>2. InTune(sound, history.chimes)
    BY <2>1 DEF InTune, Sound, WaitsInTune, BusesInTune
  <2>3. /\ inbox = <<>> /\ polls = <<>> /\ seen = Nothing
        /\ history = [notices |-> 0, chimes |-> 0, known |-> {}, announced |-> {}, again |-> {},
                      deleted |-> FALSE, crossed |-> FALSE]
    BY DEF Sounds!SoundsInit
  <2>4. MaxNotices \in Nat
    BY DEF Sounds!SoundsAssumption
  <2>5. history \in History
    BY <2>3, <2>4 DEF History
  <2>6. InboxInv
    <3>1. <<>> \in Seq(Nat) /\ <<>> \in Seq(Poll) /\ DOMAIN <<>> = {}
      BY EmptySeq
    <3>2. inbox \in Seq(Nat) /\ polls \in Seq(Poll) /\ DOMAIN inbox = {} /\ DOMAIN polls = {}
      BY <2>3, <3>1
    <3>3. seen \in (SUBSET (1 .. history.notices)) \cup {Nothing}
      BY <2>3
    <3> QED BY <2>5, <3>2, <3>3, Zenon DEF InboxInv
  <2>7. Len(inbox) = history.notices /\ CountsDown /\ AnswersInOrder /\ NewsOnce
    BY <2>3, EmptySeq DEF CountsDown, AnswersInOrder, NewsOnce
  <2> QED BY <2>2, <2>6, <2>7 DEF SoundsInv, NewsInv
<1>2. SoundsInv /\ [Sounds!SoundsNext]_(Sounds!soundVars) => SoundsInv'
  <2> SUFFICES ASSUME SoundsInv, [Sounds!SoundsNext]_(Sounds!soundVars) PROVE SoundsInv'
    OBVIOUS
  <2>1. CASE UNCHANGED Sounds!soundVars
    <3>1. InTune(sound', history'.chimes)
      BY <2>1 DEF Sounds!soundVars, SoundsInv
    <3>2. InboxInv'
      BY <2>1 DEF Sounds!soundVars, SoundsInv, InboxInv
    <3>3. NewsInv'
      BY <2>1 DEF Sounds!soundVars, SoundsInv, NewsInv, CountsDown, AnswersInOrder, NewsOnce, Listed
    <3> QED BY <3>1, <3>2, <3>3 DEF SoundsInv
  <2>2. CASE Sounds!SoundsNext
    BY <2>2, SoundStep, InboxStep, NewsStep DEF SoundsInv
  <2> QED BY <2>1, <2>2
<1>3. SoundsInv => Sounds!SoundsTypeOK /\ Sounds!SoundIsWanted /\ Sounds!AnnouncedIsNews
  <2> SUFFICES ASSUME SoundsInv PROVE Sounds!SoundsTypeOK /\ Sounds!SoundIsWanted /\ Sounds!AnnouncedIsNews
    OBVIOUS
  <2>1. Sounds!SoundsTypeOK
    <3>1. \A n \in Sounds!Range(inbox) : n \in 1 .. history.notices
      BY DEF SoundsInv, InboxInv, Sounds!Range
    <3>2. \A c \in sound.waiting \cup sound.buses : c.of \in 1 .. history.chimes /\ c.silenced \in BOOLEAN
      BY DEF SoundsInv, InTune, WaitsInTune, BusesInTune, Sound, Waiting, Bus
    <3> QED BY <3>1, <3>2 DEF SoundsInv, InTune, Sound, InboxInv, Sounds!SoundsTypeOK
  <2>2. Sounds!SoundIsWanted
    BY DEF SoundsInv, InTune, BusesInTune, Sounds!SoundIsWanted
  <2>3. Sounds!AnnouncedIsNews
    BY DEF SoundsInv, NewsInv, NewsOnce, Sounds!AnnouncedIsNews
  <2> QED BY <2>1, <2>2, <2>3
<1> QED BY <1>1, <1>2, <1>3, PTL DEF Sounds!SoundsSpec

-----------------------------------------------------------------------------
(* The blocks of a README                                                  *)

Readme == INSTANCE ReadmeBlocks

\* A set of numbers has a least one.
LEMMA Least ==
    ASSUME NEW S \in SUBSET Nat, S # {}
    PROVE  \E n \in S : \A i \in S : n <= i
<1> DEFINE T == {1 .. n : n \in S}
           R == StrictSubsetOrdering(Nat)
<1>1. T \subseteq FiniteSubsetsOf(Nat) /\ T # {}
  <2>1. \A n \in S : IsFiniteSet(1 .. n) /\ 1 .. n \subseteq Nat
    BY FS_Interval
  <2> QED BY <2>1 DEF FiniteSubsetsOf
<1>2. PICK x \in T : \A y \in T : <<y, x>> \notin R
  <2>1. IsWellFoundedOn(R, FiniteSubsetsOf(Nat))
    BY FS_StrictSubsetOrderingWellFounded
  <2> HIDE DEF T, R
  <2> QED BY <1>1, <2>1, WFMin
<1>3. PICK n \in S : x = 1 .. n
  OBVIOUS
<1>4. ASSUME NEW i \in S, i < n PROVE FALSE
  <2>1. i \in Nat /\ n \in Nat
    OBVIOUS
  <2>2. 1 .. i \subseteq 1 .. n /\ n \in 1 .. n /\ n \notin 1 .. i
    BY <1>4, <2>1
  <2>3. <<1 .. i, 1 .. n>> \in R
    BY <2>1, <2>2 DEF StrictSubsetOrdering
  <2> QED BY <1>2, <1>3, <2>3
<1>5. \A i \in S : ~(i < n) => n <= i
  OBVIOUS
<1> QED BY <1>4, <1>5

ReadmeInv ==
    /\ text \in Seq(Readme!Kinds) /\ index \in 1 .. Len(text) + 1 /\ blocks \in Seq(Seq(Nat))
    /\ Readme!EveryLineIsShown

\* The lines that belong together end where one does not, or behind the last.
LEMMA EndIs ==
    ASSUME NEW n \in Nat, text \in Seq(Readme!Kinds), n = Len(text), NEW i \in 1 .. n + 1, NEW same
    PROVE  /\ Readme!End(i, same) \in i .. n + 1
           /\ \A k \in i .. Readme!End(i, same) - 1 : text[k] \in same
           /\ Readme!End(i, same) = n + 1 \/ text[Readme!End(i, same)] \notin same
<1> DEFINE S == {j \in i .. n + 1 : j = n + 1 \/ text[j] \notin same}
           Stop(j) == /\ j = n + 1 \/ text[j] \notin same
                      /\ \A k \in i .. j - 1 : text[k] \in same
<1>1. S \in SUBSET Nat /\ S # {}
  <2>1. n + 1 \in S
    OBVIOUS
  <2> QED BY <2>1
<1>2. PICK j \in S : \A k \in S : j <= k
  <2> HIDE DEF S
  <2> QED BY <1>1, Least
<1>3. Stop(j) /\ j \in i .. n + 1
  <2>1. ASSUME NEW k \in i .. j - 1 PROVE text[k] \in same
    <3>1. k \in i .. n + 1 /\ ~(j <= k)
      OBVIOUS
    <3> QED BY <1>2, <3>1
  <2> QED BY <2>1
<1>4. Readme!End(i, same) = CHOOSE x \in i .. n + 1 : Stop(x)
  BY DEF Readme!End, Readme!Size
<1> HIDE DEF Stop
<1>5. LET x == CHOOSE x \in i .. n + 1 : Stop(x) IN x \in i .. n + 1 /\ Stop(x)
  BY <1>3, Zenon
<1> QED BY <1>4, <1>5 DEF Stop

\* A block takes lines in their order, and leaves out none that is to be shown.
LEMMA BlockAdded ==
    ASSUME ReadmeInv, NEW shown \in Seq(Nat), NEW next \in index .. Len(text) + 1,
           Readme!Takes(shown, next),
           \A k \in DOMAIN shown : shown[k] \in index .. next - 1,
           \A k, l \in DOMAIN shown : k < l => shown[k] < shown[l],
           \A i \in index .. next - 1 : text[i] \notin {"blank", "fence", "divider", "rule"} =>
             \E k \in DOMAIN shown : shown[k] = i
    PROVE  ReadmeInv'
<1> DEFINE n == Len(blocks)
<1>1. /\ blocks \in Seq(Seq(Nat)) /\ n \in Nat /\ DOMAIN blocks = 1 .. n
      /\ text \in Seq(Readme!Kinds) /\ index \in 1 .. Len(text) + 1 /\ Len(text) \in Nat
  BY LenProperties DEF ReadmeInv
<1>2. /\ blocks' = Append(blocks, shown) /\ index' = next /\ text' = text
  BY DEF Readme!Takes
<1>3. /\ blocks' \in Seq(Seq(Nat)) /\ DOMAIN blocks' = 1 .. n + 1
      /\ \A b \in 1 .. n : blocks'[b] = blocks[b]
      /\ blocks'[n + 1] = shown
  <2>1. /\ Append(blocks, shown) \in Seq(Seq(Nat)) /\ Len(Append(blocks, shown)) = n + 1
        /\ \A b \in 1 .. n : Append(blocks, shown)[b] = blocks[b]
        /\ Append(blocks, shown)[n + 1] = shown
    BY <1>1, AppendProperties
  <2> QED BY <1>2, <2>1, LenProperties
<1>4. \A s : Readme!Range(s) = {s[k] : k \in DOMAIN s}
  BY DEF Readme!Range
<1>5. /\ \A b \in 1 .. n : \A k \in DOMAIN blocks[b] : blocks[b][k] \in 1 .. index - 1
      /\ \A b, c \in 1 .. n : \A k \in DOMAIN blocks[b], l \in DOMAIN blocks[c] :
           b < c \/ (b = c /\ k < l) => blocks[b][k] < blocks[c][l]
      /\ \A i \in 1 .. index - 1 : text[i] \notin {"blank", "fence", "divider", "rule"} =>
           \E b \in 1 .. n : \E k \in DOMAIN blocks[b] : blocks[b][k] = i
  <2>1. Readme!Shown \subseteq 1 .. index - 1
    BY DEF ReadmeInv, Readme!EveryLineIsShown
  <2>2. ASSUME NEW b \in 1 .. n, NEW k \in DOMAIN blocks[b] PROVE blocks[b][k] \in Readme!Shown
    <3>1. b \in DOMAIN blocks /\ blocks[b][k] \in Readme!Range(blocks[b])
      BY <1>1, <1>4
    <3> QED BY <3>1 DEF Readme!Shown
  <2>3. \A i \in Readme!Shown : \E b \in 1 .. n : \E k \in DOMAIN blocks[b] : blocks[b][k] = i
    BY <1>1, <1>4 DEF Readme!Shown
  <2> HIDE DEF n
  <2> QED BY <1>1, <2>1, <2>2, <2>3 DEF ReadmeInv, Readme!EveryLineIsShown
<1> HIDE DEF n
<1>6. ASSUME NEW b \in 1 .. n + 1, NEW k \in DOMAIN blocks'[b]
      PROVE  blocks'[b][k] \in 1 .. next - 1
  <2>1. CASE b \in 1 .. n
    <3>1. blocks'[b][k] \in 1 .. index - 1
      BY <1>3, <1>5, <1>6, <2>1
    <3> QED BY <1>1, <3>1
  <2>2. CASE b = n + 1
    <3>1. blocks'[b][k] \in index .. next - 1
      BY <1>3, <1>6, <2>2
    <3> QED BY <1>1, <3>1
  <2> QED BY <1>1, <2>1, <2>2
<1>7. ASSUME NEW b \in 1 .. n + 1, NEW c \in 1 .. n + 1,
             NEW k \in DOMAIN blocks'[b], NEW l \in DOMAIN blocks'[c], b < c \/ (b = c /\ k < l)
      PROVE  blocks'[b][k] < blocks'[c][l]
  <2>1. CASE c \in 1 .. n
    <3>1. b \in 1 .. n
      BY <1>1, <1>7, <2>1
    <3> QED BY <1>3, <1>5, <1>7, <2>1, <3>1
  <2>2. CASE c = n + 1 /\ b = n + 1
    BY <1>1, <1>3, <1>7, <2>2
  <2>3. CASE c = n + 1 /\ b # n + 1
    <3>1. b \in 1 .. n
      BY <1>1, <1>7, <2>3
    <3>2. blocks'[b][k] \in 1 .. index - 1 /\ blocks'[c][l] \in index .. next - 1
      BY <1>3, <1>5, <1>7, <2>3, <3>1
    <3> QED BY <1>1, <3>2
  <2> QED BY <1>1, <2>1, <2>2, <2>3
<1>8. ASSUME NEW i \in 1 .. next - 1, text[i] \notin {"blank", "fence", "divider", "rule"}
      PROVE  \E b \in 1 .. n + 1 : \E k \in DOMAIN blocks'[b] : blocks'[b][k] = i
  <2>1. CASE i \in 1 .. index - 1
    <3>1. PICK b \in 1 .. n : \E k \in DOMAIN blocks[b] : blocks[b][k] = i
      BY <1>5, <1>8, <2>1
    <3>2. b \in 1 .. n + 1 /\ blocks'[b] = blocks[b]
      BY <1>1, <1>3
    <3> QED BY <3>1, <3>2
  <2>2. CASE i \in index .. next - 1
    <3>1. n + 1 \in 1 .. n + 1 /\ \E k \in DOMAIN shown : shown[k] = i
      BY <1>1, <1>8, <2>2
    <3> QED BY <1>3, <3>1
  <2>3. i \in 1 .. index - 1 \/ i \in index .. next - 1
    BY <1>1
  <2> QED BY <2>1, <2>2, <2>3
<1>9. Readme!Shown' = UNION {{blocks'[b][k] : k \in DOMAIN blocks'[b]} : b \in 1 .. n + 1}
  BY <1>3, <1>4 DEF Readme!Shown
<1>10. /\ Readme!Shown' \subseteq 1 .. next - 1 /\ next <= Len(text) + 1
       /\ {i \in 1 .. next - 1 : text[i] \notin {"blank", "fence", "divider", "rule"}}
            \subseteq Readme!Shown'
  <2>1. next <= Len(text) + 1
    BY <1>1
  <2>2. ASSUME NEW x \in Readme!Shown' PROVE x \in 1 .. next - 1
    BY <1>6, <1>9
  <2>3. ASSUME NEW i \in 1 .. next - 1, text[i] \notin {"blank", "fence", "divider", "rule"}
        PROVE  i \in Readme!Shown'
    BY <1>8, <1>9, <2>3
  <2> QED BY <2>1, <2>2, <2>3
<1>11. Readme!EveryLineIsShown'
  BY <1>2, <1>3, <1>7, <1>10 DEF Readme!EveryLineIsShown, Readme!Size
<1>12. next \in 1 .. Len(text) + 1
  BY <1>1
<1> QED BY <1>1, <1>2, <1>3, <1>11, <1>12 DEF ReadmeInv

\* The lines from one to another.
LEMMA LinesAre ==
    ASSUME NEW i \in Nat, NEW j \in Nat, i <= j
    PROVE  /\ Readme!Lines(i, j) \in Seq(Nat) /\ DOMAIN Readme!Lines(i, j) = 1 .. j - i
           /\ \A k \in 1 .. j - i : Readme!Lines(i, j)[k] = i + k - 1
<1>1. j - i \in Nat /\ \A k \in 1 .. j - i : i + k - 1 \in Nat
  OBVIOUS
<1> QED BY <1>1 DEF Readme!Lines

LEMMA LinesTaken ==
    ASSUME ReadmeInv, NEW i \in index .. Len(text) + 1, NEW j \in i .. Len(text) + 1,
           NEW next \in j .. Len(text) + 1, Readme!Takes(Readme!Lines(i, j), next),
           \A k \in (index .. i - 1) \cup (j .. next - 1) : text[k] \in {"blank", "fence", "divider", "rule"}
    PROVE  ReadmeInv'
<1> DEFINE shown == Readme!Lines(i, j)
<1>1. index \in Nat /\ i \in Nat /\ j \in Nat /\ next \in Nat /\ i <= j /\ index <= i /\ j <= next
  BY DEF ReadmeInv
<1>2. /\ shown \in Seq(Nat) /\ DOMAIN shown = 1 .. j - i
      /\ \A k \in 1 .. j - i : shown[k] = i + k - 1
  BY <1>1, LinesAre
<1> HIDE DEF shown
<1>3. \A k \in DOMAIN shown : shown[k] \in index .. next - 1
  <2>1. \A k \in 1 .. j - i : i + k - 1 \in index .. next - 1
    BY <1>1
  <2> QED BY <1>2, <2>1
<1>4. \A k, l \in DOMAIN shown : k < l => shown[k] < shown[l]
  <2>1. \A k, l \in 1 .. j - i : k < l => i + k - 1 < i + l - 1
    BY <1>1
  <2> QED BY <1>2, <2>1
<1>5. ASSUME NEW x \in index .. next - 1, text[x] \notin {"blank", "fence", "divider", "rule"}
      PROVE  \E k \in DOMAIN shown : shown[k] = x
  <2>1. x \in i .. j - 1
    <3>1. x \notin index .. i - 1 /\ x \notin j .. next - 1
      BY <1>5
    <3> QED BY <1>1, <3>1
  <2>2. x - i + 1 \in 1 .. j - i /\ i + (x - i + 1) - 1 = x
    BY <1>1, <2>1
  <2> QED BY <1>2, <2>2
<1>6. next \in index .. Len(text) + 1
  BY <1>1
<1>7. Readme!Takes(shown, next)
  BY DEF shown
<1> QED BY <1>2, <1>3, <1>4, <1>5, <1>6, <1>7, BlockAdded

LEMMA BlockStep ==
    ASSUME ReadmeInv, Readme!ReadmeNext
    PROVE  ReadmeInv'
<1> DEFINE n == Len(text)
<1>1. n \in Nat /\ n = Len(text) /\ text \in Seq(Readme!Kinds) /\ index \in 1 .. n + 1 /\ index <= n
  BY LenProperties DEF ReadmeInv, Readme!ReadmeNext, Readme!Size
<1> HIDE DEF n
<1>2. index \in 1 .. n /\ index + 1 \in 1 .. n + 1 /\ index \in Nat
  BY <1>1
<1>3. CASE Readme!Blank
  <2>1. text[index] = "blank" /\ index' = index + 1 /\ UNCHANGED <<text, blocks>>
    BY <1>3 DEF Readme!Blank, Readme!Kind
  <2>2. \A i \in 1 .. index' - 1 : i \in 1 .. index - 1 \/ i = index
    BY <1>2, <2>1
  <2>3. 1 .. index - 1 \subseteq 1 .. index' - 1 /\ index' \in 1 .. n + 1 /\ index' <= n + 1
    BY <1>1, <1>2, <2>1
  <2>4. Readme!Shown' = Readme!Shown
    BY <2>1 DEF Readme!Shown
  <2>5. Readme!EveryLineIsShown'
    BY <1>1, <2>1, <2>2, <2>3, <2>4 DEF ReadmeInv, Readme!EveryLineIsShown, Readme!Size
  <2> QED BY <1>1, <2>1, <2>3, <2>5 DEF ReadmeInv
<1>4. CASE Readme!Code
  <2> DEFINE close == Readme!End(index + 1, Readme!Kinds \ {"fence"})
  <2>1. /\ text[index] = "fence"
        /\ Readme!Takes(Readme!Lines(index + 1, close), IF close <= n THEN close + 1 ELSE close)
    BY <1>1, <1>4 DEF Readme!Code, Readme!Kind, Readme!Size
  <2>2. /\ close \in index + 1 .. n + 1
        /\ close = n + 1 \/ text[close] \notin Readme!Kinds \ {"fence"}
    BY <1>1, <1>2, EndIs
  <2> HIDE DEF close
  <2>3. close <= n => text[close] = "fence"
    <3>1. \A k \in 1 .. n : text[k] \in Readme!Kinds
      BY <1>1, ElementOfSeq
    <3>2. close <= n => close \in 1 .. n /\ close # n + 1
      BY <1>1, <1>2, <2>2
    <3> QED BY <2>2, <3>1, <3>2
  <2> DEFINE next == IF close <= n THEN close + 1 ELSE close
  <2>4. /\ close \in Nat /\ next \in close .. n + 1 /\ index + 1 \in index .. n + 1
        /\ \A k \in index .. index + 1 - 1 : k = index
        /\ \A k \in close .. next - 1 : k = close /\ close <= n
    BY <1>1, <1>2, <2>2
  <2> HIDE DEF next
  <2>5. \A k \in (index .. index + 1 - 1) \cup (close .. next - 1) :
           text[k] \in {"blank", "fence", "divider", "rule"}
    BY <2>1, <2>3, <2>4
  <2>6. Readme!Takes(Readme!Lines(index + 1, close), next)
    BY <2>1 DEF next
  <2> QED BY <1>1, <2>2, <2>4, <2>5, <2>6, LinesTaken
<1>5. CASE Readme!Table
  <2> DEFINE next == Readme!End(index + 2, {"row", "divider"})
             rest == Readme!Lines(index + 2, next)
             shown == <<index>> \o rest
  <2>1. index < n /\ text[index + 1] \in {"divider", "rule"} /\ Readme!Takes(shown, next)
    BY <1>1, <1>5 DEF Readme!Table, Readme!IsTable, Readme!Size
  <2>2. index + 2 \in 1 .. n + 1 /\ index + 2 \in Nat
    BY <1>1, <1>2, <2>1
  <2>3. next \in index + 2 .. n + 1
    BY <1>1, <2>2, EndIs
  <2> HIDE DEF next
  <2>4. next \in Nat /\ index + 2 <= next
    BY <2>2, <2>3
  <2> DEFINE m == next - (index + 2)
  <2>5. /\ m \in Nat /\ rest \in Seq(Nat) /\ DOMAIN rest = 1 .. m /\ Len(rest) = m
        /\ \A k \in 1 .. m : rest[k] = (index + 2) + k - 1
    <3>1. m \in Nat
      BY <2>2, <2>4
    <3>2. /\ rest \in Seq(Nat) /\ DOMAIN rest = 1 .. m
          /\ \A k \in 1 .. m : rest[k] = (index + 2) + k - 1
      BY <2>2, <2>4, LinesAre
    <3> HIDE DEF m, rest
    <3> QED BY <3>1, <3>2, LenProperties
  <2> HIDE DEF rest
  <2>6. <<index>> \in Seq(Nat) /\ Len(<<index>>) = 1 /\ <<index>>[1] = index
    BY <1>2
  <2>7. /\ shown \in Seq(Nat) /\ Len(shown) = 1 + m
        /\ \A k \in 1 .. 1 + m : shown[k] = IF k <= 1 THEN <<index>>[k] ELSE rest[k - 1]
    BY <2>5, <2>6, ConcatProperties
  <2> HIDE DEF shown, m
  <2>8. DOMAIN shown = 1 .. 1 + m /\ \A k \in 1 .. 1 + m : shown[k] = IF k = 1 THEN index ELSE index + k
    <3>1. \A k \in 1 .. 1 + m : k = 1 \/ (~(k <= 1) /\ k - 1 \in 1 .. m /\ (index + 2) + (k - 1) - 1 = index + k)
      BY <1>2, <2>5
    <3>2. DOMAIN shown = 1 .. 1 + m
      BY <2>7, LenProperties
    <3> QED BY <2>5, <2>6, <2>7, <3>1, <3>2
  <2>9. \A k \in 1 .. 1 + m : (IF k = 1 THEN index ELSE index + k) \in index .. next - 1
    BY <1>2, <2>4, <2>5 DEF m
  <2>10. \A k, l \in 1 .. 1 + m : k < l =>
            (IF k = 1 THEN index ELSE index + k) < (IF l = 1 THEN index ELSE index + l)
    BY <1>2, <2>5
  <2>11. ASSUME NEW i \in index .. next - 1, text[i] \notin {"blank", "fence", "divider", "rule"}
         PROVE  \E k \in DOMAIN shown : shown[k] = i
    <3>1. i # index + 1
      BY <2>1, <2>11
    <3>2. CASE i = index
      BY <2>5, <2>8, <3>2
    <3>3. CASE i # index
      <4>1. i - index \in 1 .. 1 + m /\ i - index # 1 /\ index + (i - index) = i
        BY <1>2, <2>4, <3>1, <3>3 DEF m
      <4> QED BY <2>8, <4>1
    <3> QED BY <3>2, <3>3
  <2>12. next \in index .. Len(text) + 1
    BY <1>1, <1>2, <2>3
  <2>13. /\ \A k \in DOMAIN shown : shown[k] \in index .. next - 1
         /\ \A k, l \in DOMAIN shown : k < l => shown[k] < shown[l]
    BY <2>8, <2>9, <2>10
  <2> QED BY <2>1, <2>7, <2>11, <2>12, <2>13, BlockAdded DEF shown
<1>6. CASE Readme!Line
  <2> DEFINE shown == <<index>>
             next == index + 1
  <2>1. Readme!Takes(shown, next)
    BY <1>6 DEF Readme!Line
  <2>2. shown \in Seq(Nat) /\ DOMAIN shown = {1} /\ shown[1] = index
    BY <1>2
  <2>3. /\ next \in index .. Len(text) + 1 /\ index \in index .. next - 1
        /\ \A i \in index .. next - 1 : i = index
    BY <1>1, <1>2
  <2> HIDE DEF shown, next
  <2>4. /\ \A k \in DOMAIN shown : shown[k] \in index .. next - 1
        /\ \A i \in index .. next - 1 : \E k \in DOMAIN shown : shown[k] = i
    BY <2>2, <2>3
  <2>5. \A k, l \in DOMAIN shown : k < l => shown[k] < shown[l]
    BY <2>2
  <2> QED BY <2>1, <2>2, <2>3, <2>4, <2>5, BlockAdded
<1>7. ASSUME NEW next \in index .. n + 1, Readme!Takes(Readme!Lines(index, next), next)
      PROVE  ReadmeInv'
  <2>1. /\ index \in index .. Len(text) + 1 /\ next \in index .. Len(text) + 1
        /\ next \in next .. Len(text) + 1
        /\ (index .. index - 1) \cup (next .. next - 1) = {}
    BY <1>1, <1>2
  <2> QED BY <1>7, <2>1, LinesTaken
<1>8. CASE Readme!Group
  <2> DEFINE next == Readme!End(index, {text[index]})
  <2>1. Readme!Takes(Readme!Lines(index, next), next)
    BY <1>8 DEF Readme!Group, Readme!Kind
  <2>2. next \in index .. n + 1
    BY <1>1, EndIs
  <2> QED BY <1>7, <2>1, <2>2
<1>9. CASE Readme!Paragraph
  <2> DEFINE next == Readme!End(index + 1, Readme!Kinds \ Readme!Marks)
  <2>1. Readme!Takes(Readme!Lines(index, next), next)
    BY <1>9 DEF Readme!Paragraph
  <2>2. next \in index + 1 .. n + 1
    BY <1>1, <1>2, EndIs
  <2> HIDE DEF next
  <2>3. next \in index .. n + 1
    BY <1>2, <2>2
  <2> QED BY <1>7, <2>1, <2>3
<1> QED BY <1>3, <1>4, <1>5, <1>6, <1>8, <1>9 DEF Readme!ReadmeNext

(* However long a README is, no line of it is lost, shown twice or moved:      *)
(* only blank lines, fences and the dividers of tables are left out, by both   *)
(* of the readers that cut it into blocks (RepositoryBrowser.tsx,              *)
(* RepositoryHubPanel.tsx).                                                    *)
THEOREM ReadmeIsShownWhole ==
    ASSUME Readme!ReadmeAssumption
    PROVE  Readme!ReadmeSpec => []Readme!EveryLineIsShown
<1>1. Readme!ReadmeInit => ReadmeInv
  <2> SUFFICES ASSUME Readme!ReadmeInit PROVE ReadmeInv
    OBVIOUS
  <2>1. PICK n \in 0 .. MaxLines : text \in [1 .. n -> Readme!Kinds]
    BY DEF Readme!ReadmeInit
  <2>2. n \in Nat
    BY DEF Readme!ReadmeAssumption
  <2>3. text \in Seq(Readme!Kinds) /\ Len(text) = n
    BY <2>1, <2>2
  <2>4. index = 1 /\ blocks = <<>>
    BY DEF Readme!ReadmeInit
  <2>5. 1 .. index - 1 = {} /\ index \in 1 .. Len(text) + 1 /\ index <= Len(text) + 1
    BY <2>2, <2>3, <2>4
  <2>6. DOMAIN blocks = {} /\ blocks \in Seq(Seq(Nat))
    BY <2>4
  <2>7. Readme!Shown = {}
    BY <2>6 DEF Readme!Shown
  <2>8. {i \in 1 .. index - 1 : text[i] \notin {"blank", "fence", "divider", "rule"}} = {}
    BY <2>5
  <2> QED BY <2>3, <2>5, <2>6, <2>7, <2>8 DEF ReadmeInv, Readme!EveryLineIsShown, Readme!Size
<1>2. ReadmeInv => Readme!EveryLineIsShown
  BY DEF ReadmeInv
<1>3. ASSUME ReadmeInv, [Readme!ReadmeNext]_(Readme!readmeVars)
      PROVE  ReadmeInv'
  <2>1. CASE UNCHANGED Readme!readmeVars
    <3>1. UNCHANGED <<text, index, blocks>>
      BY <2>1 DEF Readme!readmeVars
    <3>2. Readme!Shown' = Readme!Shown
      BY <3>1 DEF Readme!Shown
    <3> QED BY <1>3, <3>1, <3>2 DEF ReadmeInv, Readme!EveryLineIsShown, Readme!Size
  <2>2. CASE Readme!ReadmeNext
    BY <1>3, <2>2, BlockStep
  <2> QED BY <1>3, <2>1, <2>2
<1> QED BY <1>1, <1>2, <1>3, PTL DEF Readme!ReadmeSpec

=============================================================================
