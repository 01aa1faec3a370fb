---------------------------- MODULE ReaderProofs ----------------------------
(***************************************************************************)
(* The reader of books and the room around it: focus sessions and their    *)
(* outbox, the download that the reader's mounts share, the stored choice  *)
(* of a model and the entry of the history that guards a session, and the  *)
(* questions that the reader asks the study assistant.                     *)
(* A session that ended is recorded or waits to be, and one that runs is   *)
(* remembered; a download runs for exactly the readers that wait for it;   *)
(* nothing but the reader's own choice replaces a stored one, and the      *)
(* browser's button does not leave a session; one question is under way,   *)
(* without the turns that were replaced: for any number of sessions,       *)
(* mounts, visits, models and questions, and any size of the outbox.       *)
(*                                                                         *)
(* The parts share no variable.                                            *)
(***************************************************************************)
EXTENDS ReadingSessions, SequenceTheorems, FiniteSetTheorems, FunctionTheorems,
        WellFoundedInduction, TLAPS

CONSTANTS MaxMounts,                     \* of the document
          Models, MaxVisits, MaxEntries, \* of the room
          KeptMessages, RecentMessages, KeptThreads, MaxQuestions, MaxOpenings \* of the chat

VARIABLES downloads, sharing, mounts,    \* of the document
          choice, shared, trail,         \* of the room
          chat, saved, asks              \* of the chat

Document == INSTANCE ReaderDocument

Room == INSTANCE ReaderRoom

Threads == INSTANCE StudyThreads

-----------------------------------------------------------------------------
(* The room                                                                *)

Choice == [visit : Nat, loading : BOOLEAN, offered : SUBSET Models, model : Models \cup {Nothing},
           book : BOOLEAN]

Trail == [focused : BOOLEAN, guard : BOOLEAN, entries : 0 .. MaxEntries, backs : Nat]

\* A session has its guard, and an entry to go back to.
Guarded ==
    /\ trail \in Trail
    /\ trail.guard <=> trail.focused
    /\ trail.focused => trail.entries > 0

RoomInv ==
    /\ choice \in Choice
    /\ shared \in [model : Models \cup {Nothing}, connection : BOOLEAN, aside : BOOLEAN]
    /\ Guarded

LEMMA SelectedIsOffered ==
    ASSUME NEW offered \in SUBSET Models, NEW configured \in Models \cup {Nothing},
           shared.model \in Models \cup {Nothing}
    PROVE  /\ Room!Selected(offered, configured) \in Models \cup {Nothing}
           /\ shared.model # Nothing =>
                Room!Selected(offered, configured) \in {Nothing, shared.model}
<1>1. Room!Cardinality(offered) = 1 => offered # {}
  <2>1. Room!Cardinality({}) = Cardinality({})
    BY Zenon DEF Cardinality, Room!Cardinality
  <2>2. Cardinality({}) = 0
    BY FS_EmptySet
  <2>3. Room!Cardinality({}) # 1
    BY <2>1, <2>2
  <2> QED BY <2>3
<1> DEFINE one == CHOOSE m \in offered : TRUE
<1>2. offered # {} => one \in offered
  OBVIOUS
<1> DEFINE initial == IF shared.model # Nothing THEN shared.model ELSE configured
           model == Room!Selected(offered, configured)
<1>3. model = IF initial \in offered THEN initial
              ELSE IF initial = Nothing /\ Room!Cardinality(offered) = 1 THEN one ELSE Nothing
  BY Zenon DEF Room!Selected
<1>4. initial \in Models \cup {Nothing} /\ (shared.model # Nothing => initial = shared.model)
  OBVIOUS
<1> HIDE DEF one, initial, model
<1>5. /\ model \in Models \cup {Nothing}
      /\ shared.model # Nothing => model \in {Nothing, shared.model}
  BY <1>1, <1>2, <1>3, <1>4
<1> QED BY <1>5 DEF model

LEMMA RoomChoices ==
    ASSUME Room!RoomAssumption, RoomInv, [Room!RoomNext]_(Room!roomVars)
    PROVE  /\ choice' \in Choice
           /\ shared' \in [model : Models \cup {Nothing}, connection : BOOLEAN, aside : BOOLEAN]
           /\ Room!ChoiceStep
<1> DEFINE Stored == [model : Models \cup {Nothing}, connection : BOOLEAN, aside : BOOLEAN]
<1>0. choice \in Choice /\ shared \in Stored
  BY DEF RoomInv
<1>1. CASE Room!ModelsAnswered
  <2>1. ASSUME NEW offered \in SUBSET Models, NEW configured \in Models \cup {Nothing},
               LET model == Room!Selected(offered, configured)
               IN /\ choice' = [choice EXCEPT !.loading = FALSE, !.offered = offered, !.model = model]
                  /\ shared' = Room!Remembered(model)
        PROVE  choice' \in Choice /\ shared' \in Stored /\ Room!ChoiceStep
    <3> DEFINE model == Room!Selected(offered, configured)
    <3>1. /\ model \in Models \cup {Nothing}
          /\ shared.model # Nothing => model \in {Nothing, shared.model}
      BY <1>0, SelectedIsOffered
    <3>2. choice' = [choice EXCEPT !.loading = FALSE, !.offered = offered, !.model = model]
          /\ shared' = Room!Remembered(model)
      BY <2>1
    <3> HIDE DEF model
    <3>3. choice' \in Choice
      BY <1>0, <3>1, <3>2 DEF Choice
    <3>4. shared' \in Stored /\ (shared.model # Nothing => shared' = shared)
      BY <1>0, <3>1, <3>2 DEF Room!Remembered
    <3> QED BY <3>3, <3>4 DEF Room!ChoiceStep
  <2>2. CASE choice' = [choice EXCEPT !.loading = FALSE] /\ UNCHANGED shared
    BY <1>0, <2>2 DEF Choice, Room!ChoiceStep
  <2> QED BY <1>1, <2>1, <2>2 DEF Room!ModelsAnswered
<1>2. CASE Room!ChangeModel
  BY <1>0, <1>2 DEF Room!ChangeModel, Choice, Room!ChoiceStep
<1>3. CASE Room!BookOpens
  BY <1>0, <1>3 DEF Room!BookOpens, Choice, Room!ChoiceStep
<1>4. CASE Room!AssistantChooses
  BY <1>0, <1>4 DEF Room!AssistantChooses, Choice, Room!ChoiceStep
<1>5. CASE Room!Visit
  BY <1>0, <1>5 DEF Room!Visit, Room!NewChoice, Choice, Room!ChoiceStep
<1>6. CASE UNCHANGED <<choice, shared>>
  BY <1>0, <1>6 DEF Room!ChoiceStep
<1> QED BY <1>1, <1>2, <1>3, <1>4, <1>5, <1>6
        DEF Room!RoomNext, Room!roomVars, Room!EnterFocus, Room!LeaveFocus, Room!PressBack, Room!Back

LEMMA SessionIsGuarded ==
    ASSUME Room!RoomAssumption, RoomInv, [Room!RoomNext]_(Room!roomVars)
    PROVE  Guarded'
<1>0. Guarded /\ MaxEntries \in Nat \ {0}
  BY DEF RoomInv, Room!RoomAssumption
<1>1. CASE UNCHANGED trail
  BY <1>0, <1>1 DEF Guarded, Trail
<1>2. CASE Room!Visit
  BY <1>0, <1>2 DEF Room!Visit, Trail, Guarded
<1>3. CASE Room!EnterFocus
  <2> DEFINE entries == trail.entries + 1
             backs == trail.backs
  <2>1. trail' = [trail EXCEPT !.focused = TRUE, !.guard = TRUE, !.entries = entries, !.backs = backs]
    BY <1>0, <1>3 DEF Room!EnterFocus, Guarded, Trail
  <2>2. entries \in 0 .. MaxEntries /\ backs \in Nat /\ (TRUE => entries > 0)
    BY <1>0, <1>3 DEF Room!EnterFocus, Guarded, Trail
  <2> HIDE DEF entries, backs
  <2> QED BY <1>0, <2>1, <2>2 DEF Guarded, Trail
<1>4. CASE Room!LeaveFocus
  <2> DEFINE entries == trail.entries
             backs == trail.backs + 1
  <2>1. trail' = [trail EXCEPT !.focused = FALSE, !.guard = FALSE, !.entries = entries, !.backs = backs]
    BY <1>0, <1>4 DEF Room!LeaveFocus, Guarded, Trail
  <2>2. entries \in 0 .. MaxEntries /\ backs \in Nat /\ (FALSE => entries > 0)
    BY <1>0, <1>4 DEF Room!LeaveFocus, Guarded, Trail
  <2> HIDE DEF entries, backs
  <2> QED BY <1>0, <2>1, <2>2 DEF Guarded, Trail
<1>5. CASE Room!PressBack
  BY <1>0, <1>5 DEF Room!PressBack, Trail, Guarded
<1>6. CASE Room!Back
  <2> DEFINE entries == IF trail.guard THEN trail.entries ELSE trail.entries - 1
             backs == trail.backs - 1
  <2>1. trail' = [trail EXCEPT !.focused = trail.focused, !.guard = trail.guard, !.entries = entries, !.backs = backs]
    BY <1>0, <1>6 DEF Room!Back, Guarded, Trail
  <2>2. entries \in 0 .. MaxEntries /\ backs \in Nat /\ (trail.focused => entries > 0)
    BY <1>0, <1>6 DEF Room!Back, Guarded, Trail
  <2> HIDE DEF entries, backs
  <2> QED BY <1>0, <2>1, <2>2 DEF Guarded, Trail
<1> QED BY <1>1, <1>2, <1>3, <1>4, <1>5, <1>6
     DEF Room!RoomNext, Room!roomVars, Room!ModelsAnswered, Room!ChangeModel, Room!BookOpens,
         Room!AssistantChooses

(* The model that ShelfPDFReaderPage.tsx stores is replaced by a choice of the *)
(* reader only, and during a focus session the browser's history has an entry  *)
(* to go back to without leaving the page.                                     *)
THEOREM RoomKeepsItsPromises ==
    ASSUME Room!RoomAssumption
    PROVE  Room!RoomSpec => [](Room!RoomTypeOK /\ Room!GuardStays) /\ Room!StoredChoiceSurvives
<1>1. Room!RoomInit => RoomInv
  <2> SUFFICES ASSUME Room!RoomInit PROVE RoomInv
    OBVIOUS
  <2>1. Guarded
    BY DEF Room!RoomInit, Room!NoGuard, Guarded, Trail, Room!RoomAssumption
  <2>2. choice \in Choice
    BY DEF Room!RoomInit, Room!NewChoice, Choice
  <2>3. shared \in [model : Models \cup {Nothing}, connection : BOOLEAN, aside : BOOLEAN]
    BY DEF Room!RoomInit
  <2> QED BY <2>1, <2>2, <2>3 DEF RoomInv
<1>2. RoomInv /\ [Room!RoomNext]_(Room!roomVars)
        => RoomInv' /\ [Room!ChoiceStep]_(Room!roomVars)
  BY SessionIsGuarded, RoomChoices DEF RoomInv
<1>3. RoomInv => Room!RoomTypeOK /\ Room!GuardStays
  BY DEF RoomInv, Guarded, Choice, Trail, Room!RoomTypeOK, Room!GuardStays
<1> QED BY <1>1, <1>2, <1>3, PTL DEF Room!RoomSpec, Room!StoredChoiceSurvives

-----------------------------------------------------------------------------
(* The download of a book                                                  *)

Stages == {"binary", "json", "received", "failed", "aborted"}

Download == [stage : Stages, consumers : 0 .. 1, timer : BOOLEAN]

ReaderOf(ds) == [request : DOMAIN ds, mounted : BOOLEAN,
                 stage : {"waiting", "parsing", "open", "error", "gone"}]

\* The reader m is there and has the request d.
Reads(m, d) == mounts[m].mounted /\ mounts[m].request = d

Read(d) == \E m \in DOMAIN mounts : Reads(m, d)

DocumentTyped ==
    /\ downloads \in Seq(Download)
    /\ sharing \in 0 .. Len(downloads)
    /\ mounts \in Seq(ReaderOf(downloads))

OneReader ==
    \A m, n \in DOMAIN mounts : mounts[m].mounted /\ mounts[n].mounted => m = n

\* A request counts its reader, settled or not; the one that is shared is the one
\* that is under way.
Counts(d) ==
    /\ Document!Settled(downloads[d]) <=> sharing # d
    /\ downloads[d].consumers = IF Read(d) THEN 1 ELSE 0
    /\ ~Document!Settled(downloads[d]) => (downloads[d].timer <=> ~Read(d))
    /\ downloads[d].stage = "aborted" => ~Read(d)

DocumentInv ==
    /\ DocumentTyped
    /\ OneReader
    /\ \A d \in DOMAIN downloads : Counts(d)

\* The requests and readers one by one.
LEMMA DocumentFields ==
    ASSUME DocumentTyped
    PROVE  /\ Len(downloads) \in Nat /\ DOMAIN downloads = 1 .. Len(downloads)
           /\ Len(mounts) \in Nat /\ DOMAIN mounts = 1 .. Len(mounts)
           /\ \A d \in DOMAIN downloads : downloads[d] \in Download
           /\ \A m \in DOMAIN mounts : mounts[m] \in ReaderOf(downloads)
BY DEF DocumentTyped

LEMMA SettleStep ==
    ASSUME DocumentInv, NEW d \in DOMAIN downloads, ~Document!Settled(downloads[d]),
           NEW stage \in {"received", "failed", "aborted"}, NEW timer \in BOOLEAN,
           NEW ds, ds = [downloads EXCEPT ![d] = [downloads[d] EXCEPT !.timer = timer]],
           stage = "aborted" => downloads[d].consumers = 0,
           Document!Settle(d, stage, ds)
    PROVE  DocumentInv'
<1> DEFINE done == [downloads[d] EXCEPT !.timer = timer, !.stage = stage]
<1>1. downloads[d] \in Download /\ done \in Download /\ Document!Settled(done)
  BY DocumentFields DEF DocumentInv, Download, Stages, Document!Settled
<1>2. downloads' = [downloads EXCEPT ![d] = done]
  <2>1. downloads' = [ds EXCEPT ![d].stage = stage]
    BY DEF Document!Settle
  <2>2. DOMAIN ds = DOMAIN downloads /\ ds[d] = [downloads[d] EXCEPT !.timer = timer]
    OBVIOUS
  <2>3. [ds[d] EXCEPT !.stage = stage] = done
    BY <1>1, <2>2 DEF Download
  <2>4. downloads' = [ds EXCEPT ![d] = done]
    BY <2>1, <2>3
  <2> HIDE DEF done
  <2> QED BY <2>4
<1> HIDE DEF done
<1>3. /\ downloads' \in Seq(Download) /\ Len(downloads') = Len(downloads)
      /\ DOMAIN downloads' = DOMAIN downloads
      /\ \A e \in DOMAIN downloads : downloads'[e] = IF e = d THEN done ELSE downloads[e]
  BY <1>1, <1>2 DEF DocumentInv, DocumentTyped
<1>4. sharing = d /\ sharing' = 0
  BY DEF DocumentInv, Counts, Document!Settle
<1> DEFINE shown(m) ==
      IF mounts[m].request # d \/ mounts[m].stage # "waiting" THEN mounts[m]
      ELSE [mounts[m] EXCEPT !.stage = IF ~mounts[m].mounted THEN "gone"
                                       ELSE IF stage = "received" THEN "parsing" ELSE "error"]
<1>5. ASSUME NEW m \in DOMAIN mounts
      PROVE  /\ shown(m) \in ReaderOf(downloads)
             /\ shown(m).mounted = mounts[m].mounted /\ shown(m).request = mounts[m].request
  <2>1. mounts[m] \in ReaderOf(downloads)
    BY DocumentFields DEF DocumentInv
  <2> QED BY <2>1 DEF ReaderOf
<1>6. mounts' = [m \in DOMAIN mounts |-> shown(m)]
  BY Zenon DEF Document!Settle
<1> HIDE DEF shown
<1>7. /\ DOMAIN mounts' = DOMAIN mounts
      /\ \A m \in DOMAIN mounts : /\ mounts'[m] \in ReaderOf(downloads)
                                  /\ mounts'[m].mounted = mounts[m].mounted
                                  /\ mounts'[m].request = mounts[m].request
  BY <1>5, <1>6
<1>8. ReaderOf(downloads') = ReaderOf(downloads)
  BY <1>3 DEF ReaderOf
<1>9. mounts' \in Seq(ReaderOf(downloads'))
  <2>1. DOMAIN mounts = 1 .. Len(mounts) /\ Len(mounts) \in Nat
    BY DocumentFields DEF DocumentInv
  <2> QED BY <1>6, <1>7, <1>8, <2>1, IsASeq
<1>10. \A e \in DOMAIN downloads : Read(e)' <=> Read(e)
  BY <1>7 DEF Read, Reads
<1>11. ASSUME NEW e \in DOMAIN downloads PROVE Counts(e)'
  <2>1. CASE e = d
    <3>1. downloads'[e] = done /\ done.consumers = downloads[d].consumers /\ done.stage = stage
      BY <1>1, <1>3, <2>1 DEF done, Download
    <3>2. stage = "aborted" => ~Read(d)
      BY DEF DocumentInv, Counts
    <3>3. sharing' # e
      BY <1>4, DocumentFields DEF DocumentInv
    <3> QED BY <1>1, <1>10, <2>1, <3>1, <3>2, <3>3 DEF Counts, DocumentInv
  <2>2. CASE e # d
    <3>1. downloads'[e] = downloads[e] /\ sharing # e
      BY <1>3, <1>4, <2>2
    <3>2. sharing' # e
      BY <1>4, DocumentFields DEF DocumentInv
    <3>3. Counts(e)
      BY DEF DocumentInv
    <3> QED BY <1>10, <3>1, <3>2, <3>3 DEF Counts
  <2> QED BY <2>1, <2>2
<1>12. OneReader'
  BY <1>7 DEF DocumentInv, OneReader
<1>13. sharing' \in 0 .. Len(downloads')
  BY <1>3, <1>4, DocumentFields DEF DocumentInv
<1> QED BY <1>3, <1>9, <1>11, <1>12, <1>13 DEF DocumentInv, DocumentTyped

LEMMA MountStep ==
    ASSUME DocumentInv, Document!Mount
    PROVE  DocumentInv'
<1> DEFINE fresh == sharing = 0
           d == IF fresh THEN Len(downloads) + 1 ELSE sharing
           ds == IF fresh THEN Append(downloads, Document!NewDownload) ELSE downloads
           reader == [request |-> d, mounted |-> TRUE, stage |-> "waiting"]
<1>1. /\ \A m \in DOMAIN mounts : ~mounts[m].mounted
      /\ downloads' = [ds EXCEPT ![d] = Document!Acquire(ds[d])]
      /\ sharing' = d /\ mounts' = Append(mounts, reader)
  BY Zenon DEF Document!Mount
<1>2. /\ downloads \in Seq(Download) /\ sharing \in 0 .. Len(downloads)
      /\ mounts \in Seq(ReaderOf(downloads)) /\ OneReader
      /\ \A e \in DOMAIN downloads : Counts(e)
  BY DEF DocumentInv, DocumentTyped
<1>3. \A e \in DOMAIN downloads : ~Read(e)
  BY <1>1 DEF Read, Reads
<1>4. Document!NewDownload \in Download
  BY DEF Document!NewDownload, Download, Stages
<1>5. /\ ds \in Seq(Download) /\ d \in 1 .. Len(ds) /\ DOMAIN ds = 1 .. Len(ds)
      /\ Len(ds) >= Len(downloads)
  BY <1>2, <1>4
<1>6. ~Document!Settled(ds[d]) /\ ds[d].consumers = 0
  <2>1. CASE fresh
    <3>1. ds[d] = Document!NewDownload
      BY <1>2, <2>1
    <3> QED BY <3>1 DEF Document!NewDownload, Document!Settled
  <2>2. CASE ~fresh
    <3>1. d \in DOMAIN downloads /\ ds[d] = downloads[d] /\ sharing = d
      BY <1>2, <2>2
    <3>2. Counts(d)
      BY <1>2, <3>1
    <3> QED BY <1>3, <3>1, <3>2 DEF Counts
  <2> QED BY <2>1, <2>2
<1>7. ASSUME NEW e \in DOMAIN ds, e # d
      PROVE  e \in DOMAIN downloads /\ ds[e] = downloads[e] /\ sharing # e
  BY <1>2, <1>5, <1>7
<1>8. ReaderOf(downloads) \subseteq ReaderOf(ds) /\ reader \in ReaderOf(ds)
  BY <1>2, <1>5 DEF ReaderOf
<1> HIDE DEF fresh, d, ds
<1> DEFINE got == Document!Acquire(ds[d])
<1>9. /\ got \in Download /\ got.consumers = 1 /\ ~got.timer /\ got.stage = ds[d].stage
  <2>1. ds[d] \in Download
    BY <1>5
  <2> DEFINE off == FALSE
             one == 1
  <2>2. got = [ds[d] EXCEPT !.timer = off, !.consumers = one]
    BY <1>6 DEF Document!Acquire
  <2>3. off \in BOOLEAN /\ ~off /\ one \in 0 .. 1 /\ one = 1
    OBVIOUS
  <2> HIDE DEF got, off, one
  <2> QED BY <2>1, <2>2, <2>3 DEF Download
<1> HIDE DEF got
<1>10. /\ downloads' = [ds EXCEPT ![d] = got] /\ downloads' \in Seq(Download)
       /\ Len(downloads') = Len(ds) /\ DOMAIN downloads' = DOMAIN ds
       /\ \A e \in DOMAIN ds : downloads'[e] = IF e = d THEN got ELSE ds[e]
  BY <1>1, <1>5, <1>9 DEF got
<1>11. ReaderOf(downloads') = ReaderOf(ds)
  BY <1>10 DEF ReaderOf
<1>12. mounts \in Seq(ReaderOf(ds))
  BY <1>2, <1>8
<1> HIDE DEF reader
<1>13. /\ mounts' \in Seq(ReaderOf(downloads'))
       /\ Len(mounts') = Len(mounts) + 1 /\ DOMAIN mounts' = 1 .. Len(mounts) + 1
       /\ \A m \in DOMAIN mounts : mounts'[m] = mounts[m]
       /\ mounts'[Len(mounts) + 1] = reader
       /\ Len(mounts) \in Nat /\ DOMAIN mounts = 1 .. Len(mounts)
  BY <1>1, <1>8, <1>11, <1>12
<1>14. \A m \in DOMAIN mounts' : mounts'[m].mounted => m = Len(mounts) + 1
  BY <1>1, <1>13
<1>15. OneReader'
  BY <1>14 DEF OneReader
<1>16. ASSUME NEW e \in DOMAIN ds PROVE Counts(e)'
  <2>1. Read(e)' <=> e = d
    <3>1. reader.mounted /\ reader.request = d
      BY DEF reader
    <3> QED BY <1>13, <1>14, <3>1 DEF Read, Reads
  <2>2. CASE e = d
    <3>1. downloads'[e].stage = ds[d].stage /\ downloads'[e].consumers = 1
          /\ ~downloads'[e].timer
      BY <1>9, <1>10, <2>2
    <3> QED BY <1>1, <1>6, <2>1, <2>2, <3>1 DEF Counts, Document!Settled
  <2>3. CASE e # d
    <3>1. e \in DOMAIN downloads /\ downloads'[e] = downloads[e] /\ sharing # e
      BY <1>7, <1>10, <2>3
    <3>2. Counts(e) /\ ~Read(e)
      BY <1>2, <1>3, <3>1
    <3> QED BY <1>1, <2>1, <2>3, <3>1, <3>2 DEF Counts
  <2> QED BY <2>2, <2>3
<1>17. sharing' \in 0 .. Len(downloads')
  BY <1>1, <1>5, <1>10
<1> QED BY <1>10, <1>13, <1>15, <1>16, <1>17 DEF DocumentInv, DocumentTyped

LEMMA UnmountStep ==
    ASSUME DocumentInv, Document!Unmount
    PROVE  DocumentInv'
<1>1. PICK m \in DOMAIN mounts :
        /\ mounts[m].mounted
        /\ mounts' = [mounts EXCEPT ![m].mounted = FALSE]
        /\ downloads' = [downloads EXCEPT ![mounts[m].request] = Document!Release(downloads[mounts[m].request])]
        /\ sharing' = sharing
  BY Zenon DEF Document!Unmount
<1>2. /\ downloads \in Seq(Download) /\ sharing \in 0 .. Len(downloads)
      /\ mounts \in Seq(ReaderOf(downloads)) /\ OneReader
      /\ \A e \in DOMAIN downloads : Counts(e)
  BY DEF DocumentInv, DocumentTyped
<1>3. mounts[m] \in ReaderOf(downloads)
  BY <1>2
<1> DEFINE d == mounts[m].request
           left == Document!Release(downloads[d])
           gone == [mounts[m] EXCEPT !.mounted = FALSE]
<1>4. d \in DOMAIN downloads /\ gone \in ReaderOf(downloads) /\ ~gone.mounted
  BY <1>3 DEF ReaderOf
<1>5. Read(d) /\ Counts(d) /\ downloads[d] \in Download
  BY <1>1, <1>2, <1>4 DEF Read, Reads
<1>6. /\ left \in Download /\ left.stage = downloads[d].stage /\ left.consumers = 0
      /\ (~Document!Settled(downloads[d]) => left.timer)
  <2>1. downloads[d].consumers = 1 /\ downloads[d].timer \in BOOLEAN
    BY <1>5 DEF Counts, Download
  <2> DEFINE settled == Document!Settled(downloads[d])
             timer == downloads[d].timer \/ (0 = 0 /\ ~settled)
  <2> DEFINE none == 0
  <2>2. left = [downloads[d] EXCEPT !.consumers = none, !.timer = timer]
    BY <2>1 DEF Document!Release
  <2>3. timer \in BOOLEAN /\ (~settled => timer) /\ none \in 0 .. 1 /\ none = 0
    BY <2>1
  <2> HIDE DEF timer, left, none
  <2> QED BY <1>5, <2>2, <2>3 DEF Download
<1>7. downloads' = [downloads EXCEPT ![d] = left]
  BY <1>1
<1>8. mounts' = [mounts EXCEPT ![m] = gone]
  BY <1>1
<1> HIDE DEF d, left, gone
<1>9. /\ downloads' \in Seq(Download) /\ Len(downloads') = Len(downloads)
      /\ DOMAIN downloads' = DOMAIN downloads
      /\ \A e \in DOMAIN downloads : downloads'[e] = IF e = d THEN left ELSE downloads[e]
  BY <1>2, <1>4, <1>6, <1>7
<1>10. ReaderOf(downloads') = ReaderOf(downloads)
  BY <1>9 DEF ReaderOf
<1>11. /\ mounts' \in Seq(ReaderOf(downloads'))
       /\ DOMAIN mounts' = DOMAIN mounts
       /\ \A n \in DOMAIN mounts : mounts'[n] = IF n = m THEN gone ELSE mounts[n]
  BY <1>2, <1>4, <1>8, <1>10
<1>12. \A n \in DOMAIN mounts' : ~mounts'[n].mounted
  BY <1>1, <1>2, <1>4, <1>11 DEF OneReader
<1>13. OneReader' /\ \A e \in DOMAIN downloads : ~Read(e)'
  BY <1>12 DEF OneReader, Read, Reads
<1>14. ASSUME NEW e \in DOMAIN downloads PROVE Counts(e)'
  <2>1. CASE e = d
    <3>1. downloads'[e].stage = downloads[d].stage /\ downloads'[e].consumers = 0
          /\ (~Document!Settled(downloads[d]) => downloads'[e].timer)
      BY <1>6, <1>9, <2>1
    <3> QED BY <1>1, <1>5, <1>13, <2>1, <3>1 DEF Counts, Document!Settled
  <2>2. CASE e # d
    <3>1. downloads'[e] = downloads[e]
      BY <1>9, <2>2
    <3>2. ~Read(e)
      <4>1. \A n \in DOMAIN mounts : Reads(n, e) => n = m
        BY <1>1, <1>2 DEF OneReader, Reads
      <4>2. ~Reads(m, e)
        BY <2>2 DEF Reads, d
      <4> QED BY <4>1, <4>2 DEF Read
    <3>3. Counts(e)
      BY <1>2
    <3> QED BY <1>1, <1>13, <3>1, <3>2, <3>3 DEF Counts
  <2> QED BY <2>1, <2>2
<1>15. sharing' \in 0 .. Len(downloads')
  BY <1>1, <1>2, <1>9
<1> QED BY <1>9, <1>11, <1>13, <1>14, <1>15 DEF DocumentInv, DocumentTyped

\* A request changes, but neither who counts on it nor whether it is under way.
LEMMA RequestGoesOn ==
    ASSUME DocumentInv, NEW d \in DOMAIN downloads, NEW next \in Download,
           next.consumers = downloads[d].consumers,
           Document!Settled(next) <=> Document!Settled(downloads[d]),
           next.stage = "aborted" => downloads[d].stage = "aborted",
           ~Document!Settled(next) => (next.timer <=> downloads[d].timer),
           downloads' = [downloads EXCEPT ![d] = next], UNCHANGED <<sharing, mounts>>
    PROVE  DocumentInv'
<1>1. /\ downloads \in Seq(Download) /\ sharing \in 0 .. Len(downloads)
      /\ mounts \in Seq(ReaderOf(downloads)) /\ OneReader
      /\ \A e \in DOMAIN downloads : Counts(e)
  BY DEF DocumentInv, DocumentTyped
<1>2. /\ downloads' \in Seq(Download) /\ Len(downloads') = Len(downloads)
      /\ DOMAIN downloads' = DOMAIN downloads
      /\ \A e \in DOMAIN downloads : downloads'[e] = IF e = d THEN next ELSE downloads[e]
  BY <1>1
<1>3. ReaderOf(downloads') = ReaderOf(downloads)
  BY <1>2 DEF ReaderOf
<1>4. OneReader' /\ \A e : Read(e)' <=> Read(e)
  BY <1>1 DEF OneReader, Read, Reads
<1>5. ASSUME NEW e \in DOMAIN downloads PROVE Counts(e)'
  <2>1. Counts(e)
    BY <1>1
  <2>2. CASE e = d
    <3>1. downloads'[e] = next
      BY <1>2, <2>2
    <3> QED BY <1>4, <2>1, <2>2, <3>1 DEF Counts
  <2>3. CASE e # d
    <3>1. downloads'[e] = downloads[e]
      BY <1>2, <2>3
    <3> QED BY <1>4, <2>1, <3>1 DEF Counts
  <2> QED BY <2>2, <2>3
<1> QED BY <1>1, <1>2, <1>3, <1>4, <1>5 DEF DocumentInv, DocumentTyped

LEMMA AbortStep ==
    ASSUME DocumentInv, Document!AbortTimer
    PROVE  DocumentInv'
<1>1. PICK d \in DOMAIN downloads :
        /\ downloads[d].timer
        /\ IF downloads[d].consumers = 0 /\ ~Document!Settled(downloads[d])
           THEN Document!Settle(d, "aborted", [downloads EXCEPT ![d].timer = FALSE])
           ELSE downloads' = [downloads EXCEPT ![d].timer = FALSE] /\ UNCHANGED <<sharing, mounts>>
  BY Zenon DEF Document!AbortTimer
<1> DEFINE still == [downloads[d] EXCEPT !.timer = FALSE]
<1>2. downloads[d] \in Download /\ Counts(d)
  BY DocumentFields DEF DocumentInv
<1>3. still \in Download /\ still.stage = downloads[d].stage /\ still.consumers = downloads[d].consumers
  BY <1>2 DEF Download
<1>4. CASE downloads[d].consumers = 0 /\ ~Document!Settled(downloads[d])
  BY <1>1, <1>4, SettleStep
<1>5. CASE ~(downloads[d].consumers = 0 /\ ~Document!Settled(downloads[d]))
  <2>1. Document!Settled(downloads[d])
    BY <1>1, <1>2, <1>5 DEF Counts
  <2>2. downloads' = [downloads EXCEPT ![d] = still] /\ UNCHANGED <<sharing, mounts>>
    BY <1>1, <1>5
  <2>3. Document!Settled(still)
    BY <1>3, <2>1 DEF Document!Settled
  <2> HIDE DEF still
  <2> QED BY <1>3, <2>1, <2>2, <2>3, RequestGoesOn
<1> QED BY <1>4, <1>5

LEMMA AnswerStep ==
    ASSUME DocumentInv, Document!BinaryAnswers \/ Document!JSONAnswers
    PROVE  DocumentInv'
<1>1. ASSUME NEW d \in DOMAIN downloads, NEW stage \in {"received", "failed"},
             downloads[d].stage \in {"binary", "json"}, Document!Settle(d, stage, downloads)
      PROVE  DocumentInv'
  <2>1. downloads[d] \in Download /\ ~Document!Settled(downloads[d])
    BY <1>1, DocumentFields DEF DocumentInv, Document!Settled
  <2> DEFINE timer == downloads[d].timer
  <2>2. timer \in BOOLEAN /\ downloads = [downloads EXCEPT ![d] = [downloads[d] EXCEPT !.timer = timer]]
    <3>1. downloads[d] = [downloads[d] EXCEPT !.timer = timer]
      BY <2>1 DEF Download
    <3>2. downloads \in Seq(Download)
      BY DEF DocumentInv, DocumentTyped
    <3> QED BY <2>1, <3>1, <3>2 DEF Download
  <2> HIDE DEF timer
  <2> QED BY <1>1, <2>1, <2>2, SettleStep
<1>2. ASSUME NEW d \in DOMAIN downloads, downloads[d].stage = "binary",
             downloads' = [downloads EXCEPT ![d].stage = "json"], UNCHANGED <<sharing, mounts>>
      PROVE  DocumentInv'
  <2> DEFINE json == [downloads[d] EXCEPT !.stage = "json"]
  <2>1. downloads[d] \in Download
    BY DocumentFields DEF DocumentInv
  <2>2. /\ json \in Download /\ json.consumers = downloads[d].consumers
        /\ (json.timer <=> downloads[d].timer) /\ json.stage = "json"
    BY <2>1 DEF Download, Stages
  <2>3. ~Document!Settled(json) /\ ~Document!Settled(downloads[d])
    BY <1>2, <2>2 DEF Document!Settled
  <2>4. downloads' = [downloads EXCEPT ![d] = json]
    BY <1>2
  <2> HIDE DEF json
  <2> QED BY <1>2, <2>2, <2>3, <2>4, RequestGoesOn
<1>3. CASE Document!BinaryAnswers
  <2>1. PICK d \in DOMAIN downloads, isPDF \in BOOLEAN :
          /\ downloads[d].stage = "binary"
          /\ IF isPDF THEN Document!Settle(d, "received", downloads)
             ELSE /\ downloads' = [downloads EXCEPT ![d].stage = "json"]
                  /\ UNCHANGED <<sharing, mounts>>
    BY <1>3, Zenon DEF Document!BinaryAnswers
  <2> QED BY <1>1, <1>2, <2>1
<1>4. CASE Document!JSONAnswers
  <2>1. PICK d \in DOMAIN downloads, isPDF \in BOOLEAN :
          /\ downloads[d].stage = "json"
          /\ Document!Settle(d, IF isPDF THEN "received" ELSE "failed", downloads)
    BY <1>4, Zenon DEF Document!JSONAnswers
  <2> QED BY <1>1, <2>1
<1> QED BY <1>3, <1>4

LEMMA ParsedStep ==
    ASSUME DocumentInv, Document!Parsed
    PROVE  DocumentInv'
<1>1. PICK m \in DOMAIN mounts, valid \in BOOLEAN :
        /\ mounts' = [mounts EXCEPT ![m].stage = IF ~mounts[m].mounted THEN "gone"
                                                 ELSE IF valid THEN "open" ELSE "error"]
        /\ UNCHANGED <<downloads, sharing>>
  BY Zenon DEF Document!Parsed
<1> DEFINE stage == IF ~mounts[m].mounted THEN "gone" ELSE IF valid THEN "open" ELSE "error"
           shown == [mounts[m] EXCEPT !.stage = stage]
<1>2. mounts \in Seq(ReaderOf(downloads)) /\ ReaderOf(downloads)' = ReaderOf(downloads)
  BY <1>1 DEF DocumentInv, DocumentTyped, ReaderOf
<1>3. /\ shown \in ReaderOf(downloads) /\ (shown.mounted <=> mounts[m].mounted)
      /\ shown.request = mounts[m].request
  <2>1. stage \in {"open", "error", "gone"} /\ mounts[m] \in ReaderOf(downloads)
    BY <1>2
  <2> HIDE DEF stage
  <2> QED BY <1>2, <2>1 DEF ReaderOf
<1>4. mounts' = [mounts EXCEPT ![m] = shown]
  BY <1>1
<1> HIDE DEF shown
<1>5. /\ mounts' \in Seq(ReaderOf(downloads)) /\ DOMAIN mounts' = DOMAIN mounts
      /\ \A n \in DOMAIN mounts : /\ mounts'[n].mounted <=> mounts[n].mounted
                                  /\ mounts'[n].request = mounts[n].request
  BY <1>2, <1>3, <1>4
<1>6. OneReader' /\ \A e : Read(e)' <=> Read(e)
  BY <1>5 DEF DocumentInv, OneReader, Read, Reads
<1>7. \A e \in DOMAIN downloads : Counts(e)'
  BY <1>1, <1>6 DEF DocumentInv, Counts
<1> QED BY <1>1, <1>2, <1>5, <1>6, <1>7 DEF DocumentInv, DocumentTyped

(* The download of a book runs for exactly the mounts of the reader that wait    *)
(* for it: the shared request counts them, an abandoned one is about to be       *)
(* aborted, and none is aborted under a reader (acquirePDFRequest and            *)
(* releasePDFRequest of ShelfPDFReader.tsx), however often the reader is mounted *)
(* and however the answers interleave.                                           *)
THEOREM DocumentDownloads ==
    ASSUME Document!DocumentAssumption
    PROVE  Document!DocumentSpec =>
             [](Document!DocumentTypeOK /\ Document!DownloadsFollowReaders)
<1>1. Document!DocumentInit => DocumentInv
  BY DEF Document!DocumentInit, DocumentInv, DocumentTyped, OneReader, ReaderOf
<1>2. DocumentInv /\ [Document!DocumentNext]_(Document!documentVars) => DocumentInv'
  <2> SUFFICES ASSUME DocumentInv, [Document!DocumentNext]_(Document!documentVars)
               PROVE  DocumentInv'
    OBVIOUS
  <2>1. CASE UNCHANGED Document!documentVars
    BY <2>1 DEF Document!documentVars, DocumentInv, DocumentTyped, OneReader, ReaderOf, Counts, Read, Reads
  <2> QED BY <2>1, MountStep, UnmountStep, AbortStep, AnswerStep, ParsedStep DEF Document!DocumentNext
<1>3. DocumentInv => Document!DocumentTypeOK
  <2> SUFFICES ASSUME DocumentInv PROVE Document!DocumentTypeOK
    OBVIOUS
  <2> DEFINE Records == [stage : {"binary", "json", "received", "failed", "aborted"},
                         consumers : 0 .. MaxMounts, timer : BOOLEAN]
  <2>1. Download \subseteq Records
    BY DEF Download, Stages, Document!DocumentAssumption
  <2> HIDE DEF Records
  <2>2. downloads \in Seq(Records)
    BY <2>1 DEF DocumentInv, DocumentTyped
  <2> QED BY <2>2 DEF DocumentInv, DocumentTyped, ReaderOf, Document!DocumentTypeOK, Records
<1>4. DocumentInv => Document!DownloadsFollowReaders
  <2> SUFFICES ASSUME DocumentInv, NEW d \in DOMAIN downloads
               PROVE  LET readers == {m \in DOMAIN mounts : mounts[m].mounted /\ mounts[m].request = d}
                      IN /\ ~Document!Settled(downloads[d]) =>
                              /\ sharing = d
                              /\ downloads[d].consumers = Document!Cardinality(readers)
                              /\ downloads[d].timer = (readers = {})
                         /\ downloads[d].stage = "aborted" => readers = {}
    BY Zenon DEF Document!DownloadsFollowReaders
  <2> DEFINE readers == {m \in DOMAIN mounts : mounts[m].mounted /\ mounts[m].request = d}
  <2>1. readers = {m \in DOMAIN mounts : Reads(m, d)}
    BY Zenon DEF Reads
  <2>2. Read(d) <=> readers # {}
    BY <2>1 DEF Read
  <2>3. Document!Cardinality(readers) = Cardinality(readers)
    BY Zenon DEF Cardinality, Document!Cardinality
  <2>4. Cardinality(readers) = IF Read(d) THEN 1 ELSE 0
    <3>1. CASE Read(d)
      <4>1. PICK m \in DOMAIN mounts : Reads(m, d)
        BY <3>1 DEF Read
      <4>2. readers = {m}
        BY <2>1, <4>1 DEF DocumentInv, OneReader, Reads
      <4> QED BY <3>1, <4>2, FS_Singleton
    <3>2. CASE ~Read(d)
      BY <2>2, <3>2, FS_EmptySet
    <3> QED BY <3>1, <3>2
  <2> HIDE DEF readers
  <2>5. Counts(d) /\ downloads[d] \in Download
    BY DocumentFields DEF DocumentInv
  <2>6. ~Document!Settled(downloads[d]) =>
          /\ sharing = d
          /\ downloads[d].consumers = Document!Cardinality(readers)
          /\ downloads[d].timer = (readers = {})
    <3>1. downloads[d].timer \in BOOLEAN
      BY <2>5 DEF Download
    <3> QED BY <2>2, <2>3, <2>4, <2>5, <3>1 DEF Counts
  <2>7. downloads[d].stage = "aborted" => readers = {}
    BY <2>2, <2>5 DEF Counts
  <2> QED BY <2>6, <2>7 DEF readers
<1> QED BY <1>1, <1>2, <1>3, <1>4, PTL DEF Document!DocumentSpec

-----------------------------------------------------------------------------
(* Sequences of sessions                                                   *)

Session(n) == [id : 1 .. n, end : Nat]

Ids(q) == {q[i].id : i \in DOMAIN q}

\* Sessions with different ids among the first n.
Waiting(q, n) ==
    /\ q \in Seq(Session(n))
    /\ \A i, j \in DOMAIN q : q[i].id = q[j].id => i = j

LEMMA WaitingFits ==
    ASSUME NEW n \in Nat, NEW q, Waiting(q, n)
    PROVE  Len(q) <= n /\ Cardinality(Ids(q)) = Len(q)
<1> DEFINE id == [i \in 1 .. Len(q) |-> q[i].id]
<1>1. q \in Seq(Session(n)) /\ Len(q) \in Nat /\ DOMAIN q = 1 .. Len(q)
  BY DEF Waiting
<1>2. \A i \in 1 .. Len(q) : q[i] \in Session(n)
  BY <1>1
<1>3. id \in Injection(1 .. Len(q), 1 .. n)
  BY <1>1, <1>2 DEF Session, Waiting, Injection, IsInjective
<1>4. id \in Bijection(1 .. Len(q), Ids(q))
  <2>1. id \in [1 .. Len(q) -> Ids(q)]
    BY <1>1 DEF Ids
  <2>2. \A i, j \in 1 .. Len(q) : id[i] = id[j] => i = j
    BY <1>1 DEF Waiting
  <2>3. \A s \in Ids(q) : \E i \in 1 .. Len(q) : id[i] = s
    BY <1>1 DEF Ids
  <2> HIDE DEF id
  <2> QED BY <2>1, <2>2, <2>3 DEF Bijection, Injection, Surjection, IsInjective
<1> HIDE DEF id
<1>5. Len(q) <= n
  BY <1>1, <1>3, Fun_NatInjLeq DEF ExistsInjection
<1>6. IsFiniteSet(1 .. Len(q)) /\ Cardinality(1 .. Len(q)) = Len(q)
  <2>1. 1 \in Int /\ Len(q) \in Int /\ (1 > Len(q) => Len(q) = 0)
    BY <1>1
  <2>2. /\ IsFiniteSet(1 .. Len(q))
        /\ Cardinality(1 .. Len(q)) = IF 1 > Len(q) THEN 0 ELSE Len(q) - 1 + 1
    BY <2>1, FS_Interval
  <2> QED BY <1>1, <2>1, <2>2
<1>7. Cardinality(Ids(q)) = Cardinality(1 .. Len(q))
  BY <1>4, <1>6, FS_Bijection DEF ExistsBijection
<1> QED BY <1>5, <1>6, <1>7

LEMMA WaitingGrows ==
    ASSUME NEW n \in Nat, NEW q, Waiting(q, n)
    PROVE  Waiting(q, n + 1)
<1>1. Session(n) \subseteq Session(n + 1)
  BY DEF Session
<1>2. q \in Seq(Session(n + 1))
  BY <1>1 DEF Waiting
<1> QED BY <1>2 DEF Waiting

LEMMA AppendWaits ==
    ASSUME NEW n \in Nat, NEW q, Waiting(q, n), NEW session \in Session(n), session.id \notin Ids(q)
    PROVE  Waiting(Append(q, session), n) /\ Ids(Append(q, session)) = Ids(q) \cup {session.id}
<1>1. /\ q \in Seq(Session(n)) /\ Len(q) \in Nat /\ DOMAIN q = 1 .. Len(q)
      /\ Append(q, session) \in Seq(Session(n))
      /\ DOMAIN Append(q, session) = 1 .. Len(q) + 1
      /\ \A i \in DOMAIN q : Append(q, session)[i] = q[i] /\ q[i].id # session.id
      /\ Append(q, session)[Len(q) + 1] = session
  BY DEF Waiting, Ids
<1> DEFINE longer == Append(q, session)
<1>2. \A i, j \in DOMAIN longer : longer[i].id = longer[j].id => i = j
  <2>1. \A i \in DOMAIN longer : i \in DOMAIN q \/ i = Len(q) + 1
    BY <1>1
  <2> HIDE DEF longer
  <2> QED BY <1>1, <2>1 DEF Waiting, longer
<1>3. Ids(longer) = Ids(q) \cup {session.id}
  <2>1. \A i \in DOMAIN longer : i \in DOMAIN q \/ i = Len(q) + 1
    BY <1>1
  <2>2. DOMAIN q \subseteq DOMAIN longer /\ Len(q) + 1 \in DOMAIN longer
    BY <1>1
  <2>3. \A i \in DOMAIN longer : longer[i].id \in Ids(q) \cup {session.id}
    BY <1>1, <2>1 DEF Ids
  <2>4. \A i \in DOMAIN q : q[i].id \in Ids(longer)
    BY <1>1, <2>2 DEF Ids
  <2>5. session.id \in Ids(longer)
    BY <1>1, <2>2 DEF Ids
  <2> HIDE DEF longer
  <2> QED BY <2>3, <2>4, <2>5 DEF Ids
<1> QED BY <1>1, <1>2, <1>3 DEF Waiting

LEMMA TailWaits ==
    ASSUME NEW n \in Nat, NEW q, Waiting(q, n), q # <<>>
    PROVE  /\ Head(q) \in Session(n) /\ Waiting(Tail(q), n)
           /\ Head(q).id \notin Ids(Tail(q)) /\ Ids(q) = {Head(q).id} \cup Ids(Tail(q))
<1>1. /\ q \in Seq(Session(n)) /\ Len(q) \in Nat \ {0} /\ DOMAIN q = 1 .. Len(q)
      /\ Head(q) = q[1] /\ Head(q) \in Session(n) /\ Tail(q) \in Seq(Session(n))
      /\ DOMAIN Tail(q) = 1 .. Len(q) - 1
      /\ \A i \in DOMAIN Tail(q) : Tail(q)[i] = q[i + 1] /\ i + 1 \in DOMAIN q
  BY DEF Waiting
<1>2. \A i, j \in DOMAIN Tail(q) : Tail(q)[i].id = Tail(q)[j].id => i = j
  BY <1>1 DEF Waiting
<1>3. \A i \in DOMAIN Tail(q) : Tail(q)[i].id # q[1].id
  BY <1>1 DEF Waiting
<1>4. Ids(q) = {Head(q).id} \cup Ids(Tail(q))
  <2>1. \A i \in DOMAIN q : i = 1 \/ (i - 1 \in DOMAIN Tail(q) /\ Tail(q)[i - 1] = q[i])
    BY <1>1
  <2>2. 1 \in DOMAIN q
    BY <1>1
  <2>3. \A i \in DOMAIN q : q[i].id \in {Head(q).id} \cup Ids(Tail(q))
    BY <1>1, <2>1 DEF Ids
  <2>4. \A i \in DOMAIN Tail(q) : Tail(q)[i].id \in Ids(q)
    BY <1>1 DEF Ids
  <2> QED BY <1>1, <2>2, <2>3, <2>4 DEF Ids
<1>5. Head(q).id \notin Ids(Tail(q))
  BY <1>1, <1>3 DEF Ids
<1>6. Waiting(Tail(q), n)
  BY <1>1, <1>2 DEF Waiting
<1> QED BY <1>1, <1>4, <1>5, <1>6

LEMMA PendingWaits ==
    ASSUME NEW n \in Nat, SessionsAssumption, NEW q, Waiting(q, n)
    PROVE  /\ Waiting(Pending(q), n) /\ Len(Pending(q)) <= KeptPending
           /\ n <= KeptPending => Pending(q) = q
<1>1. /\ q \in Seq(Session(n)) /\ Len(q) \in Nat /\ DOMAIN q = 1 .. Len(q)
      /\ KeptPending \in Nat /\ KeptPending > 0
  BY DEF Waiting, SessionsAssumption
<1>2. CASE Len(q) <= KeptPending
  <2>0. ~(Len(q) > KeptPending)
    BY <1>1, <1>2
  <2>1. Pending(q) = SubSeq(q, 1, Len(q))
    BY <2>0, Zenon DEF Pending
  <2>2. Pending(q) = q
    BY <1>1, <2>1, SubSeqFull
  <2> QED BY <1>2, <2>2
<1>3. CASE Len(q) > KeptPending
  <2> DEFINE first == Len(q) - KeptPending + 1
             kept == SubSeq(q, first, Len(q))
  <2>1. Pending(q) = kept
    BY <1>1, <1>3 DEF Pending
  <2>2. first \in 1 .. Len(q) /\ Len(q) - first + 1 = KeptPending
    BY <1>1, <1>3
  <2> HIDE DEF first
  <2>3. /\ kept \in Seq(Session(n)) /\ Len(kept) = KeptPending /\ DOMAIN kept = 1 .. KeptPending
        /\ \A i \in 1 .. KeptPending : kept[i] = q[first + i - 1] /\ first + i - 1 \in DOMAIN q
    BY <1>1, <2>2
  <2> HIDE DEF kept
  <2>4. \A i, j \in DOMAIN kept : kept[i].id = kept[j].id => i = j
    <3> SUFFICES ASSUME NEW i \in DOMAIN kept, NEW j \in DOMAIN kept, kept[i].id = kept[j].id
                 PROVE  i = j
      OBVIOUS
    <3>1. first + i - 1 = first + j - 1
      BY <2>3 DEF Waiting
    <3>2. i \in Int /\ j \in Int /\ first \in Int
      BY <1>1, <2>2, <2>3
    <3> QED BY <3>1, <3>2
  <2>5. ~(n <= KeptPending)
    BY <1>1, <1>3, WaitingFits
  <2> QED BY <1>1, <2>1, <2>3, <2>4, <2>5 DEF Waiting
<1> QED BY <1>1, <1>2, <1>3

\* What is left when the entry k is taken out.
LEMMA RemovedWaits ==
    ASSUME NEW n \in Nat, NEW q, Waiting(q, n), NEW k \in DOMAIN q
    PROVE  Waiting(RemoveAt(q, k), n) /\ Ids(RemoveAt(q, k)) = Ids(q) \ {q[k].id}
<1>1. /\ q \in Seq(Session(n)) /\ Len(q) \in Nat /\ DOMAIN q = 1 .. Len(q) /\ k \in 1 .. Len(q)
  BY DEF Waiting
<1> DEFINE low == SubSeq(q, 1, k - 1)
           high == SubSeq(q, k + 1, Len(q))
           rest == RemoveAt(q, k)
           at(i) == IF i < k THEN i ELSE i + 1
<1>2. /\ low \in Seq(Session(n)) /\ Len(low) = k - 1
      /\ \A i \in 1 .. k - 1 : low[i] = q[i]
  BY <1>1
<1>3. /\ high \in Seq(Session(n)) /\ Len(high) = Len(q) - k
      /\ \A i \in 1 .. Len(q) - k : high[i] = q[k + i]
  BY <1>1
<1>4. rest = low \o high
  BY DEF RemoveAt
<1> HIDE DEF low, high, rest
<1>5. /\ rest \in Seq(Session(n)) /\ Len(rest) = Len(q) - 1 /\ DOMAIN rest = 1 .. Len(q) - 1
      /\ \A i \in 1 .. Len(q) - 1 : rest[i] = q[at(i)]
  <2>1. rest \in Seq(Session(n)) /\ Len(rest) = Len(low) + Len(high)
    BY <1>2, <1>3, <1>4
  <2>2. \A i \in 1 .. Len(rest) : rest[i] = IF i <= Len(low) THEN low[i] ELSE high[i - Len(low)]
    BY SMTT(20), <1>2, <1>3, <1>4, ConcatProperties
  <2>3. ASSUME NEW i \in 1 .. Len(q) - 1 PROVE rest[i] = q[at(i)]
    <3>1. CASE i < k
      BY SMTT(20), <1>1, <1>2, <1>3, <2>1, <2>2, <3>1
    <3>2. CASE ~(i < k)
      <4>1. i - (k - 1) \in 1 .. Len(q) - k /\ k + (i - (k - 1)) = i + 1
        BY <1>1, <3>2
      <4>2. rest[i] = high[i - (k - 1)]
        BY SMTT(20), <1>1, <1>2, <1>3, <2>1, <2>2, <3>2
      <4> QED BY <1>3, <3>2, <4>1, <4>2
    <3> QED BY <3>1, <3>2
  <2> QED BY <1>1, <1>2, <1>3, <2>1, <2>3
<1>6. ASSUME NEW i \in DOMAIN rest
      PROVE  at(i) \in DOMAIN q /\ at(i) # k /\ rest[i] = q[at(i)]
  BY <1>1, <1>5
<1>7. \A i, j \in DOMAIN rest : at(i) = at(j) => i = j
  BY <1>1, <1>5
<1>8. ASSUME NEW i \in DOMAIN q, i # k PROVE \E j \in DOMAIN rest : at(j) = i
  <2> DEFINE j == IF i < k THEN i ELSE i - 1
  <2>1. j \in DOMAIN rest /\ at(j) = i
    BY <1>1, <1>5, <1>8
  <2> QED BY <2>1
<1> HIDE DEF at
<1>9. \A i, j \in DOMAIN rest : rest[i].id = rest[j].id => i = j
  BY <1>6, <1>7 DEF Waiting
<1>10. Ids(rest) = Ids(q) \ {q[k].id}
  <2>1. \A i \in DOMAIN rest : rest[i].id \in Ids(q) \ {q[k].id}
    BY <1>6 DEF Waiting, Ids
  <2>2. ASSUME NEW i \in DOMAIN q, i # k PROVE q[i].id \in Ids(rest)
    BY <1>6, <1>8, <2>2 DEF Ids
  <2> QED BY <2>1, <2>2 DEF Ids
<1> QED BY <1>5, <1>9, <1>10 DEF Waiting, rest

LEMMA QueuedWaits ==
    ASSUME SessionsAssumption, NEW n \in Nat, Waiting(outbox, n), NEW session \in Session(n)
    PROVE  /\ Waiting(Queued(session), n) /\ Len(Queued(session)) <= KeptPending
           /\ n <= KeptPending => Ids(Queued(session)) = Ids(outbox) \cup {session.id}
<1> DEFINE same == {i \in DOMAIN outbox : outbox[i].id = session.id}
           others == IF same = {} THEN outbox ELSE RemoveAt(outbox, CHOOSE i \in same : TRUE)
           q == Append(others, session)
<1>1. Queued(session) = Pending(q)
  BY Zenon DEF Queued
<1>2. Waiting(others, n) /\ Ids(others) = Ids(outbox) \ {session.id}
  <2>1. CASE same = {}
    BY <2>1 DEF Ids
  <2>2. CASE same # {}
    <3> DEFINE k == CHOOSE i \in same : TRUE
    <3>1. k \in same
      BY <2>2
    <3>2. others = RemoveAt(outbox, k)
      BY <2>2
    <3> HIDE DEF k, others
    <3> QED BY <3>1, <3>2, RemovedWaits
  <2> QED BY <2>1, <2>2
<1> HIDE DEF others
<1>3. Waiting(q, n) /\ Ids(q) = Ids(outbox) \cup {session.id}
  BY <1>2, AppendWaits
<1> HIDE DEF q
<1> QED BY <1>1, <1>3, PendingWaits

-----------------------------------------------------------------------------
(* The tabs and what they share                                            *)

Timer(n) == [id : 1 .. n, start : Nat]

Syncing(n) == [todo : Seq(Session(n)), failed : Seq(Session(n)), any : BOOLEAN]

Tab(n) == [view : {"elsewhere", "opening", "reading"}, focus : Timer(n) \cup {Nothing},
           stored : Timer(n) \cup {Nothing}, posting : Session(n) \cup {Nothing},
           leaving : BOOLEAN, sync : Syncing(n) \cup {Nothing}]

\* What is to be sent and what failed are different sessions.
Apart(sync, n) ==
    /\ Waiting(sync.todo, n) /\ Waiting(sync.failed, n)
    /\ Ids(sync.todo) \cap Ids(sync.failed) = {}

\* A session runs, and ends, only while a book is read; then nothing is sent again.
Orderly(tab, n) ==
    /\ tab \in Tab(n)
    /\ tab.view = "reading" => tab.sync = Nothing
    /\ tab.focus # Nothing => tab.view = "reading" /\ tab.stored = tab.focus
    /\ tab.posting # Nothing => tab.focus # Nothing
    /\ tab.leaving => tab.posting = Nothing
    /\ tab.sync # Nothing => Apart(tab.sync, n)

SessionsInv ==
    /\ clock \in [now : Nat, begun : Nat]
    /\ tabs \in [Tabs -> Tab(clock.begun)]
    /\ \A t \in Tabs : Orderly(tabs[t], clock.begun)
    /\ Waiting(outbox, clock.begun) /\ Len(outbox) <= KeptPending
    /\ DOMAIN table \subseteq 1 .. clock.begun
    /\ DOMAIN ended \subseteq 1 .. clock.begun

\* While a tab sends the outbox, what is in it is sent, to be sent, or failed.
Held(tab) ==
    tab.sync # Nothing =>
      Ids(outbox) \subseteq DOMAIN table \cup Ids(tab.sync.todo) \cup Ids(tab.sync.failed)

KeptInv ==
    /\ \A t \in Tabs : Held(tabs[t])
    /\ EndedIsKept

\* One tab of the browser: of two that share the outbox, one may write what the
\* other has just queued.
OneTab == \A t, u \in Tabs : t = u

LEMMA OutboxIdsAre == InOutbox = Ids(outbox)
BY Zenon DEF InOutbox, Ids

LEMMA TableGrows ==
    ASSUME NEW session
    PROVE  /\ DOMAIN Recorded(session) = DOMAIN table \cup {session.id}
           /\ DOMAIN Ended(session) = DOMAIN ended \cup {session.id}
BY DEF Recorded, Ended

LEMMA TabGrows ==
    ASSUME NEW n \in Nat, NEW tab, Orderly(tab, n)
    PROVE  Orderly(tab, n + 1)
<1>1. Session(n) \subseteq Session(n + 1) /\ Timer(n) \subseteq Timer(n + 1)
  BY DEF Session, Timer
<1>2. Seq(Session(n)) \subseteq Seq(Session(n + 1))
  BY <1>1
<1>3. Syncing(n) \subseteq Syncing(n + 1)
  BY <1>2 DEF Syncing
<1>4. tab \in Tab(n + 1)
  BY <1>1, <1>3 DEF Orderly, Tab
<1>5. tab.sync # Nothing => Apart(tab.sync, n + 1)
  BY WaitingGrows DEF Orderly, Apart
<1> QED BY <1>4, <1>5 DEF Orderly

\* A step of one tab that begins no session.
LEMMA TabSteps ==
    ASSUME SessionsInv, NEW t \in Tabs, NEW tab, Orderly(tab, clock.begun),
           tabs' = [tabs EXCEPT ![t] = tab], clock' = clock,
           Waiting(outbox', clock.begun), Len(outbox') <= KeptPending,
           DOMAIN table' \subseteq 1 .. clock.begun, DOMAIN ended' \subseteq 1 .. clock.begun
    PROVE  SessionsInv' /\ tabs'[t] = tab
<1>1. tab \in Tab(clock.begun) /\ tabs \in [Tabs -> Tab(clock.begun)]
  BY DEF Orderly, SessionsInv
<1>2. /\ tabs' \in [Tabs -> Tab(clock.begun)]
      /\ \A u \in Tabs : tabs'[u] = IF u = t THEN tab ELSE tabs[u]
  BY <1>1
<1>3. \A u \in Tabs : Orderly(tabs'[u], clock.begun)
  BY <1>2 DEF SessionsInv
<1> QED BY <1>2, <1>3 DEF SessionsInv

\* The same where the only tab lets go of nothing.
LEMMA KeptSteps ==
    ASSUME OneTab, NEW t \in Tabs, NEW tab, tabs'[t] = tab, clock' = clock,
           tab.sync # Nothing =>
             Ids(outbox') \subseteq DOMAIN table' \cup Ids(tab.sync.todo) \cup Ids(tab.sync.failed),
           EndedIsKept'
    PROVE  KeptInv'
<1>1. Held(tab)'
  BY DEF Held
<1>2. \A u \in Tabs : tabs'[u] = tab
  BY DEF OneTab
<1>3. \A u \in Tabs : Held(tabs[u])'
  BY <1>2 DEF Held
<1> QED BY <1>3 DEF KeptInv

\* The state of a tab that takes a step.
LEMMA TabFacts ==
    ASSUME SessionsInv, NEW t \in Tabs
    PROVE  /\ Orderly(tabs[t], clock.begun) /\ tabs[t] \in Tab(clock.begun)
           /\ clock.begun \in Nat /\ clock.now \in Nat
           /\ Waiting(outbox, clock.begun) /\ Len(outbox) <= KeptPending
           /\ DOMAIN table \subseteq 1 .. clock.begun /\ DOMAIN ended \subseteq 1 .. clock.begun
BY DEF SessionsInv, Orderly

\* A tab that does not read begins to send the outbox, or goes on with it.
LEMMA SyncBegins ==
    ASSUME NEW n \in Nat, NEW tab, Orderly(tab, n), tab.view # "reading", Waiting(outbox, n),
           NEW view \in {"elsewhere", "opening"},
           NEW next, next = [Synced(tab) EXCEPT !.view = view]
    PROVE  /\ Orderly(next, n)
           /\ Held(tab) => (next.sync # Nothing =>
                Ids(outbox) \subseteq DOMAIN table \cup Ids(next.sync.todo) \cup Ids(next.sync.failed))
<1>1. tab \in Tab(n) /\ tab.focus = Nothing /\ tab.posting = Nothing
  BY DEF Orderly
<1>2. CASE tab.sync # Nothing
  <2>1. next = [tab EXCEPT !.view = view]
    BY <1>2 DEF Synced
  <2>2. /\ next \in Tab(n) /\ next.view = view /\ next.focus = Nothing /\ next.posting = Nothing
        /\ next.sync = tab.sync
    BY <1>1, <2>1 DEF Tab
  <2>3. Orderly(next, n)
    BY <2>2 DEF Orderly
  <2> QED BY <2>2, <2>3 DEF Held
<1>3. CASE tab.sync = Nothing
  <2> DEFINE any == outbox # <<>>
             none == <<>>
             sync == [todo |-> outbox, failed |-> none, any |-> any]
  <2>1. next = [[tab EXCEPT !.sync = sync] EXCEPT !.view = view]
    BY <1>3, Zenon DEF Synced
  <2>2. any \in BOOLEAN /\ Waiting(none, n) /\ Ids(none) = {}
    BY DEF Waiting, Ids
  <2> HIDE DEF any, none
  <2>3. sync \in Syncing(n) /\ sync.todo = outbox /\ sync.failed = none
    BY <2>2 DEF Syncing, Waiting
  <2>4. Apart(sync, n)
    BY <2>2, <2>3 DEF Apart
  <2> HIDE DEF sync
  <2>5. /\ next \in Tab(n) /\ next.view = view /\ next.focus = Nothing /\ next.posting = Nothing
        /\ next.sync = sync
    BY <1>1, <2>1, <2>3 DEF Tab
  <2>6. Orderly(next, n)
    BY <2>4, <2>5 DEF Orderly
  <2> QED BY <2>3, <2>5, <2>6
<1> QED BY <1>2, <1>3

LEMMA OpenSteps ==
    ASSUME SessionsInv, NEW t \in Tabs, OpenPage(t) \/ OpenReader(t)
    PROVE  SessionsInv' /\ (OneTab /\ KeptInv => KeptInv')
<1> DEFINE n == clock.begun
<1>1. PICK view \in {"elsewhere", "opening"} :
        /\ tabs[t].view = "elsewhere"
        /\ tabs' = [tabs EXCEPT ![t] = [Synced(tabs[t]) EXCEPT !.view = view]]
        /\ UNCHANGED <<outbox, table, clock, ended>>
  <2>1. CASE OpenReader(t)
    BY <2>1 DEF OpenReader
  <2>2. CASE OpenPage(t)
    <3>1. /\ tabs[t].view = "elsewhere" /\ tabs' = [tabs EXCEPT ![t] = Synced(tabs[t])]
          /\ UNCHANGED <<outbox, table, clock, ended>>
      BY <2>2 DEF OpenPage
    <3>2. Synced(tabs[t]) = [Synced(tabs[t]) EXCEPT !.view = "elsewhere"]
      <4>1. tabs[t] \in Tab(n)
        BY TabFacts
      <4>2. Synced(tabs[t]).view = "elsewhere" /\ \E y : Synced(tabs[t]) = [tabs[t] EXCEPT !.sync = y]
        <5>1. CASE tabs[t].sync # Nothing
          <6>1. Synced(tabs[t]) = tabs[t] /\ tabs[t] = [tabs[t] EXCEPT !.sync = tabs[t].sync]
            BY <4>1, <5>1 DEF Synced, Tab
          <6> QED BY <3>1, <6>1
        <5>2. CASE tabs[t].sync = Nothing
          <6> DEFINE sync == [todo |-> outbox, failed |-> <<>>, any |-> outbox # <<>>]
          <6>1. Synced(tabs[t]) = [tabs[t] EXCEPT !.sync = sync]
            BY <5>2, Zenon DEF Synced
          <6> HIDE DEF sync
          <6> QED BY <3>1, <4>1, <6>1 DEF Tab
        <5> QED BY <5>1, <5>2
      <4>3. PICK y : Synced(tabs[t]) = [tabs[t] EXCEPT !.sync = y]
        BY <4>2
      <4> QED BY <4>1, <4>2, <4>3 DEF Tab
    <3> QED BY <3>1, <3>2
  <2> QED BY <2>1, <2>2
<1> DEFINE next == [Synced(tabs[t]) EXCEPT !.view = view]
<1>2. Orderly(tabs[t], n) /\ n \in Nat /\ Waiting(outbox, n)
  BY TabFacts
<1>3. /\ Orderly(next, n)
      /\ Held(tabs[t]) => (next.sync # Nothing =>
           Ids(outbox) \subseteq DOMAIN table \cup Ids(next.sync.todo) \cup Ids(next.sync.failed))
  BY <1>1, <1>2, SyncBegins
<1>4. tabs' = [tabs EXCEPT ![t] = next]
  BY <1>1
<1> HIDE DEF next
<1>5. SessionsInv' /\ tabs'[t] = next
  BY <1>1, <1>3, <1>4, TabSteps, TabFacts
<1>6. KeptInv => Held(tabs[t]) /\ EndedIsKept'
  BY <1>1 DEF KeptInv, EndedIsKept, InOutbox
<1> QED BY <1>1, <1>3, <1>5, <1>6, KeptSteps

LEMMA SyncPostsStep ==
    ASSUME SessionsInv, NEW t \in Tabs, SyncPosts(t)
    PROVE  SessionsInv' /\ (OneTab /\ KeptInv => KeptInv')
<1> DEFINE n == clock.begun
           tab == tabs[t]
           session == Head(tab.sync.todo)
<1>1. /\ tab.sync # Nothing /\ tab.sync.todo # <<>>
      /\ UNCHANGED <<outbox, clock, ended>>
      /\ table' \in {table, Recorded(session)}
      /\ \E failed \in {<<>>, <<session>>} :
           /\ tabs' = [tabs EXCEPT ![t].sync.todo = Tail(@), ![t].sync.failed = @ \o failed]
           /\ failed = <<>> => table' = Recorded(session)
  BY DEF SyncPosts
<1>2. PICK failed \in {<<>>, <<session>>} :
        /\ tabs' = [tabs EXCEPT ![t].sync.todo = Tail(@), ![t].sync.failed = @ \o failed]
        /\ failed = <<>> => table' = Recorded(session)
  BY <1>1
<1>3. /\ Orderly(tab, n) /\ tab \in Tab(n) /\ n \in Nat /\ Waiting(outbox, n)
      /\ tabs \in [Tabs -> Tab(n)]
  BY TabFacts DEF SessionsInv
<1>4. tab.sync \in Syncing(n) /\ Apart(tab.sync, n) /\ tab.view # "reading"
  BY <1>1, <1>3 DEF Orderly, Tab
<1> DEFINE todo == Tail(tab.sync.todo)
           lost == tab.sync.failed \o failed
           sync == [tab.sync EXCEPT !.todo = todo, !.failed = lost]
           next == [tab EXCEPT !.sync = sync]
<1>5. tabs' = [tabs EXCEPT ![t] = next]
  BY <1>2, <1>3, <1>4 DEF Tab, Syncing
<1>6. /\ session \in Session(n) /\ Waiting(todo, n) /\ session.id \notin Ids(todo)
      /\ Ids(tab.sync.todo) = {session.id} \cup Ids(todo)
  BY <1>1, <1>3, <1>4, TailWaits DEF Apart
<1>7. /\ Waiting(lost, n)
      /\ Ids(lost) = Ids(tab.sync.failed) \/ Ids(lost) = Ids(tab.sync.failed) \cup {session.id}
      /\ failed # <<>> => session.id \in Ids(lost)
  <2>1. Waiting(tab.sync.failed, n) /\ session.id \notin Ids(tab.sync.failed)
    BY <1>4, <1>6 DEF Apart
  <2>2. CASE failed = <<>>
    <3>1. lost = tab.sync.failed
      BY <2>1, <2>2, ConcatEmptySeq DEF Waiting
    <3> QED BY <2>1, <2>2, <3>1
  <2>3. CASE failed = <<session>>
    <3>1. lost = Append(tab.sync.failed, session)
      BY <1>6, <2>1, <2>3, AppendIsConcat DEF Waiting
    <3> QED BY SMTT(20), <1>3, <1>6, <2>1, <3>1, AppendWaits
  <2> QED BY <2>2, <2>3
<1> HIDE DEF todo, lost
<1>8. sync \in Syncing(n) /\ sync.todo = todo /\ sync.failed = lost
  BY <1>4, <1>6, <1>7 DEF Syncing, Waiting
<1>9. Apart(sync, n)
  BY <1>4, <1>6, <1>7, <1>8 DEF Apart
<1> HIDE DEF sync
<1>10. /\ next \in Tab(n) /\ next.view = tab.view /\ next.focus = tab.focus
       /\ next.posting = tab.posting /\ next.stored = tab.stored
       /\ (next.leaving <=> tab.leaving) /\ next.sync = sync
  BY <1>3, <1>8 DEF Tab
<1> HIDE DEF next
<1>11. Orderly(next, n)
  BY <1>3, <1>4, <1>9, <1>10 DEF Orderly
<1>12. DOMAIN table' \subseteq 1 .. n /\ DOMAIN table \subseteq DOMAIN table'
       /\ (failed = <<>> => session.id \in DOMAIN table')
  <2>1. session.id \in 1 .. n
    BY <1>6 DEF Session
  <2>2. DOMAIN Recorded(session) = DOMAIN table \cup {session.id}
    BY TableGrows
  <2>3. DOMAIN table \subseteq 1 .. n
    BY TabFacts
  <2>4. table' = table \/ table' = Recorded(session)
    BY <1>1
  <2> HIDE DEF n, session
  <2> QED BY <1>2, <2>1, <2>2, <2>3, <2>4
<1>13. SessionsInv' /\ tabs'[t] = next
  BY <1>1, <1>5, <1>11, <1>12, TabSteps, TabFacts
<1>14. ASSUME OneTab, KeptInv
       PROVE  KeptInv'
  <2>1. EndedIsKept'
    BY <1>1, <1>12, <1>14 DEF KeptInv, EndedIsKept, InOutbox
  <2>2. Ids(outbox) \subseteq DOMAIN table \cup Ids(tab.sync.todo) \cup Ids(tab.sync.failed)
    BY <1>1, <1>14 DEF KeptInv, Held
  <2>3. Ids(outbox') \subseteq DOMAIN table' \cup Ids(todo) \cup Ids(lost)
    BY <1>1, <1>6, <1>7, <1>12, <2>2
  <2> QED BY <1>1, <1>8, <1>10, <1>13, <1>14, <2>1, <2>3, KeptSteps
<1> QED BY <1>13, <1>14

LEMMA SyncEndsStep ==
    ASSUME SessionsAssumption, SessionsInv, NEW t \in Tabs, SyncEnds(t)
    PROVE  SessionsInv' /\ (OneTab /\ KeptInv => KeptInv')
<1> DEFINE n == clock.begun
           tab == tabs[t]
           next == [tab EXCEPT !.sync = Nothing]
<1>1. /\ tab.sync # Nothing /\ tab.sync.todo = <<>>
      /\ outbox' \in {outbox, Pending(tab.sync.failed)}
      /\ tabs' = [tabs EXCEPT ![t] = next]
      /\ UNCHANGED <<table, clock, ended>>
  BY DEF SyncEnds
<1>2. /\ Orderly(tab, n) /\ tab \in Tab(n) /\ n \in Nat
      /\ Waiting(outbox, n) /\ Len(outbox) <= KeptPending
  BY TabFacts
<1>3. Waiting(tab.sync.failed, n)
  BY <1>1, <1>2 DEF Orderly, Apart
<1>4. /\ next \in Tab(n) /\ next.view = tab.view /\ next.focus = tab.focus
      /\ next.posting = tab.posting /\ next.stored = tab.stored
      /\ (next.leaving <=> tab.leaving) /\ next.sync = Nothing
  BY <1>2 DEF Tab
<1> HIDE DEF next
<1>5. Orderly(next, n)
  BY <1>2, <1>4 DEF Orderly
<1>6. Waiting(outbox', n) /\ Len(outbox') <= KeptPending
  BY <1>1, <1>2, <1>3, PendingWaits
<1>7. SessionsInv' /\ tabs'[t] = next
  BY <1>1, <1>5, <1>6, TabSteps, TabFacts
<1>8. ASSUME OneTab, KeptInv
      PROVE  KeptInv'
  <2>1. Ids(tab.sync.todo) = {}
    BY <1>1 DEF Ids
  <2>2. Ids(outbox) \subseteq DOMAIN table \cup Ids(tab.sync.failed)
    BY <1>1, <1>8, <2>1 DEF KeptInv, Held
  <2>3. n <= KeptPending => outbox' = outbox \/ outbox' = tab.sync.failed
    BY <1>1, <1>2, <1>3, PendingWaits
  <2>4. n <= KeptPending => Ids(outbox) \subseteq DOMAIN table \cup Ids(outbox')
    BY <2>2, <2>3
  <2>5. n <= KeptPending => DOMAIN ended \subseteq DOMAIN table \cup Ids(outbox)
    BY <1>8, OutboxIdsAre DEF KeptInv, EndedIsKept
  <2>6. InOutbox' = Ids(outbox')
    BY Zenon DEF InOutbox, Ids
  <2>7. EndedIsKept'
    BY <1>1, <2>4, <2>5, <2>6 DEF EndedIsKept
  <2> QED BY <1>1, <1>4, <1>7, <1>8, <2>7, KeptSteps
<1> QED BY <1>7, <1>8

LEMMA BookOpensStep ==
    ASSUME SessionsInv, NEW t \in Tabs, BookOpens(t) \/ CloseReader(t)
    PROVE  SessionsInv' /\ (OneTab /\ KeptInv => KeptInv')
<1> DEFINE n == clock.begun
           tab == tabs[t]
<1>1. Orderly(tab, n) /\ tab \in Tab(n) /\ tabs \in [Tabs -> Tab(n)]
  BY TabFacts DEF SessionsInv
<1>2. /\ tab.sync = Nothing /\ tab.focus = Nothing
      /\ UNCHANGED <<outbox, table, clock, ended>>
  BY <1>1 DEF BookOpens, SyncDone, CloseReader, Orderly
<1>3. PICK view \in {"elsewhere", "reading"}, focus \in {Nothing, tab.stored} :
        /\ tabs' = [tabs EXCEPT ![t] = [tab EXCEPT !.view = view, !.focus = focus]]
        /\ focus # Nothing => view = "reading"
  <2>1. CASE BookOpens(t)
    <3>1. tabs' = [tabs EXCEPT ![t] = [tab EXCEPT !.view = "reading", !.focus = tab.stored]]
      BY <1>1, <2>1 DEF BookOpens
    <3> QED BY <3>1
  <2>2. CASE CloseReader(t)
    <3>1. tabs' = [tabs EXCEPT ![t] = [tab EXCEPT !.view = "elsewhere"]]
      BY <1>1, <2>2 DEF CloseReader
    <3>2. [tab EXCEPT !.view = "elsewhere"] = [tab EXCEPT !.view = "elsewhere", !.focus = Nothing]
      BY <1>1, <1>2 DEF Tab
    <3> QED BY <3>1, <3>2
  <2> QED BY <2>1, <2>2
<1> DEFINE next == [tab EXCEPT !.view = view, !.focus = focus]
<1>4. /\ next \in Tab(n) /\ next.view = view /\ next.focus = focus
      /\ next.posting = tab.posting /\ next.stored = tab.stored
      /\ (next.leaving <=> tab.leaving) /\ next.sync = Nothing
  BY <1>1, <1>2 DEF Tab
<1> HIDE DEF next
<1>5. Orderly(next, n)
  BY <1>1, <1>2, <1>3, <1>4 DEF Orderly
<1>6. SessionsInv' /\ tabs'[t] = next
  BY <1>2, <1>3, <1>5, TabSteps, TabFacts DEF next
<1>7. KeptInv => EndedIsKept'
  BY <1>2 DEF KeptInv, EndedIsKept, InOutbox
<1> QED BY <1>2, <1>4, <1>6, <1>7, KeptSteps

LEMMA EnterFocusStep ==
    ASSUME SessionsAssumption, SessionsInv, NEW t \in Tabs, EnterFocus(t)
    PROVE  SessionsInv' /\ (OneTab /\ KeptInv => KeptInv')
<1> DEFINE n == clock.begun
           more == n + 1
           tab == tabs[t]
           session == [id |-> more, start |-> clock.now]
           next == [tab EXCEPT !.focus = session, !.stored = session]
<1>1. /\ tab.view = "reading" /\ tab.focus = Nothing
      /\ tabs' = [tabs EXCEPT ![t] = next] /\ clock' = [clock EXCEPT !.begun = more]
      /\ UNCHANGED <<outbox, table, ended>>
  BY Zenon DEF EnterFocus
<1>2. /\ clock \in [now : Nat, begun : Nat] /\ n \in Nat /\ tabs \in [Tabs -> Tab(n)]
      /\ Orderly(tab, n) /\ Waiting(outbox, n) /\ Len(outbox) <= KeptPending
      /\ DOMAIN table \subseteq 1 .. n /\ DOMAIN ended \subseteq 1 .. n
      /\ \A u \in Tabs : Orderly(tabs[u], n)
  BY DEF SessionsInv
<1>3. more \in Nat /\ clock' \in [now : Nat, begun : Nat] /\ clock'.begun = more
      /\ 1 .. n \subseteq 1 .. more
  BY <1>1, <1>2
<1>4. session \in Timer(more)
  BY <1>2, <1>3 DEF Timer
<1>5. \A u \in Tabs : Orderly(tabs[u], more)
  BY <1>2, TabGrows
<1>6. Waiting(outbox, more)
  BY <1>2, WaitingGrows
<1> HIDE DEF more, session
<1>7. tab \in Tab(more) /\ tab.posting = Nothing /\ tab.sync = Nothing
  BY <1>1, <1>2, <1>5 DEF Orderly
<1>8. /\ next \in Tab(more) /\ next.view = "reading" /\ next.focus = session
      /\ next.posting = Nothing /\ next.stored = session /\ next.sync = Nothing
  BY <1>1, <1>4, <1>7 DEF Tab
<1> HIDE DEF next
<1>9. Orderly(next, more)
  BY <1>8 DEF Orderly
<1>10. \A u \in Tabs : tabs'[u] = IF u = t THEN next ELSE tabs[u]
  BY <1>1, <1>2
<1>11. \A u \in Tabs : Orderly(tabs'[u], more)
  BY <1>5, <1>9, <1>10
<1>12. tabs' \in [Tabs -> Tab(more)]
  BY <1>1, <1>2, <1>11 DEF Orderly
<1>13. SessionsInv'
  BY <1>1, <1>2, <1>3, <1>6, <1>11, <1>12 DEF SessionsInv
<1>14. ASSUME OneTab, KeptInv
       PROVE  KeptInv'
  <2>1. more <= KeptPending => n <= KeptPending
    BY <1>2 DEF more, SessionsAssumption
  <2>2. EndedIsKept'
    BY <1>1, <1>3, <1>14, <2>1 DEF KeptInv, EndedIsKept, InOutbox
  <2>3. \A u \in Tabs : tabs'[u] = next
    BY <1>10, <1>14 DEF OneTab
  <2>4. \A u \in Tabs : Held(tabs[u])'
    BY <1>8, <2>3 DEF Held
  <2> QED BY <2>2, <2>4 DEF KeptInv
<1> QED BY <1>13, <1>14

\* A step of a tab that reads: nothing is being sent, before it and after it.
LEMMA ReadingSteps ==
    ASSUME SessionsInv, NEW t \in Tabs,
           NEW focus, NEW stored, NEW posting, NEW leaving \in BOOLEAN,
           tabs[t].focus # Nothing,
           tabs' = [tabs EXCEPT ![t] = [tabs[t] EXCEPT !.focus = focus, !.stored = stored,
                                                       !.posting = posting, !.leaving = leaving]],
           \/ focus = tabs[t].focus /\ stored = tabs[t].stored
           \/ focus = Nothing /\ stored = Nothing /\ posting = Nothing,
           posting \in Session(clock.begun) \cup {Nothing},
           leaving => posting = Nothing,
           clock' = clock, Waiting(outbox', clock.begun), Len(outbox') <= KeptPending,
           DOMAIN table' \subseteq 1 .. clock.begun, DOMAIN ended' \subseteq 1 .. clock.begun
    PROVE  SessionsInv' /\ (OneTab /\ KeptInv /\ EndedIsKept' => KeptInv')
<1> DEFINE n == clock.begun
           tab == tabs[t]
           next == [tab EXCEPT !.focus = focus, !.stored = stored,
                               !.posting = posting, !.leaving = leaving]
<1>1. Orderly(tab, n) /\ tab \in Tab(n)
  BY TabFacts
<1>2. tab.view = "reading" /\ tab.sync = Nothing /\ tab.stored = tab.focus
  BY <1>1 DEF Orderly
<1>3. focus \in Timer(n) \cup {Nothing} /\ stored \in Timer(n) \cup {Nothing}
  BY <1>1 DEF Tab
<1>4. /\ next \in Tab(n) /\ next.view = "reading" /\ next.focus = focus
      /\ next.posting = posting /\ next.stored = stored
      /\ (next.leaving <=> leaving) /\ next.sync = Nothing
  BY <1>1, <1>2, <1>3 DEF Tab
<1>5. tabs' = [tabs EXCEPT ![t] = next]
  OBVIOUS
<1> HIDE DEF next
<1>6. Orderly(next, n)
  BY <1>2, <1>4 DEF Orderly
<1>7. SessionsInv' /\ tabs'[t] = next
  BY <1>5, <1>6, TabSteps
<1> QED BY <1>4, <1>7, KeptSteps

LEMMA ExitFocusStep ==
    ASSUME SessionsInv, NEW t \in Tabs, ExitFocus(t)
    PROVE  SessionsInv' /\ (OneTab /\ KeptInv => KeptInv')
<1> DEFINE n == clock.begun
           tab == tabs[t]
           short == clock.now = tab.focus.start
           posting == IF short THEN Nothing ELSE [id |-> tab.focus.id, end |-> clock.now]
           leaving == short
<1>1. /\ tab.focus # Nothing /\ tab.posting = Nothing /\ ~tab.leaving
      /\ tabs' = [tabs EXCEPT ![t].posting = posting, ![t].leaving = leaving]
      /\ UNCHANGED <<outbox, table, clock, ended>>
  BY Zenon DEF ExitFocus
<1>2. tab \in Tab(n) /\ clock.now \in Nat /\ tabs \in [Tabs -> Tab(n)]
  BY TabFacts DEF SessionsInv
<1>3. posting \in Session(n) \cup {Nothing}
  BY <1>1, <1>2 DEF Tab, Timer, Session
<1>4. leaving \in BOOLEAN /\ (leaving => posting = Nothing)
  OBVIOUS
<1> HIDE DEF posting, leaving
<1> DEFINE focus == tab.focus
           stored == tab.stored
<1>5. tabs' = [tabs EXCEPT ![t] = [tab EXCEPT !.focus = focus, !.stored = stored,
                                              !.posting = posting, !.leaving = leaving]]
  <2>1. [tab EXCEPT !.posting = posting, !.leaving = leaving]
          = [tab EXCEPT !.focus = focus, !.stored = stored, !.posting = posting, !.leaving = leaving]
    BY <1>2 DEF Tab
  <2>2. tabs' = [tabs EXCEPT ![t] = [tab EXCEPT !.posting = posting, !.leaving = leaving]]
    BY <1>1, <1>2
  <2> QED BY <2>1, <2>2
<1>6. KeptInv => EndedIsKept'
  BY <1>1 DEF KeptInv, EndedIsKept, InOutbox
<1>7. focus = tab.focus /\ stored = tab.stored
  OBVIOUS
<1> HIDE DEF focus, stored
<1>8. /\ Waiting(outbox', n) /\ Len(outbox') <= KeptPending
      /\ DOMAIN table' \subseteq 1 .. n /\ DOMAIN ended' \subseteq 1 .. n
  BY <1>1, TabFacts
<1>9. PICK away \in BOOLEAN :
        /\ away => posting = Nothing
        /\ tabs' = [tabs EXCEPT ![t] = [tab EXCEPT !.focus = focus, !.stored = stored,
                                                   !.posting = posting, !.leaving = away]]
  BY <1>4, <1>5
<1>10. tab.focus # Nothing /\ clock' = clock
  BY <1>1
<1> HIDE DEF short
<1>11. SessionsInv' /\ (OneTab /\ KeptInv /\ EndedIsKept' => KeptInv')
  BY <1>3, <1>7, <1>8, <1>9, <1>10, ReadingSteps
<1> QED BY <1>6, <1>11

LEMMA PostStep ==
    ASSUME SessionsAssumption, SessionsInv, NEW t \in Tabs, SessionPosted(t) \/ PostFails(t)
    PROVE  SessionsInv' /\ (OneTab /\ KeptInv => KeptInv')
<1> DEFINE n == clock.begun
           tab == tabs[t]
           session == tab.posting
           focus == tab.focus
           stored == tab.stored
<1>1. /\ Orderly(tab, n) /\ tab \in Tab(n) /\ tabs \in [Tabs -> Tab(n)] /\ n \in Nat
      /\ Waiting(outbox, n) /\ Len(outbox) <= KeptPending
      /\ DOMAIN table \subseteq 1 .. n /\ DOMAIN ended \subseteq 1 .. n
  BY TabFacts DEF SessionsInv
<1>2. session # Nothing /\ clock' = clock /\ table' \in {table, Recorded(session)}
  BY DEF SessionPosted, PostFails
<1>3. PICK leaving \in BOOLEAN :
        /\ tabs' = [tabs EXCEPT ![t].posting = Nothing, ![t].leaving = leaving]
        /\ \/ table' = Recorded(session) /\ ended' = Ended(session) /\ outbox' = outbox
           \/ outbox' = Queued(session) /\ ended' = Ended(session)
           \/ outbox' = outbox /\ ended' = ended
  <2>1. CASE SessionPosted(t)
    <3>1. tabs' = [tabs EXCEPT ![t].posting = Nothing, ![t].leaving = TRUE]
      BY <2>1 DEF SessionPosted
    <3> QED BY <2>1, <3>1 DEF SessionPosted
  <2>2. CASE PostFails(t)
    <3>1. CASE /\ outbox' = Queued(session) /\ ended' = Ended(session)
               /\ tabs' = [tabs EXCEPT ![t].posting = Nothing, ![t].leaving = TRUE]
      BY <3>1
    <3>2. CASE outbox' = outbox /\ ended' = ended /\ tabs' = [tabs EXCEPT ![t].posting = Nothing]
      <4>1. tabs' = [tabs EXCEPT ![t].posting = Nothing, ![t].leaving = tab.leaving]
        BY <1>1, <3>2 DEF Tab
      <4>2. tab.leaving \in BOOLEAN
        BY <1>1 DEF Tab
      <4> QED BY <3>2, <4>1, <4>2
    <3> QED BY <2>2, <3>1, <3>2 DEF PostFails
  <2> QED BY <2>1, <2>2
<1>4. session \in Session(n) /\ tab.focus # Nothing
  BY <1>1, <1>2 DEF Tab, Orderly
<1> HIDE DEF session
<1>5. tabs' = [tabs EXCEPT ![t] = [tab EXCEPT !.focus = focus, !.stored = stored,
                                              !.posting = Nothing, !.leaving = leaving]]
  <2>1. [tab EXCEPT !.posting = Nothing, !.leaving = leaving]
          = [tab EXCEPT !.focus = focus, !.stored = stored, !.posting = Nothing, !.leaving = leaving]
    BY <1>1 DEF Tab
  <2>2. tabs' = [tabs EXCEPT ![t] = [tab EXCEPT !.posting = Nothing, !.leaving = leaving]]
    BY <1>1, <1>3
  <2> QED BY <2>1, <2>2
<1>6. focus = tab.focus /\ stored = tab.stored
  OBVIOUS
<1> HIDE DEF focus, stored
<1>7. session.id \in 1 .. n
  BY <1>4 DEF Session
<1>8. /\ DOMAIN Recorded(session) = DOMAIN table \cup {session.id}
      /\ DOMAIN Ended(session) = DOMAIN ended \cup {session.id}
  BY TableGrows
<1>9. /\ Waiting(Queued(session), n) /\ Len(Queued(session)) <= KeptPending
      /\ n <= KeptPending => Ids(Queued(session)) = Ids(outbox) \cup {session.id}
  BY <1>1, <1>4, QueuedWaits
<1>10. /\ Waiting(outbox', n) /\ Len(outbox') <= KeptPending
       /\ DOMAIN table' \subseteq 1 .. n /\ DOMAIN ended' \subseteq 1 .. n
       /\ DOMAIN table \subseteq DOMAIN table'
  BY <1>1, <1>2, <1>3, <1>7, <1>8, <1>9
<1>11. ASSUME KeptInv
       PROVE  EndedIsKept'
  <2>1. n <= KeptPending => DOMAIN ended \subseteq DOMAIN table \cup Ids(outbox)
    BY <1>11, OutboxIdsAre DEF KeptInv, EndedIsKept
  <2>2. n <= KeptPending => DOMAIN ended' \subseteq DOMAIN table' \cup Ids(outbox')
    BY <1>3, <1>8, <1>9, <1>10, <2>1
  <2>3. InOutbox' = Ids(outbox')
    BY Zenon DEF InOutbox, Ids
  <2> QED BY <1>2, <2>2, <2>3 DEF EndedIsKept
<1> QED BY <1>2, <1>4, <1>5, <1>6, <1>10, <1>11, ReadingSteps

LEMMA FocusLeftStep ==
    ASSUME SessionsInv, NEW t \in Tabs, FocusLeft(t)
    PROVE  SessionsInv' /\ (OneTab /\ KeptInv => KeptInv')
<1> DEFINE n == clock.begun
           tab == tabs[t]
           next == [tab EXCEPT !.focus = Nothing, !.stored = Nothing, !.leaving = FALSE]
<1>1. /\ tab.leaving /\ tabs' = [tabs EXCEPT ![t] = next]
      /\ UNCHANGED <<outbox, table, clock, ended>>
  <2>1. tabs \in [Tabs -> Tab(n)]
    BY DEF SessionsInv
  <2>2. tabs' = [tabs EXCEPT ![t].focus = Nothing, ![t].stored = Nothing, ![t].leaving = FALSE]
    BY DEF FocusLeft
  <2> QED BY <2>1, <2>2 DEF FocusLeft
<1>2. Orderly(tab, n) /\ tab \in Tab(n)
  BY TabFacts
<1> DEFINE no == FALSE
<1>3. no \in BOOLEAN /\ ~no /\ next = [tab EXCEPT !.focus = Nothing, !.stored = Nothing, !.leaving = no]
  OBVIOUS
<1> HIDE DEF no, next
<1>4. /\ next \in Tab(n) /\ next.view = tab.view /\ next.focus = Nothing
      /\ next.posting = tab.posting /\ next.stored = Nothing /\ ~next.leaving
      /\ next.sync = tab.sync
  BY <1>2, <1>3 DEF Tab
<1>5. Orderly(next, n)
  BY <1>1, <1>2, <1>4 DEF Orderly
<1>6. SessionsInv' /\ tabs'[t] = next
  BY <1>1, <1>5, TabSteps, TabFacts
<1>7. ASSUME KeptInv
      PROVE  /\ EndedIsKept'
             /\ next.sync # Nothing =>
                  Ids(outbox') \subseteq DOMAIN table' \cup Ids(next.sync.todo) \cup Ids(next.sync.failed)
  <2>1. Held(tab)
    BY <1>7 DEF KeptInv
  <2>2. EndedIsKept'
    BY <1>1, <1>7 DEF KeptInv, EndedIsKept, InOutbox
  <2> QED BY <1>1, <1>4, <2>1, <2>2 DEF Held
<1> QED BY <1>1, <1>6, <1>7, KeptSteps

LEMMA ReloadStep ==
    ASSUME SessionsInv, NEW t \in Tabs, Reload(t)
    PROVE  SessionsInv' /\ (OneTab /\ KeptInv => KeptInv')
<1> DEFINE n == clock.begun
           tab == tabs[t]
           fresh == NewTab(tab.stored)
           next == [Synced(fresh) EXCEPT !.view = "opening"]
<1>1. /\ table' \in {table} \cup (IF tab.posting = Nothing THEN {} ELSE {Recorded(tab.posting)})
      /\ tabs' = [tabs EXCEPT ![t] = next]
      /\ UNCHANGED <<outbox, clock, ended>>
  BY DEF Reload
<1>2. /\ Orderly(tab, n) /\ tab \in Tab(n) /\ n \in Nat /\ Waiting(outbox, n)
      /\ DOMAIN table \subseteq 1 .. n
  BY TabFacts
<1>3. DOMAIN table' \subseteq 1 .. n /\ DOMAIN table \subseteq DOMAIN table'
  <2>1. CASE table' = table
    BY <1>2, <2>1
  <2>2. CASE tab.posting # Nothing /\ table' = Recorded(tab.posting)
    <3>1. tab.posting.id \in 1 .. n
      BY <1>2, <2>2 DEF Tab, Session
    <3> QED BY <1>2, <2>2, <3>1, TableGrows
  <2> QED BY <1>1, <2>1, <2>2
<1>4. /\ fresh \in Tab(n) /\ fresh.view = "elsewhere" /\ fresh.focus = Nothing
      /\ fresh.posting = Nothing /\ fresh.sync = Nothing
  <2>1. tab.stored \in Timer(n) \cup {Nothing}
    BY <1>2 DEF Tab
  <2> QED BY <2>1 DEF NewTab, Tab
<1> HIDE DEF fresh
<1>5. Orderly(fresh, n) /\ Held(fresh)
  BY <1>4 DEF Orderly, Held
<1>6. /\ Orderly(next, n)
      /\ next.sync # Nothing =>
           Ids(outbox) \subseteq DOMAIN table \cup Ids(next.sync.todo) \cup Ids(next.sync.failed)
  BY <1>2, <1>4, <1>5, SyncBegins
<1> HIDE DEF next
<1>7. SessionsInv' /\ tabs'[t] = next
  BY <1>1, <1>3, <1>6, TabSteps, TabFacts
<1>8. KeptInv => EndedIsKept'
  BY <1>1, <1>3 DEF KeptInv, EndedIsKept, InOutbox
<1>9. next.sync # Nothing =>
        Ids(outbox') \subseteq DOMAIN table' \cup Ids(next.sync.todo) \cup Ids(next.sync.failed)
  BY <1>1, <1>3, <1>6
<1> QED BY <1>1, <1>7, <1>8, <1>9, KeptSteps

LEMMA TickStep ==
    ASSUME SessionsInv, Tick \/ UNCHANGED sessionVars
    PROVE  SessionsInv' /\ (OneTab /\ KeptInv => KeptInv')
<1>1. /\ clock' \in [now : Nat, begun : Nat] /\ clock'.begun = clock.begun
      /\ UNCHANGED <<tabs, outbox, table, ended>>
  BY DEF SessionsInv, Tick, sessionVars
<1>2. SessionsInv'
  BY <1>1 DEF SessionsInv
<1>3. KeptInv => KeptInv'
  <2>1. \A t \in Tabs : Held(tabs[t]) => Held(tabs[t])'
    BY <1>1 DEF Held
  <2>2. EndedIsKept => EndedIsKept'
    BY <1>1 DEF EndedIsKept, InOutbox
  <2> QED BY <2>1, <2>2 DEF KeptInv
<1> QED BY <1>2, <1>3

LEMMA SessionsStep ==
    ASSUME SessionsAssumption, SessionsInv, [SessionsNext]_sessionVars
    PROVE  SessionsInv' /\ (OneTab /\ KeptInv => KeptInv')
BY TickStep, OpenSteps, SyncPostsStep, SyncEndsStep, BookOpensStep, EnterFocusStep, ExitFocusStep,
   PostStep, FocusLeftStep, ReloadStep DEF SessionsNext

LEMMA SessionsBegin ==
    ASSUME SessionsAssumption, SessionsInit
    PROVE  SessionsInv /\ KeptInv
<1>1. Orderly(NewTab(Nothing), 0) /\ NewTab(Nothing).sync = Nothing
  BY DEF NewTab, Orderly, Tab
<1>2. clock \in [now : Nat, begun : Nat] /\ clock.begun = 0
  BY DEF SessionsInit
<1>3. \A t \in Tabs : tabs[t] = NewTab(Nothing)
  BY DEF SessionsInit
<1>4. tabs \in [Tabs -> Tab(0)]
  BY <1>1 DEF SessionsInit, Orderly
<1>5. Waiting(outbox, 0) /\ Len(outbox) <= KeptPending
  BY DEF SessionsInit, Waiting, SessionsAssumption
<1>6. DOMAIN table = {} /\ DOMAIN ended = {}
  BY DEF SessionsInit
<1>7. SessionsInv
  BY <1>1, <1>2, <1>3, <1>4, <1>5, <1>6 DEF SessionsInv
<1>8. KeptInv
  BY <1>1, <1>3, <1>6 DEF KeptInv, Held, EndedIsKept
<1> QED BY <1>7, <1>8

(* A focus session whose timer runs is remembered by its tab, and the outbox   *)
(* holds each session at most once and no more than it keeps, whichever tabs   *)
(* share it and whatever fails (ShelfPDFReaderPage.tsx, reading-sessions.ts).  *)
THEOREM RunningSessionsAreRemembered ==
    ASSUME SessionsAssumption
    PROVE  SessionsSpec => [](SessionsTypeOK /\ RunningIsRemembered)
<1>1. SessionsInit => SessionsInv
  BY SessionsBegin
<1>2. SessionsInv /\ [SessionsNext]_sessionVars => SessionsInv'
  BY SessionsStep
<1>3. SessionsInv => SessionsTypeOK /\ RunningIsRemembered
  <2> SUFFICES ASSUME SessionsInv PROVE SessionsTypeOK /\ RunningIsRemembered
    OBVIOUS
  <2>1. Cardinality(Ids(outbox)) = Len(outbox)
    BY WaitingFits DEF SessionsInv
  <2>2. Ids(outbox) \subseteq 1 .. clock.begun
    <3>1. \A i \in DOMAIN outbox : outbox[i] \in Session(clock.begun)
      BY DEF SessionsInv, Waiting
    <3> QED BY <3>1 DEF Ids, Session
  <2>3. SessionsTypeOK
    BY <2>1, <2>2, OutboxIdsAre DEF SessionsInv, SessionsTypeOK
  <2>4. RunningIsRemembered
    BY DEF SessionsInv, Orderly, RunningIsRemembered
  <2> QED BY <2>3, <2>4
<1> QED BY <1>1, <1>2, <1>3, PTL DEF SessionsSpec

(* Where one tab uses the outbox, no session that the reader was shown as ended *)
(* is lost: the server has recorded it or the outbox holds it, as long as no    *)
(* more sessions were begun than the outbox keeps (queueShelfReadingSession and *)
(* syncPendingShelfReadingSessions).                                            *)
THEOREM EndedSessionsAreKept ==
    ASSUME SessionsAssumption, OneTab
    PROVE  SessionsSpec => []EndedIsKept
<1>1. SessionsInit => SessionsInv /\ KeptInv
  BY SessionsBegin
<1>2. SessionsInv /\ KeptInv /\ [SessionsNext]_sessionVars => SessionsInv' /\ KeptInv'
  BY SessionsStep
<1>3. KeptInv => EndedIsKept
  BY DEF KeptInv
<1> QED BY <1>1, <1>2, <1>3, PTL DEF SessionsSpec

-----------------------------------------------------------------------------
(* Conversations                                                           *)

\* The largest of the numbers up to n that are in a set.
LEMMA LargestExists ==
    ASSUME NEW n \in Nat, NEW S \in SUBSET (1 .. n), S # {}
    PROVE  \E k \in S : \A j \in S : j <= k
<1> DEFINE Above(k) == {j \in 1 .. n : j > k}
           T == {Above(k) : k \in S}
<1>1. IsFiniteSet(1 .. n)
  BY FS_Interval
<1>2. IsWellFoundedOn(StrictSubsetOrdering(1 .. n), SUBSET (1 .. n))
  BY <1>1, FS_FiniteSubsetsOfFinite, FS_StrictSubsetOrderingWellFounded
<1>3. T \subseteq SUBSET (1 .. n) /\ T # {}
  OBVIOUS
<1>4. \E x \in T : \A y \in T : ~(<<y, x>> \in StrictSubsetOrdering(1 .. n))
  <2> HIDE DEF T
  <2> QED BY <1>2, <1>3, WFMin
<1>5. PICK k \in S : \A y \in T : ~(<<y, Above(k)>> \in StrictSubsetOrdering(1 .. n))
  BY <1>4
<1>6. ASSUME NEW j \in S, j > k PROVE FALSE
  <2>1. Above(j) \in T /\ <<Above(j), Above(k)>> \notin StrictSubsetOrdering(1 .. n)
    BY <1>5
  <2>2. Above(j) \subseteq Above(k) /\ j \in Above(k) /\ j \notin Above(j)
    BY <1>6
  <2>3. Above(j) \in SUBSET (1 .. n) /\ Above(k) \in SUBSET (1 .. n) /\ Above(j) # Above(k)
    BY <2>2
  <2> HIDE DEF Above
  <2> QED BY <2>1, <2>2, <2>3 DEF StrictSubsetOrdering
<1> QED BY <1>6

Message == Threads!Message

\* Threads whose messages are of questions up to n, in their order: a prompt comes after
\* all that was said before it was asked.
Told(n) == {s \in Seq(Message) : /\ \A i \in DOMAIN s : s[i].q <= n
                                 /\ \A i, j \in DOMAIN s : i < j =>
                                      /\ s[i].q <= s[j].q
                                      /\ s[j].by = "reader" => s[i].q < s[j].q}

LEMMA MessagesOf ==
    ASSUME NEW s \in Seq(Message), NEW i \in DOMAIN s
    PROVE  s[i] \in Message /\ s[i].q \in Nat /\ s[i].of \in 1 .. MaxQuestions
<1>1. s[i] \in Message
  OBVIOUS
<1>2. s[i].q \in 1 .. MaxQuestions /\ s[i].of \in 1 .. MaxQuestions
  BY <1>1 DEF Message, Threads!Message
<1> QED BY <1>1, <1>2

LEMMA ToldGrows ==
    ASSUME NEW m \in Int, NEW n \in Int, m <= n
    PROVE  /\ Told(m) \subseteq Told(n)
           /\ \A list \in Seq(Told(m)) : list \in Seq(Told(n))
<1>1. ASSUME NEW s \in Told(m) PROVE s \in Told(n)
  <2>1. s \in Seq(Message) /\ \A i \in DOMAIN s : s[i].q \in Nat
    BY MessagesOf DEF Told
  <2>2. \A i \in DOMAIN s : s[i].q <= n
    BY <2>1 DEF Told
  <2> QED BY <2>2 DEF Told
<1>2. Told(m) \subseteq Told(n)
  BY <1>1
<1> HIDE DEF Told
<1>3. \A list \in Seq(Told(m)) : list \in Seq(Told(n))
  BY <1>2
<1> QED BY <1>2, <1>3

LEMMA SubSeqTold ==
    ASSUME NEW n \in Int, NEW s \in Told(n), NEW a \in Nat \ {0}, NEW b \in Int, b <= Len(s)
    PROVE  /\ SubSeq(s, a, b) \in Told(n)
           /\ \A k \in DOMAIN SubSeq(s, a, b) : a + k - 1 \in DOMAIN s /\ SubSeq(s, a, b)[k] = s[a + k - 1]
<1> DEFINE part == SubSeq(s, a, b)
<1>1. s \in Seq(Message)
  BY DEF Told
<1>2. /\ part \in Seq(Message) /\ DOMAIN part = 1 .. IF a <= b THEN b - a + 1 ELSE 0
      /\ \A k \in DOMAIN part : a + k - 1 \in DOMAIN s /\ part[k] = s[a + k - 1]
  BY <1>1
<1> HIDE DEF part
<1>3. ASSUME NEW k \in DOMAIN part PROVE part[k].q <= n
  BY <1>2, <1>3 DEF Told
<1>4. ASSUME NEW i \in DOMAIN part, NEW j \in DOMAIN part, i < j
      PROVE  part[i].q <= part[j].q /\ (part[j].by = "reader" => part[i].q < part[j].q)
  <2> DEFINE x == a + i - 1
             y == a + j - 1
  <2>1. x \in DOMAIN s /\ y \in DOMAIN s /\ x < y /\ part[i] = s[x] /\ part[j] = s[y]
    BY <1>1, <1>2, <1>4
  <2> HIDE DEF x, y
  <2> QED BY <2>1 DEF Told
<1>5. part \in Told(n)
  BY <1>2, <1>3, <1>4 DEF Told
<1> QED BY <1>2, <1>5 DEF part

LEMMA AppendTold ==
    ASSUME NEW n \in Int, NEW m \in Int, NEW s \in Told(m), NEW c \in Message, m <= n, c.q = n,
           c.by = "reader" => m < n
    PROVE  Append(s, c) \in Told(n)
<1> DEFINE more == Append(s, c)
<1>1. s \in Seq(Message) /\ Len(s) \in Nat
  BY DEF Told
<1>2. /\ more \in Seq(Message) /\ DOMAIN more = 1 .. Len(s) + 1 /\ more[Len(s) + 1] = c
      /\ \A i \in 1 .. Len(s) : i \in DOMAIN s /\ more[i] = s[i]
  BY <1>1
<1>3. \A i \in DOMAIN s : s[i] \in Message /\ s[i].q \in Int /\ s[i].q <= m
  BY <1>1, MessagesOf DEF Told
<1> HIDE DEF more
<1>4. ASSUME NEW i \in DOMAIN more PROVE more[i].q <= n
  BY <1>1, <1>2, <1>3
<1>5. ASSUME NEW i \in DOMAIN more, NEW j \in DOMAIN more, i < j
      PROVE  more[i].q <= more[j].q /\ (more[j].by = "reader" => more[i].q < more[j].q)
  <2>1. CASE j = Len(s) + 1
    BY <1>1, <1>2, <1>3, <1>5, <2>1
  <2>2. CASE j \in 1 .. Len(s)
    <3>1. i \in DOMAIN s /\ j \in DOMAIN s /\ more[i] = s[i] /\ more[j] = s[j]
      BY <1>1, <1>2, <1>5, <2>2
    <3> QED BY <3>1, <1>5 DEF Told
  <2> QED BY <1>1, <1>2, <2>1, <2>2
<1>6. more \in Told(n)
  BY <1>2, <1>4, <1>5 DEF Told
<1> QED BY <1>6 DEF more

LEMMA CutTold ==
    ASSUME NEW n \in Int, NEW s \in Told(n), NEW k \in Nat \ {0}
    PROVE  Threads!LastOf(s, k) \in Told(n) /\ Len(Threads!LastOf(s, k)) <= k
<1>1. s \in Seq(Message)
  BY DEF Told
<1> DEFINE a == IF Len(s) > k THEN Len(s) - k + 1 ELSE 1
<1>2. a \in Nat \ {0} /\ Len(s) \in Int /\ Threads!LastOf(s, k) = SubSeq(s, a, Len(s))
  BY <1>1 DEF Threads!LastOf
<1>3. Len(SubSeq(s, a, Len(s))) <= k
  BY <1>1
<1> HIDE DEF a
<1>4. SubSeq(s, a, Len(s)) \in Told(n)
  BY <1>2, SubSeqTold
<1> QED BY <1>2, <1>3, <1>4

\* The archive is cut, and an entry leaves it.
LEMMA ArchiveIsCut ==
    ASSUME NEW S, NEW list \in Seq(S), NEW k \in Nat
    PROVE  Threads!FirstOf(list, k) \in Seq(S) /\ Len(Threads!FirstOf(list, k)) <= k
BY DEF Threads!FirstOf

LEMMA EntryLeaves ==
    ASSUME NEW S, NEW list \in Seq(S), NEW k \in DOMAIN list
    PROVE  /\ Threads!RemoveAt(list, k) \in Seq(S)
           /\ Len(Threads!RemoveAt(list, k)) = Len(list) - 1
           /\ \A j \in 1 .. Len(list) - 1 :
                Threads!RemoveAt(list, k)[j] = IF j < k THEN list[j] ELSE list[j + 1]
<1> DEFINE head == SubSeq(list, 1, k - 1)
           tail == SubSeq(list, k + 1, Len(list))
<1>1. /\ head \in Seq(S) /\ Len(head) = k - 1
      /\ \A j \in 1 .. k - 1 : head[j] = list[j]
  OBVIOUS
<1>2. /\ tail \in Seq(S) /\ Len(tail) = Len(list) - k
      /\ \A j \in 1 .. Len(list) - k : tail[j] = list[k + j]
  OBVIOUS
<1>3. Threads!RemoveAt(list, k) = head \o tail
  BY DEF Threads!RemoveAt
<1>4. Len(list) \in Nat /\ k \in 1 .. Len(list)
  OBVIOUS
<1> HIDE DEF head, tail
<1>5. /\ head \o tail \in Seq(S) /\ Len(head \o tail) = Len(list) - 1
  BY <1>1, <1>2, <1>4
<1>6. ASSUME NEW j \in 1 .. Len(list) - 1
      PROVE  (head \o tail)[j] = IF j < k THEN list[j] ELSE list[j + 1]
  <2>1. CASE j < k
    <3>1. j \in 1 .. k - 1 /\ j \in 1 .. Len(head)
      BY <1>1, <1>4, <2>1
    <3>2. (head \o tail)[j] = head[j]
      BY <1>1, <1>2, <3>1
    <3>3. head[j] = list[j]
      BY <1>1, <3>1
    <3> QED BY <3>2, <3>3, <2>1
  <2>2. CASE j >= k
    <3>1. (head \o tail)[j] = tail[j - Len(head)]
      BY <1>1, <1>2, <1>4, <2>2
    <3>2. j - Len(head) \in 1 .. Len(list) - k /\ k + (j - Len(head)) = j + 1
      BY <1>1, <1>4, <2>2
    <3> QED BY <1>2, <3>1, <3>2, <2>2
  <2>3. j \in Int /\ k \in Int
    BY <1>4
  <2>4. j < k \/ j >= k
    BY <2>3
  <2> QED BY <2>1, <2>2, <2>4
<1> QED BY <1>3, <1>5, <1>6

Asked == [path : {"tutor", "direct", "passage"}, stage : {"context", "model"}, life : Nat,
          base : Seq(Message), q : 1 .. MaxQuestions, of : 1 .. MaxQuestions,
          since : 1 .. MaxQuestions, hidden : BOOLEAN,
          variant : {"", "overview", "alternate", "reworked"}, replace : Nat, before : Nat,
          retry : BOOLEAN, history : Seq(Message)]

\* What a question has to go by before it is sent: the turns before its own, and where the
\* prompt stands from which the conversation is asked anew.
Prepared(c) ==
    /\ c.base \in Told(c.q - 1) /\ c.since <= c.q /\ c.history = << >>
    /\ c.replace \in 0 .. Len(c.base) /\ c.before \in 0 .. Len(c.base)
    /\ c.replace > 0 => c.before = 0
    /\ \A k \in 1 .. c.replace - 1 : c.base[k].q < c.since
    /\ \A k \in 1 .. c.before - 1 : c.base[k].q < c.since
    /\ c.replace = 0 /\ c.before = 0 => c.retry \/ c.since = c.q

Sound(c) == c.retry \/ \A i \in DOMAIN c.history : c.history[i].q < c.since

LEMMA AskedFields ==
    ASSUME NEW c \in Asked
    PROVE  /\ c.q \in 1 .. MaxQuestions /\ c.of \in 1 .. MaxQuestions /\ c.since \in 1 .. MaxQuestions
           /\ c.q \in Int /\ c.since \in Int /\ c.life \in Nat /\ c.base \in Seq(Message)
           /\ c.retry \in BOOLEAN /\ c.history \in Seq(Message)
<1>1. /\ c.q \in 1 .. MaxQuestions /\ c.of \in 1 .. MaxQuestions /\ c.since \in 1 .. MaxQuestions
      /\ c.life \in Nat /\ c.base \in Seq(Message) /\ c.retry \in BOOLEAN /\ c.history \in Seq(Message)
  BY DEF Asked
<1> QED BY <1>1

LEMMA PromptIsMessage ==
    ASSUME NEW c \in Asked
    PROVE  /\ Threads!Prompt(c) \in Message /\ Threads!Prompt(c).q = c.q
           /\ Threads!Answer(c) \in Message /\ Threads!Answer(c).q = c.q
           /\ Threads!Answer(c).by = "tutor"
BY DEF Asked, Threads!Prompt, Threads!Answer, Message, Threads!Message

LEMMA NextIsTold ==
    ASSUME NEW c \in Asked, Prepared(c)
    PROVE  Threads!NextMessages(c) \in Told(c.q)
<1> DEFINE kept == IF c.replace > 0 THEN SubSeq(c.base, 1, c.replace - 1) ELSE c.base
           prompt == Threads!Prompt(c)
<1>1. /\ c.q \in Int /\ c.q - 1 \in Int /\ c.base \in Told(c.q - 1) /\ c.base \in Seq(Message)
      /\ c.replace \in 0 .. Len(c.base)
  BY AskedFields DEF Prepared
<1>2. Threads!NextMessages(c) = IF c.retry THEN c.base ELSE Append(kept, prompt)
  BY DEF Threads!NextMessages
<1>3. c.base \in Told(c.q)
  BY <1>1, ToldGrows
<1>4. kept \in Told(c.q - 1)
  <2>1. c.replace > 0 => 1 \in Nat \ {0} /\ c.replace - 1 \in Int /\ c.replace - 1 <= Len(c.base)
    BY <1>1
  <2>2. c.replace > 0 => SubSeq(c.base, 1, c.replace - 1) \in Told(c.q - 1)
    BY <1>1, <2>1, SubSeqTold
  <2> QED BY <1>1, <2>2
<1>5. prompt \in Message /\ prompt.q = c.q
  BY PromptIsMessage
<1> HIDE DEF kept, prompt
<1>6. Append(kept, prompt) \in Told(c.q)
  BY <1>1, <1>4, <1>5, AppendTold
<1> QED BY <1>2, <1>3, <1>6

\* All but the last turn of a conversation's end are turns before its last one.
LEMMA FrontOfLast ==
    ASSUME NEW s \in Seq(Message), s # <<>>, NEW n \in Nat \ {0}
    PROVE  /\ Threads!Front(Threads!LastOf(s, n)) \in Seq(Message)
           /\ \A i \in DOMAIN Threads!Front(Threads!LastOf(s, n)) :
                \E j \in 1 .. Len(s) - 1 : Threads!Front(Threads!LastOf(s, n))[i] = s[j]
<1> DEFINE a == IF Len(s) > n THEN Len(s) - n + 1 ELSE 1
           end == SubSeq(s, a, Len(s))
           front == SubSeq(end, 1, Len(end) - 1)
<1>1. Len(s) \in Nat /\ Len(s) # 0 /\ a \in 1 .. Len(s)
  OBVIOUS
<1>2. Threads!LastOf(s, n) = end /\ Threads!Front(end) = front
  BY DEF Threads!LastOf, Threads!Front
<1> HIDE DEF a
<1>3. /\ end \in Seq(Message) /\ Len(end) = Len(s) - a + 1
      /\ \A k \in 1 .. Len(s) - a + 1 : end[k] = s[a + k - 1]
  BY <1>1
<1> HIDE DEF end
<1>4. /\ front \in Seq(Message) /\ DOMAIN front = 1 .. Len(s) - a
      /\ \A k \in 1 .. Len(s) - a : front[k] = end[k]
  BY <1>1, <1>3
<1> HIDE DEF front
<1>5. ASSUME NEW i \in DOMAIN front PROVE \E j \in 1 .. Len(s) - 1 : front[i] = s[j]
  <2>1. i \in 1 .. Len(s) - a /\ i \in 1 .. Len(s) - a + 1 /\ a + i - 1 \in 1 .. Len(s) - 1
    BY <1>1, <1>4
  <2>2. front[i] = s[a + i - 1]
    BY <1>3, <1>4, <2>1
  <2> QED BY <2>1, <2>2
<1> QED BY <1>2, <1>4, <1>5

LEMMA HistoryIsBefore ==
    ASSUME NEW c \in Asked, Prepared(c), RecentMessages \in Nat \ {0}
    PROVE  /\ Threads!HistoryForModel(c) \in Seq(Message)
           /\ c.retry \/ \A i \in DOMAIN Threads!HistoryForModel(c) :
                           Threads!HistoryForModel(c)[i].q < c.since
<1> DEFINE next == Threads!NextMessages(c)
           last == Threads!Last(next)
           prompt == Threads!Prompt(c)
           sent == IF c.before > 0 THEN Append(SubSeq(c.base, 1, c.before - 1), last) ELSE next
           history == Threads!Front(Threads!LastOf(sent, RecentMessages))
<1>1. /\ c.q \in Int /\ c.since \in Int /\ c.base \in Told(c.q - 1) /\ c.base \in Seq(Message)
      /\ c.replace \in 0 .. Len(c.base) /\ c.before \in 0 .. Len(c.base) /\ c.retry \in BOOLEAN
  BY AskedFields DEF Prepared
<1>2. Threads!HistoryForModel(c) = IF c.retry /\ c.base = <<>> THEN <<>> ELSE history
  BY DEF Threads!HistoryForModel
<1>3. CASE c.retry /\ c.base = <<>>
  BY <1>2, <1>3
<1>4. CASE ~(c.retry /\ c.base = <<>>)
  <2>1. next \in Seq(Message)
    BY NextIsTold DEF Told
  <2>2. prompt \in Message
    BY PromptIsMessage
  <2>3. next # <<>>
    <3>1. next = IF c.retry THEN c.base
                 ELSE Append(IF c.replace > 0 THEN SubSeq(c.base, 1, c.replace - 1) ELSE c.base, prompt)
      BY DEF Threads!NextMessages
    <3> HIDE DEF next, prompt
    <3> QED BY <1>1, <1>4, <2>2, <3>1
  <2>4. last \in Message
    <3>1. Threads!Last(next) = next[Len(next)]
      BY DEF Threads!Last
    <3> HIDE DEF next
    <3>2. Len(next) \in DOMAIN next
      BY <2>1, <2>3
    <3> QED BY <2>1, <3>1, <3>2
  <2>5. /\ sent \in Seq(Message) /\ sent # <<>>
        /\ c.before > 0 => \A j \in 1 .. Len(sent) - 1 : j \in 1 .. c.before - 1 /\ sent[j] = c.base[j]
    <3> HIDE DEF next, last
    <3>1. CASE c.before > 0
      BY <1>1, <2>4, <3>1
    <3>2. CASE c.before = 0
      BY <1>1, <2>1, <2>3, <3>2
    <3> QED BY <1>1, <3>1, <3>2
  <2>6. /\ history \in Seq(Message)
        /\ \A i \in DOMAIN history : \E j \in 1 .. Len(sent) - 1 : history[i] = sent[j]
    <3> HIDE DEF sent
    <3> QED BY <2>5, FrontOfLast
  <2>7. ASSUME ~c.retry, NEW j \in 1 .. Len(sent) - 1 PROVE sent[j].q < c.since
    <3>1. CASE c.before > 0
      <4> HIDE DEF sent
      <4> QED BY <2>5, <2>7, <3>1 DEF Prepared
    <3>2. CASE c.before = 0
      <4>0. ~(c.before > 0)
        BY <3>2
      <4>1. sent = Append(IF c.replace > 0 THEN SubSeq(c.base, 1, c.replace - 1) ELSE c.base, prompt)
        BY Zenon, <2>7, <4>0 DEF Threads!NextMessages
      <4> HIDE DEF sent, prompt
      <4>2. CASE c.replace > 0
        <5>1. j \in 1 .. c.replace - 1 /\ sent[j] = c.base[j]
          BY <1>1, <2>2, <2>7, <4>1, <4>2
        <5> QED BY <5>1 DEF Prepared
      <4>3. CASE c.replace = 0
        <5>1. j \in DOMAIN c.base /\ sent[j] = c.base[j]
          BY <1>1, <2>2, <2>7, <4>1, <4>3
        <5>2. c.base[j].q <= c.q - 1 /\ c.base[j].q \in Nat /\ c.since = c.q
          BY <1>1, <2>7, <3>2, <4>3, <5>1, MessagesOf DEF Prepared, Told
        <5> QED BY <1>1, <5>1, <5>2
      <4> QED BY <1>1, <4>2, <4>3
    <3> QED BY <1>1, <3>1, <3>2
  <2> HIDE DEF history, sent
  <2>8. c.retry \/ \A i \in DOMAIN history : history[i].q < c.since
    BY <2>6, <2>7
  <2> QED BY <1>2, <1>4, <2>6, <2>8
<1> QED BY <1>3, <1>4
Panel(n) == [open : BOOLEAN, life : Nat, messages : Told(n), archived : Seq(Told(n)),
             busy : BOOLEAN, editing : Nat, failed : 0 .. MaxQuestions, overviewed : BOOLEAN,
             asked : 0 .. MaxQuestions]

\* What is edited is a prompt that is shown; the archive is bounded.
Fits(new) ==
    /\ new \in Panel(new.asked)
    /\ Len(new.archived) <= KeptThreads
    /\ new.editing # 0 => new.editing \in DOMAIN new.messages /\ new.messages[new.editing].by = "reader"

SavedKnown ==
    /\ saved \in [messages : Told(chat.asked), archived : Seq(Told(chat.asked)), overview : BOOLEAN]
    /\ Len(saved.messages) <= KeptMessages

AsksKnown ==
    /\ asks \in Seq(Asked)
    /\ \A i \in DOMAIN asks :
         /\ asks[i].q <= chat.asked /\ asks[i].life <= chat.life
         /\ asks[i].path # "tutor" => asks[i].stage = "context"
         /\ asks[i].stage = "context" => Prepared(asks[i])
         /\ asks[i].stage = "model" => Sound(asks[i])

\* At most one question of this opening is under way: the last one that was asked. While it
\* reads the document nothing is said after it.
OneUnderway ==
    /\ \A i, j \in DOMAIN asks : Threads!Live(asks[i]) /\ Threads!Live(asks[j]) => i = j
    /\ chat.open => (chat.busy <=> \E i \in DOMAIN asks : Threads!Live(asks[i]))
    /\ \A i \in DOMAIN asks : Threads!Live(asks[i]) =>
         /\ asks[i].q = chat.asked
         /\ asks[i].stage = "context" => /\ chat.messages \in Told(chat.asked - 1)
                                         /\ chat.archived \in Seq(Told(chat.asked - 1))

ThreadsInv == Fits(chat) /\ SavedKnown /\ AsksKnown /\ OneUnderway

LEMMA ThreadsFacts ==
    ASSUME ThreadsInv, Threads!ThreadsAssumption
    PROVE  /\ chat.asked \in Int /\ chat.asked - 1 \in Int /\ chat.life \in Nat
           /\ chat.messages \in Told(chat.asked) /\ chat.archived \in Seq(Told(chat.asked))
           /\ chat.messages \in Seq(Message) /\ Len(chat.messages) \in Nat
           /\ KeptMessages \in Nat \ {0} /\ RecentMessages \in Nat \ {0} /\ KeptThreads \in Nat \ {0}
           /\ MaxQuestions \in Nat /\ chat \in Panel(chat.asked) /\ Len(chat.archived) <= KeptThreads
           /\ saved.messages \in Told(chat.asked) /\ saved.archived \in Seq(Told(chat.asked))
           /\ saved.overview \in BOOLEAN
<1>1. chat \in Panel(chat.asked) /\ Len(chat.archived) <= KeptThreads
  BY DEF ThreadsInv, Fits
<1>2. /\ chat.asked \in 0 .. MaxQuestions /\ chat.life \in Nat
      /\ chat.messages \in Told(chat.asked) /\ chat.archived \in Seq(Told(chat.asked))
  BY <1>1 DEF Panel
<1>3. chat.messages \in Seq(Message)
  BY <1>2 DEF Told
<1>4. /\ KeptMessages \in Nat \ {0} /\ RecentMessages \in Nat \ {0} /\ KeptThreads \in Nat \ {0}
      /\ MaxQuestions \in Nat
  BY DEF Threads!ThreadsAssumption
<1>5. /\ saved.messages \in Told(chat.asked) /\ saved.archived \in Seq(Told(chat.asked))
      /\ saved.overview \in BOOLEAN
  BY DEF ThreadsInv, SavedKnown
<1> QED BY <1>1, <1>2, <1>3, <1>4, <1>5

\* What is shown is stored as far as it is kept.
LEMMA ShownIsStored ==
    ASSUME ThreadsInv, Threads!ThreadsAssumption, NEW new, Fits(new), Threads!Show(new)
    PROVE  chat' = new /\ Fits(chat)' /\ SavedKnown'
<1> DEFINE told == Threads!LastOf(new.messages, KeptMessages)
           kept == Threads!FirstOf(new.archived, KeptThreads)
<1>1. chat' = new /\ saved' = [saved EXCEPT !.messages = told, !.archived = kept]
  BY DEF Threads!Show
<1>2. /\ new.asked \in Int /\ new.messages \in Told(new.asked) /\ new.archived \in Seq(Told(new.asked))
      /\ KeptMessages \in Nat \ {0} /\ KeptThreads \in Nat
  BY ThreadsFacts DEF Fits, Panel
<1>3. told \in Told(new.asked) /\ Len(told) <= KeptMessages
  BY <1>2, CutTold
<1>4. kept \in Seq(Told(new.asked))
  BY <1>2, ArchiveIsCut
<1>5. Fits(chat)'
  BY <1>1 DEF Fits, Panel, Told
<1> HIDE DEF told, kept
<1>6. saved'.messages = told /\ saved' \in [messages : Told(new.asked), archived : Seq(Told(new.asked)), overview : BOOLEAN]
  BY <1>1, <1>3, <1>4 DEF ThreadsInv, SavedKnown
<1>7. SavedKnown'
  <2>1. \A n : Told(n)' = Told(n)
    BY DEF Told
  <2> QED BY <1>1, <1>3, <1>6, <2>1 DEF SavedKnown
<1> QED BY <1>1, <1>5, <1>7
\* The reader rearranged conversations: nothing is said that was not said before.
Conversed ==
    /\ UNCHANGED asks
    /\ Fits(chat)' /\ SavedKnown'
    /\ chat'.asked = chat.asked /\ chat'.open = chat.open
    /\ chat'.life = chat.life /\ chat'.busy = chat.busy
    /\ \A n \in Int : chat.messages \in Told(n) /\ chat.archived \in Seq(Told(n)) =>
                        chat'.messages \in Told(n) /\ chat'.archived \in Seq(Told(n))

LEMMA FreshConverses ==
    ASSUME ThreadsInv, Threads!ThreadsAssumption, NEW messages, NEW list, UNCHANGED asks,
           \A n \in Int : chat.messages \in Told(n) /\ chat.archived \in Seq(Told(n)) =>
                            messages \in Told(n) /\ list \in Seq(Told(n)),
           Threads!Show(Threads!Fresh(messages, list))
    PROVE  Conversed
<1> DEFINE kept == Threads!FirstOf(list, KeptThreads)
           new == [chat EXCEPT !.messages = messages, !.archived = kept, !.failed = 0, !.editing = 0]
<1>0. Threads!Fresh(messages, list) = new
  BY DEF Threads!Fresh
<1>1. \A n \in Int : chat.messages \in Told(n) /\ chat.archived \in Seq(Told(n)) =>
        messages \in Told(n) /\ kept \in Seq(Told(n)) /\ Len(kept) <= KeptThreads
  BY ThreadsFacts, ArchiveIsCut
<1> HIDE DEF kept
<1>2. /\ messages \in Told(chat.asked) /\ kept \in Seq(Told(chat.asked)) /\ Len(kept) <= KeptThreads
  BY <1>1, ThreadsFacts
<1>3. Fits(new)
  <2>1. chat \in Panel(chat.asked) /\ MaxQuestions \in Nat
    BY ThreadsFacts
  <2>2. 0 \in Nat /\ 0 \in 0 .. MaxQuestions
    BY <2>1
  <2>3. new \in Panel(chat.asked)
    BY <1>2, <2>1, <2>2 DEF Panel
  <2>4. new.asked = chat.asked
    BY <2>1 DEF Panel
  <2> QED BY <1>2, <2>1, <2>3, <2>4 DEF Fits, Panel
<1>4. chat' = new /\ Fits(chat)' /\ SavedKnown'
  BY <1>0, <1>3, ShownIsStored
<1>5. /\ chat'.asked = chat.asked /\ chat'.open = chat.open /\ chat'.life = chat.life
      /\ chat'.busy = chat.busy /\ chat'.messages = messages /\ chat'.archived = kept
  <2>1. chat \in Panel(chat.asked)
    BY ThreadsFacts
  <2> QED BY <1>4, <2>1 DEF Panel
<1> HIDE DEF new
<1> QED BY <1>1, <1>4, <1>5 DEF Conversed

LEMMA ArchiveConverses ==
    ASSUME ThreadsInv, Threads!ThreadsAssumption, NEW list, UNCHANGED asks,
           \A n \in Int : chat.archived \in Seq(Told(n)) => list \in Seq(Told(n)),
           Len(list) <= KeptThreads,
           Threads!Show([chat EXCEPT !.archived = list])
    PROVE  Conversed
<1> DEFINE new == [chat EXCEPT !.archived = list]
<1>1. chat \in Panel(chat.asked) /\ list \in Seq(Told(chat.asked))
  BY ThreadsFacts
<1>2. Fits(new)
  <2>0. new.asked = chat.asked
    BY <1>1 DEF Panel
  <2>1. new \in Panel(chat.asked) /\ new.asked = chat.asked
    BY <1>1, <2>0 DEF Panel
  <2>2. new.messages = chat.messages /\ new.editing = chat.editing /\ new.archived = list
    BY <1>1 DEF Panel
  <2> HIDE DEF new
  <2> QED BY <2>1, <2>2 DEF Fits, ThreadsInv
<1>3. chat' = new /\ Fits(chat)' /\ SavedKnown'
  BY <1>2, ShownIsStored
<1>4. /\ chat'.asked = chat.asked /\ chat'.open = chat.open /\ chat'.life = chat.life
      /\ chat'.busy = chat.busy /\ chat'.messages = chat.messages /\ chat'.archived = list
  BY <1>1, <1>3 DEF Panel
<1> HIDE DEF new
<1> QED BY <1>3, <1>4 DEF Conversed

LEMMA EmptyIsTold ==
    ASSUME NEW n \in Int
    PROVE  /\ << >> \in Told(n)
           /\ \A s \in Told(n) : <<s>> \in Seq(Told(n))
           /\ \A a, b \in Seq(Told(n)) : a \o b \in Seq(Told(n))
           /\ << >> \in Seq(Told(n))
<1>1. << >> \in Told(n)
  BY DEF Told
<1> HIDE DEF Told
<1> QED BY <1>1

LEMMA SnapshotTold ==
    ASSUME NEW n \in Int, chat.messages \in Told(n), KeptMessages \in Nat \ {0}
    PROVE  Threads!Snapshot \in Seq(Told(n))
<1> DEFINE kept == Threads!LastOf(chat.messages, KeptMessages)
<1>1. kept \in Told(n)
  BY CutTold
<1>2. Threads!Snapshot = IF chat.messages = <<>> THEN <<>> ELSE <<kept>>
  BY DEF Threads!Snapshot
<1> HIDE DEF kept
<1> QED BY <1>1, <1>2, EmptyIsTold

LEMMA ConversationStep ==
    ASSUME ThreadsInv, Threads!ThreadsAssumption,
           \/ Threads!StartNewDiscussion \/ Threads!RestoreArchivedThread
           \/ Threads!ForgetCurrentDiscussion \/ Threads!DeleteArchivedThread
           \/ Threads!ForgetArchivedThreads \/ Threads!EditPromptAt
    PROVE  Conversed
<1>1. CASE Threads!StartNewDiscussion
  <2> DEFINE list == Threads!Snapshot \o chat.archived
  <2>1. Threads!Show(Threads!Fresh(<<>>, list)) /\ UNCHANGED asks
    BY <1>1 DEF Threads!StartNewDiscussion
  <2>2. \A n \in Int : chat.messages \in Told(n) /\ chat.archived \in Seq(Told(n)) =>
          << >> \in Told(n) /\ list \in Seq(Told(n))
    BY ThreadsFacts, SnapshotTold, EmptyIsTold
  <2> HIDE DEF list
  <2> QED BY <2>1, <2>2, FreshConverses
<1>2. CASE Threads!RestoreArchivedThread
  <2>1. PICK k \in DOMAIN chat.archived :
          /\ UNCHANGED asks
          /\ Threads!Show(Threads!Fresh(chat.archived[k],
               Threads!Snapshot \o Threads!RemoveAt(chat.archived, k)))
    BY <1>2 DEF Threads!RestoreArchivedThread
  <2> DEFINE restored == chat.archived[k]
             list == Threads!Snapshot \o Threads!RemoveAt(chat.archived, k)
  <2>2. ASSUME NEW n \in Int, chat.messages \in Told(n), chat.archived \in Seq(Told(n))
        PROVE  restored \in Told(n) /\ list \in Seq(Told(n))
    <3>1. Threads!RemoveAt(chat.archived, k) \in Seq(Told(n)) /\ Threads!Snapshot \in Seq(Told(n))
      BY <2>2, EntryLeaves, SnapshotTold, ThreadsFacts
    <3>2. list \in Seq(Told(n))
      BY <3>1, EmptyIsTold
    <3>3. restored \in Told(n)
      BY <2>2
    <3> QED BY <3>2, <3>3
  <2>3. Threads!Show(Threads!Fresh(restored, list)) /\ UNCHANGED asks
    BY <2>1
  <2> HIDE DEF restored, list
  <2> QED BY <2>2, <2>3, FreshConverses
<1>3. CASE Threads!ForgetCurrentDiscussion
  <2>1. Threads!Show(Threads!Fresh(<<>>, chat.archived)) /\ UNCHANGED asks
    BY <1>3 DEF Threads!ForgetCurrentDiscussion
  <2> QED BY <2>1, EmptyIsTold, FreshConverses
<1>4. CASE Threads!DeleteArchivedThread
  <2>1. PICK k \in DOMAIN chat.archived :
          /\ UNCHANGED asks
          /\ Threads!Show([chat EXCEPT !.archived = Threads!RemoveAt(chat.archived, k)])
    BY <1>4 DEF Threads!DeleteArchivedThread
  <2> DEFINE list == Threads!RemoveAt(chat.archived, k)
  <2>2. \A n \in Int : chat.archived \in Seq(Told(n)) => list \in Seq(Told(n))
    BY EntryLeaves
  <2>3. Len(list) <= KeptThreads
    <3>1. Len(list) = Len(chat.archived) - 1
      BY EntryLeaves, ThreadsFacts
    <3>2. chat.archived \in Seq(Told(chat.asked)) /\ Len(chat.archived) <= KeptThreads /\ KeptThreads \in Nat
      BY ThreadsFacts
    <3> HIDE DEF list
    <3> QED BY <3>1, <3>2
  <2> HIDE DEF list
  <2>4. Threads!Show([chat EXCEPT !.archived = list]) /\ UNCHANGED asks
    BY <2>1 DEF list
  <2> QED BY <2>2, <2>3, <2>4, ArchiveConverses
<1>5. CASE Threads!ForgetArchivedThreads
  <2>1. Threads!Show([chat EXCEPT !.archived = <<>>]) /\ UNCHANGED asks
    BY <1>5 DEF Threads!ForgetArchivedThreads
  <2>2. Len(<< >>) <= KeptThreads /\ \A n \in Int : << >> \in Seq(Told(n))
    BY ThreadsFacts
  <2> QED BY <2>1, <2>2, ArchiveConverses
<1>6. CASE Threads!EditPromptAt
  <2>1. /\ UNCHANGED <<saved, asks>>
        /\ \/ \E i \in DOMAIN chat.messages :
                chat.messages[i].by = "reader" /\ chat' = [chat EXCEPT !.editing = i]
           \/ chat' = [chat EXCEPT !.editing = 0]
    BY <1>6 DEF Threads!EditPromptAt
  <2>2. PICK e : /\ chat' = [chat EXCEPT !.editing = e]
                 /\ e = 0 \/ (e \in DOMAIN chat.messages /\ chat.messages[e].by = "reader")
    BY <2>1
  <2>3. chat \in Panel(chat.asked) /\ e \in Nat /\ Len(chat.archived) <= KeptThreads
    BY <2>2, ThreadsFacts
  <2>4. /\ chat' \in Panel(chat.asked) /\ chat'.asked = chat.asked /\ chat'.open = chat.open
        /\ chat'.life = chat.life /\ chat'.busy = chat.busy /\ chat'.messages = chat.messages
        /\ chat'.archived = chat.archived /\ chat'.editing = e
    BY <2>2, <2>3 DEF Panel
  <2>5. Fits(chat)'
    <3>1. Panel(chat.asked)' = Panel(chat'.asked)
      BY DEF Panel, Told
    <3> QED BY <2>2, <2>3, <2>4, <3>1 DEF Fits
  <2>6. SavedKnown'
    <3>1. \A n : Told(n)' = Told(n)
      BY DEF Told
    <3> QED BY <2>1, <2>4, <3>1 DEF ThreadsInv, SavedKnown
  <2> QED BY <2>1, <2>4, <2>5, <2>6 DEF Conversed
<1> QED BY <1>1, <1>2, <1>3, <1>4, <1>5, <1>6

LEMMA ConversedKeeps ==
    ASSUME ThreadsInv, Threads!ThreadsAssumption, Conversed
    PROVE  ThreadsInv'
<1>1. /\ asks' = asks /\ chat'.asked = chat.asked /\ chat'.open = chat.open
      /\ chat'.life = chat.life /\ chat'.busy = chat.busy
  BY DEF Conversed
<1>2. \A c : Threads!Live(c)' <=> Threads!Live(c)
  BY <1>1 DEF Threads!Live
<1>3. AsksKnown'
  BY <1>1 DEF ThreadsInv, AsksKnown, Prepared, Sound, Told
<1>4. OneUnderway'
  <2>1. \A n : Told(n)' = Told(n)
    BY DEF Told
  <2> HIDE DEF Told
  <2>2. \A i \in DOMAIN asks : Threads!Live(asks[i])' <=> Threads!Live(asks[i])
    BY <1>1 DEF Threads!Live
  <2>3. \A i \in DOMAIN asks : Threads!Live(asks[i]) =>
          /\ asks[i].q = chat.asked
          /\ asks[i].stage = "context" => /\ chat'.messages \in Told(chat.asked - 1)
                                          /\ chat'.archived \in Seq(Told(chat.asked - 1))
    BY ThreadsFacts DEF ThreadsInv, OneUnderway, Conversed
  <2> QED BY <1>1, <2>1, <2>2, <2>3 DEF ThreadsInv, OneUnderway
<1> QED BY <1>3, <1>4 DEF Conversed, ThreadsInv
LEMMA AskBegins ==
    ASSUME ThreadsInv, Threads!ThreadsAssumption, NEW c \in Asked, c.q = chat.asked + 1,
           c.life = chat.life, chat.open, ~chat.busy, asks' = Append(asks, c),
           c.path # "tutor" => c.stage = "context",
           c.stage = "context" => Prepared(c), c.stage = "model" => Sound(c),
           chat'.asked = chat.asked + 1, chat'.open = chat.open, chat'.life = chat.life, chat'.busy,
           c.stage = "context" => chat'.messages = chat.messages /\ chat'.archived = chat.archived
    PROVE  AsksKnown' /\ OneUnderway'
<1>0. \A n : Told(n)' = Told(n)
  BY DEF Told
<1>1. \A i \in DOMAIN asks : ~Threads!Live(asks[i])
  BY DEF ThreadsInv, OneUnderway
<1>2. /\ asks \in Seq(Asked) /\ asks' \in Seq(Asked) /\ DOMAIN asks' = 1 .. Len(asks) + 1
      /\ Len(asks) \in Nat /\ DOMAIN asks = 1 .. Len(asks)
      /\ asks'[Len(asks) + 1] = c /\ \A i \in DOMAIN asks : asks'[i] = asks[i]
  BY DEF ThreadsInv, AsksKnown
<1>3. \A i \in DOMAIN asks' : i \in DOMAIN asks \/ i = Len(asks) + 1
  BY <1>2
<1>4. chat.asked \in Int /\ chat.life \in Nat
  BY ThreadsFacts
<1>5. AsksKnown'
  <2>1. ASSUME NEW i \in DOMAIN asks'
        PROVE  /\ asks'[i].q <= chat'.asked /\ asks'[i].life <= chat'.life
               /\ asks'[i].path # "tutor" => asks'[i].stage = "context"
               /\ asks'[i].stage = "context" => Prepared(asks'[i])
               /\ asks'[i].stage = "model" => Sound(asks'[i])
    <3>1. CASE i \in DOMAIN asks
      <4>1. asks[i].q \in Int /\ asks[i] \in Asked
        BY <1>2, <3>1, AskedFields
      <4> QED BY <1>2, <1>4, <3>1, <4>1 DEF ThreadsInv, AsksKnown
    <3>2. CASE i = Len(asks) + 1
      BY <1>2, <1>4, <3>2
    <3> QED BY <1>3, <3>1, <3>2
  <2> QED BY <1>2, <2>1 DEF AsksKnown, Asked, Message, Prepared, Sound, Told
<1>6. \A i \in DOMAIN asks' : asks'[i].life = chat'.life <=> i = Len(asks) + 1
  <2>1. \A i \in DOMAIN asks : asks[i].life # chat.life
    BY <1>1 DEF Threads!Live
  <2> QED BY <1>2, <1>3, <2>1
<1>7. PICK last : last = Len(asks) + 1
  OBVIOUS
<1>8. /\ \A i \in DOMAIN asks' : asks'[i].life = chat'.life <=> i = last
      /\ last \in DOMAIN asks' /\ asks'[last] = c
  BY <1>2, <1>6, <1>7
<1>9. c.stage = "context" => /\ chat'.messages \in Told(chat'.asked - 1)
                             /\ chat'.archived \in Seq(Told(chat'.asked - 1))
  BY <1>4, ThreadsFacts
<1>10. OneUnderway'
  BY <1>0, <1>8, <1>9 DEF OneUnderway, Threads!Live
<1> QED BY <1>5, <1>10

LEMMA ToldGrowsByOne ==
    ASSUME ThreadsInv, Threads!ThreadsAssumption
    PROVE  /\ Told(chat.asked) \subseteq Told(chat.asked + 1)
           /\ \A list \in Seq(Told(chat.asked)) : list \in Seq(Told(chat.asked + 1))
           /\ chat.asked + 1 \in Int
<1>1. chat.asked \in Int /\ chat.asked + 1 \in Int /\ chat.asked <= chat.asked + 1
  BY ThreadsFacts
<1> QED BY <1>1, ToldGrows

LEMMA SentIsSound ==
    ASSUME NEW c \in Asked, Prepared(c), RecentMessages \in Nat \ {0}
    PROVE  /\ Threads!Sent(c) \in Asked /\ Sound(Threads!Sent(c))
           /\ Threads!Sent(c).stage = "model" /\ Threads!Sent(c).q = c.q
           /\ Threads!Sent(c).life = c.life /\ Threads!Sent(c).path = c.path
<1> DEFINE history == Threads!HistoryForModel(c)
           sent == [c EXCEPT !.stage = "model", !.history = history]
<1>1. /\ history \in Seq(Message)
      /\ c.retry \/ \A i \in DOMAIN history : history[i].q < c.since
  BY HistoryIsBefore
<1>2. Threads!Sent(c) = sent
  BY DEF Threads!Sent
<1> HIDE DEF history
<1>3. /\ sent \in Asked /\ sent.stage = "model" /\ sent.q = c.q /\ sent.life = c.life /\ sent.path = c.path
      /\ sent.retry = c.retry /\ sent.history = history /\ sent.since = c.since
  BY <1>1 DEF Asked
<1> HIDE DEF sent
<1>4. Sound(sent)
  BY <1>1, <1>3 DEF Sound
<1> QED BY <1>2, <1>3, <1>4

LEMMA AskKeeps ==
    ASSUME ThreadsInv, Threads!ThreadsAssumption, NEW c \in Asked, c.q = chat.asked + 1,
           c.life = chat.life, c.stage = "context", Prepared(c), NEW now \in BOOLEAN,
           now => c.path = "tutor", Threads!Ask(c, now)
    PROVE  ThreadsInv'
<1> DEFINE viewed == chat.overviewed \/ c.variant = "overview"
           begun == [chat EXCEPT !.busy = TRUE, !.asked = chat.asked + 1, !.overviewed = viewed]
           next == Threads!NextMessages(c)
           shown == [begun EXCEPT !.messages = next, !.editing = 0]
           sent == Threads!Sent(c)
<1>1. /\ chat.open /\ ~chat.busy /\ chat.asked < MaxQuestions
      /\ IF now THEN asks' = Append(asks, sent) /\ Threads!Show(shown)
         ELSE asks' = Append(asks, c) /\ chat' = begun /\ UNCHANGED saved
  BY DEF Threads!Ask
<1>2. chat \in Panel(chat.asked) /\ MaxQuestions \in Nat /\ RecentMessages \in Nat \ {0}
  BY ThreadsFacts
<1>3. viewed \in BOOLEAN
  OBVIOUS
<1> HIDE DEF viewed
<1>4. /\ begun \in Panel(chat.asked + 1) /\ begun.asked = chat.asked + 1
      /\ begun.open = chat.open /\ begun.life = chat.life /\ begun.busy
      /\ begun.messages = chat.messages /\ begun.archived = chat.archived
      /\ begun.editing = chat.editing
  <2>1. /\ chat.messages \in Told(chat.asked + 1) /\ chat.archived \in Seq(Told(chat.asked + 1))
        /\ chat.asked + 1 \in 0 .. MaxQuestions
    BY <1>1, <1>2, ToldGrowsByOne, ThreadsFacts DEF Panel
  <2>2. begun \in Panel(chat.asked + 1)
    BY <1>2, <1>3, <2>1 DEF Panel
  <2> QED BY <1>2, <2>2 DEF Panel
<1>5. \A n : Told(n)' = Told(n)
  BY DEF Told
<1> HIDE DEF begun
<1>6. CASE ~now
  <2>1. chat' = begun /\ UNCHANGED saved /\ asks' = Append(asks, c)
    BY <1>1, <1>6
  <2>2. Fits(begun)
    BY <1>4 DEF ThreadsInv, Fits
  <2>3. Fits(chat)'
    BY <2>1, <2>2, <1>5 DEF Fits, Panel
  <2>4. SavedKnown'
    <3>1. saved \in [messages : Told(chat.asked + 1), archived : Seq(Told(chat.asked + 1)), overview : BOOLEAN]
      BY ToldGrowsByOne DEF ThreadsInv, SavedKnown
    <3> QED BY <1>4, <1>5, <2>1, <3>1 DEF ThreadsInv, SavedKnown
  <2>5. AsksKnown' /\ OneUnderway'
    <3>1. chat'.asked = chat.asked + 1 /\ chat'.open = chat.open /\ chat'.life = chat.life /\ chat'.busy
          /\ chat'.messages = chat.messages /\ chat'.archived = chat.archived
      BY <1>4, <2>1
    <3>2. c.stage # "model"
      OBVIOUS
    <3> QED BY <1>1, <2>1, <3>1, <3>2, AskBegins
  <2> QED BY <2>3, <2>4, <2>5 DEF ThreadsInv
<1>7. CASE now
  <2>1. Threads!Show(shown) /\ asks' = Append(asks, sent)
    BY <1>1, <1>7
  <2>2. next \in Told(chat.asked + 1)
    BY NextIsTold
  <2> HIDE DEF next
  <2>3. /\ shown \in Panel(chat.asked + 1) /\ shown.asked = chat.asked + 1
        /\ shown.open = chat.open /\ shown.life = chat.life /\ shown.busy
        /\ shown.archived = chat.archived /\ shown.editing = 0
    BY <1>4, <2>2 DEF Panel
  <2> HIDE DEF shown
  <2>4. Fits(shown)
    BY <2>3 DEF ThreadsInv, Fits
  <2>5. chat' = shown /\ Fits(chat)' /\ SavedKnown'
    BY <2>1, <2>4, ShownIsStored
  <2>6. AsksKnown' /\ OneUnderway'
    <3>1. /\ sent \in Asked /\ Sound(sent) /\ sent.stage = "model" /\ sent.q = c.q
          /\ sent.life = c.life /\ sent.path = c.path
      BY <1>2, SentIsSound
    <3> HIDE DEF sent
    <3> QED BY <1>1, <1>7, <2>1, <2>3, <2>5, <3>1, AskBegins
  <2> QED BY <2>5, <2>6 DEF ThreadsInv
<1> QED BY <1>6, <1>7

\* A new question of this conversation.
LEMMA QuestionKnown ==
    ASSUME ThreadsInv, Threads!ThreadsAssumption, chat.asked < MaxQuestions,
           NEW path \in {"tutor", "direct", "passage"}
    PROVE  LET q == Threads!Question(path)
           IN /\ q \in Asked /\ q.path = path /\ q.stage = "context" /\ q.life = chat.life
              /\ q.q = chat.asked + 1 /\ q.since = chat.asked + 1 /\ q.base = chat.messages
              /\ q.replace = 0 /\ q.before = 0 /\ ~q.retry /\ q.history = << >>
<1> DEFINE q == Threads!Question(path)
           n == chat.asked + 1
<1>1. /\ n \in 1 .. MaxQuestions /\ chat.life \in Nat /\ chat.messages \in Seq(Message)
  <2>1. chat.asked \in 0 .. MaxQuestions /\ MaxQuestions \in Nat
    BY ThreadsFacts DEF Panel
  <2> QED BY <2>1, ThreadsFacts
<1>2. q = [path |-> path, stage |-> "context", life |-> chat.life, base |-> chat.messages,
           q |-> n, of |-> n, since |-> n, hidden |-> FALSE, variant |-> "", replace |-> 0,
           before |-> 0, retry |-> FALSE, history |-> <<>>]
  BY DEF Threads!Question
<1> HIDE DEF n
<1>3. << >> \in Seq(Message)
  OBVIOUS
<1> HIDE DEF q
<1>4. /\ q.path = path /\ q.stage = "context" /\ q.life = chat.life
      /\ q.q = n /\ q.since = n /\ q.base = chat.messages
      /\ q.replace = 0 /\ q.before = 0 /\ ~q.retry /\ q.history = << >>
  BY <1>2
<1> DEFINE none == << >>
<1>5. q \in Asked
  <2>1. q = [path |-> path, stage |-> "context", life |-> chat.life, base |-> chat.messages,
             q |-> n, of |-> n, since |-> n, hidden |-> FALSE, variant |-> "", replace |-> 0,
             before |-> 0, retry |-> FALSE, history |-> none]
    BY <1>2
  <2>2. none \in Seq(Message) /\ 0 \in Nat
    BY <1>3
  <2> HIDE DEF none
  <2> QED BY <1>1, <2>1, <2>2 DEF Asked
<1> QED BY <1>4, <1>5 DEF q, n

\* What was said before a prompt is of earlier questions.
LEMMA BeforePrompt ==
    ASSUME ThreadsInv, Threads!ThreadsAssumption, NEW k \in DOMAIN chat.messages,
           chat.messages[k].by = "reader"
    PROVE  /\ k \in Nat /\ k > 0 /\ k <= Len(chat.messages)
           /\ chat.messages[k].q \in 1 .. MaxQuestions /\ chat.messages[k].q <= chat.asked
           /\ chat.messages[k].of \in 1 .. MaxQuestions
           /\ chat.messages[k].hidden \in BOOLEAN /\ chat.messages[k].context \in BOOLEAN
           /\ \A j \in 1 .. k - 1 : chat.messages[j].q < chat.messages[k].q
<1>1. chat.messages \in Told(chat.asked) /\ chat.messages \in Seq(Message)
  BY ThreadsFacts
<1>2. k \in Nat /\ k > 0 /\ k <= Len(chat.messages)
  BY <1>1
<1>3. chat.messages[k] \in Message
  BY <1>1
<1>4. /\ chat.messages[k].q \in 1 .. MaxQuestions /\ chat.messages[k].of \in 1 .. MaxQuestions
      /\ chat.messages[k].hidden \in BOOLEAN /\ chat.messages[k].context \in BOOLEAN
  BY <1>3 DEF Message, Threads!Message
<1>5. chat.messages[k].q <= chat.asked
  BY <1>1 DEF Told
<1>6. ASSUME NEW j \in 1 .. k - 1 PROVE chat.messages[j].q < chat.messages[k].q
  <2>1. j \in DOMAIN chat.messages /\ j < k
    BY <1>1, <1>2
  <2> QED BY <1>1, <2>1 DEF Told
<1> QED BY <1>2, <1>4, <1>5, <1>6

LEMMA PromptFound ==
    ASSUME ThreadsInv, Threads!ThreadsAssumption, NEW i \in Threads!Answers, NEW visible \in BOOLEAN,
           Threads!PromptsBefore(i, visible) # {}
    PROVE  LET k == Threads!PromptBefore(i, visible)
           IN k \in DOMAIN chat.messages /\ chat.messages[k].by = "reader"
<1> DEFINE S == Threads!PromptsBefore(i, visible)
<1>1. chat.messages \in Seq(Message) /\ i \in DOMAIN chat.messages
  BY ThreadsFacts DEF Threads!Answers
<1>2. i - 1 \in Nat /\ S \subseteq 1 .. i - 1
  BY <1>1 DEF Threads!PromptsBefore
<1>3. \E k \in S : \A j \in S : j <= k
  <2> HIDE DEF S
  <2>1. S # {}
    BY DEF S
  <2> QED BY <1>2, <2>1, LargestExists
<1>4. Threads!PromptBefore(i, visible) \in S
  BY <1>3 DEF Threads!PromptBefore
<1> QED BY <1>1, <1>4 DEF Threads!PromptsBefore

LEMMA AskingKeeps ==
    ASSUME ThreadsInv, Threads!ThreadsAssumption, Threads!Asking
    PROVE  ThreadsInv'
<1>0. chat.asked < MaxQuestions
  BY DEF Threads!Asking, Threads!SubmitQuestion, Threads!AskDirectly, Threads!AskWithoutModel,
         Threads!RetryFailed, Threads!AutoOverview, Threads!Regenerate, Threads!AskAgainHidden, Threads!Ask
<1>1. /\ chat.asked \in Int /\ chat.messages \in Told(chat.asked) /\ Len(chat.messages) \in Nat
      /\ chat.failed \in 0 .. MaxQuestions /\ MaxQuestions \in Nat
  BY ThreadsFacts DEF Panel
\* A question as it is, or one that is asked anew from a prompt on.
<1>2. ASSUME NEW c \in Asked, c.stage = "context", c.life = chat.life, c.q = chat.asked + 1,
             c.base = chat.messages, c.history = << >>, NEW now \in BOOLEAN, now => c.path = "tutor", Threads!Ask(c, now),
             c.replace = 0, c.before = 0, c.since = chat.asked + 1
      PROVE  ThreadsInv'
  <2>1. c.q - 1 = chat.asked /\ c.since <= c.q
    BY <1>1, <1>2
  <2>2. Prepared(c)
    BY <1>1, <1>2, <2>1 DEF Prepared
  <2> QED BY <1>2, <2>2, AskKeeps
<1>3. ASSUME NEW c \in Asked, c.stage = "context", c.life = chat.life, c.q = chat.asked + 1,
             c.base = chat.messages, c.history = << >>, NEW now \in BOOLEAN, now => c.path = "tutor", Threads!Ask(c, now),
             NEW k \in DOMAIN chat.messages, chat.messages[k].by = "reader",
             (c.replace = k /\ c.before = 0) \/ (c.replace = 0 /\ c.before = k),
             c.since = chat.messages[k].q
      PROVE  ThreadsInv'
  <2>1. /\ k \in Nat /\ k > 0 /\ k <= Len(chat.messages) /\ c.since <= chat.asked
        /\ \A j \in 1 .. k - 1 : chat.messages[j].q < c.since
    BY <1>3, BeforePrompt
  <2>2. c.q - 1 = chat.asked /\ c.since <= c.q
    <3>1. c.since \in Int
      BY AskedFields
    <3> QED BY <1>1, <1>3, <2>1, <3>1
  <2>3. Prepared(c)
    BY <1>1, <1>3, <2>1, <2>2 DEF Prepared
  <2> QED BY <1>3, <2>3, AskKeeps
<1> DEFINE tutor == Threads!Question("tutor")
<1>4. /\ tutor \in Asked /\ tutor.path = "tutor" /\ tutor.stage = "context" /\ tutor.life = chat.life
      /\ tutor.q = chat.asked + 1 /\ tutor.since = chat.asked + 1 /\ tutor.base = chat.messages
      /\ tutor.replace = 0 /\ tutor.before = 0 /\ tutor.history = << >>
  BY <1>0, QuestionKnown
<1>5. CASE Threads!AskDirectly
  <2>1. Threads!Ask(Threads!Question("direct"), FALSE)
    BY <1>5 DEF Threads!AskDirectly
  <2> QED BY <1>0, <1>2, <2>1, QuestionKnown
<1>6. CASE Threads!AskWithoutModel
  <2>1. Threads!Ask(Threads!Question("passage"), FALSE)
    BY <1>6 DEF Threads!AskWithoutModel
  <2> QED BY <1>0, <1>2, <2>1, QuestionKnown
<1>7. CASE Threads!RetryFailed
  <2> DEFINE c == [tutor EXCEPT !.retry = TRUE, !.of = chat.failed]
  <2>0. chat.failed # 0 /\ Threads!Ask(c, FALSE)
    BY <1>7 DEF Threads!RetryFailed
  <2>1. chat.failed \in 1 .. MaxQuestions
    BY <1>1, <2>0
  <2> HIDE DEF tutor
  <2>2. /\ c \in Asked /\ c.stage = "context" /\ c.life = chat.life /\ c.q = chat.asked + 1
        /\ c.since = chat.asked + 1 /\ c.base = chat.messages /\ c.history = << >> /\ c.replace = 0 /\ c.before = 0
    BY <1>4, <2>1 DEF Asked
  <2> HIDE DEF c
  <2> QED BY <1>2, <2>0, <2>2
<1>8. CASE Threads!AutoOverview
  <2> DEFINE c == [tutor EXCEPT !.variant = "overview"]
  <2>1. Threads!Ask(c, FALSE)
    BY <1>8 DEF Threads!AutoOverview
  <2> HIDE DEF tutor
  <2>2. /\ c \in Asked /\ c.stage = "context" /\ c.life = chat.life /\ c.q = chat.asked + 1
        /\ c.since = chat.asked + 1 /\ c.base = chat.messages /\ c.history = << >> /\ c.replace = 0 /\ c.before = 0
    BY <1>4 DEF Asked
  <2> HIDE DEF c
  <2> QED BY <1>2, <2>1, <2>2
<1>9. CASE Threads!SubmitQuestion
  <2>1. CASE chat.editing = 0
    BY <1>2, <1>4, <1>9, <2>1 DEF Threads!SubmitQuestion
  <2>2. CASE chat.editing # 0
    <3> DEFINE k == chat.editing
               since == chat.messages[k].q
               c == [tutor EXCEPT !.replace = k, !.since = since]
    <3>1. Threads!Ask(c, FALSE)
      BY <1>9, <2>2 DEF Threads!SubmitQuestion
    <3>2. k \in DOMAIN chat.messages /\ chat.messages[k].by = "reader"
      BY <2>2 DEF ThreadsInv, Fits
    <3>3. since \in 1 .. MaxQuestions /\ k \in Nat
      BY <3>2, BeforePrompt
    <3> HIDE DEF tutor, k, since
    <3>4. /\ c \in Asked /\ c.stage = "context" /\ c.life = chat.life /\ c.q = chat.asked + 1
          /\ c.base = chat.messages /\ c.history = << >> /\ c.replace = k /\ c.before = 0 /\ c.since = since
      BY <1>4, <3>3 DEF Asked
    <3> HIDE DEF c
    <3>5. c.since = chat.messages[k].q
      BY <3>4 DEF since
    <3> QED BY <1>3, <3>1, <3>2, <3>4, <3>5
  <2> QED BY <2>1, <2>2
<1>10. CASE Threads!Regenerate
  <2>1. PICK i \in Threads!Answers :
          /\ Threads!PromptsBefore(i, TRUE) # {}
          /\ LET k == Threads!PromptBefore(i, FALSE)
             IN Threads!Ask([tutor EXCEPT !.replace = k, !.hidden = chat.messages[k].hidden,
                              !.of = chat.messages[k].of, !.since = chat.messages[k].q], FALSE)
    BY Zenon, <1>10 DEF Threads!Regenerate
  <2> DEFINE k == Threads!PromptBefore(i, FALSE)
             hidden == chat.messages[k].hidden
             of == chat.messages[k].of
             since == chat.messages[k].q
             c == [tutor EXCEPT !.replace = k, !.hidden = hidden, !.of = of, !.since = since]
  <2>2. Threads!Ask(c, FALSE)
    BY <2>1
  <2>3. Threads!PromptsBefore(i, FALSE) # {}
    BY <2>1 DEF Threads!PromptsBefore
  <2>4. k \in DOMAIN chat.messages /\ chat.messages[k].by = "reader"
    BY <2>3, PromptFound
  <2>5. since \in 1 .. MaxQuestions /\ of \in 1 .. MaxQuestions /\ hidden \in BOOLEAN /\ k \in Nat
    BY <2>4, BeforePrompt
  <2> HIDE DEF tutor, k, since, of, hidden
  <2>6. /\ c \in Asked /\ c.stage = "context" /\ c.life = chat.life /\ c.q = chat.asked + 1
        /\ c.base = chat.messages /\ c.history = << >> /\ c.replace = k /\ c.before = 0 /\ c.since = since
    BY <1>4, <2>5 DEF Asked
  <2> HIDE DEF c
  <2>7. c.since = chat.messages[k].q
    BY <2>6 DEF since
  <2> QED BY <1>3, <2>2, <2>4, <2>6, <2>7
<1>11. CASE Threads!AskAgainHidden
  <2>1. PICK i \in Threads!Answers, variant \in {"alternate", "reworked"} :
          LET visible == variant = "reworked"
              k == Threads!PromptBefore(i, visible)
          IN /\ Threads!PromptsBefore(i, visible) # {}
             /\ Threads!Ask([tutor EXCEPT !.before = k, !.hidden = TRUE, !.variant = variant,
                               !.of = chat.messages[k].of, !.since = chat.messages[k].q],
                            chat.messages[k].context)
    BY Zenon, <1>11 DEF Threads!AskAgainHidden
  <2> DEFINE visible == variant = "reworked"
             k == Threads!PromptBefore(i, visible)
             of == chat.messages[k].of
             since == chat.messages[k].q
             context == chat.messages[k].context
             c == [tutor EXCEPT !.before = k, !.hidden = TRUE, !.variant = variant, !.of = of, !.since = since]
  <2>2. Threads!Ask(c, context) /\ Threads!PromptsBefore(i, visible) # {}
    BY <2>1
  <2>3. visible \in BOOLEAN
    OBVIOUS
  <2>4. k \in DOMAIN chat.messages /\ chat.messages[k].by = "reader"
    <3> HIDE DEF visible
    <3> QED BY <2>2, <2>3, PromptFound
  <2>5. since \in 1 .. MaxQuestions /\ of \in 1 .. MaxQuestions /\ context \in BOOLEAN /\ k \in Nat
    BY <2>4, BeforePrompt
  <2> HIDE DEF tutor, k, since, of, context, visible
  <2>6. /\ c \in Asked /\ c.stage = "context" /\ c.life = chat.life /\ c.q = chat.asked + 1
        /\ c.base = chat.messages /\ c.history = << >> /\ c.replace = 0 /\ c.before = k /\ c.since = since /\ c.path = "tutor"
    BY <1>4, <2>5 DEF Asked
  <2> HIDE DEF c
  <2>7. c.since = chat.messages[k].q
    BY <2>6 DEF since
  <2> QED BY <1>3, <2>2, <2>4, <2>5, <2>6, <2>7
<1> QED BY <1>5, <1>6, <1>7, <1>8, <1>9, <1>10, <1>11 DEF Threads!Asking

\* A question that ended is gone, and with it the work of the panel that it was of.
LEMMA AskLeaves ==
    ASSUME ThreadsInv, Threads!ThreadsAssumption, NEW i \in DOMAIN asks,
           asks' = Threads!RemoveAt(asks, i),
           chat'.asked = chat.asked, chat'.open = chat.open, chat'.life = chat.life,
           Threads!Live(asks[i]) => ~chat'.busy,
           ~Threads!Live(asks[i]) => chat' = chat
    PROVE  AsksKnown' /\ OneUnderway'
<1>0. \A n : Told(n)' = Told(n)
  BY DEF Told
<1>1. /\ asks \in Seq(Asked) /\ Len(asks) \in Nat /\ i \in 1 .. Len(asks) /\ DOMAIN asks = 1 .. Len(asks)
      /\ asks' \in Seq(Asked) /\ DOMAIN asks' = 1 .. Len(asks) - 1
      /\ \A j \in DOMAIN asks' : asks'[j] = IF j < i THEN asks[j] ELSE asks[j + 1]
  <2>1. asks \in Seq(Asked)
    BY DEF ThreadsInv, AsksKnown
  <2>2. /\ asks' \in Seq(Asked) /\ Len(asks') = Len(asks) - 1
        /\ \A j \in 1 .. Len(asks) - 1 : asks'[j] = IF j < i THEN asks[j] ELSE asks[j + 1]
    BY <2>1, EntryLeaves
  <2> QED BY <2>1, <2>2
\* who is left, and at which place before
<1> DEFINE From(j) == IF j < i THEN j ELSE j + 1
<1>2. \A j \in DOMAIN asks' : From(j) \in DOMAIN asks /\ From(j) # i /\ asks'[j] = asks[From(j)]
  BY <1>1
<1>3. \A j, k \in DOMAIN asks' : From(j) = From(k) => j = k
  BY <1>1
<1>4. \A k \in DOMAIN asks : k # i => \E j \in DOMAIN asks' : From(j) = k
  <2>1. ASSUME NEW k \in DOMAIN asks, k # i PROVE \E j \in DOMAIN asks' : From(j) = k
    <3> DEFINE j == IF k < i THEN k ELSE k - 1
    <3>1. j \in DOMAIN asks' /\ From(j) = k
      BY <1>1, <2>1
    <3> QED BY <3>1
  <2> QED BY <2>1
<1> HIDE DEF From
<1>5. AsksKnown'
  <2>1. ASSUME NEW j \in DOMAIN asks'
        PROVE  /\ asks'[j].q <= chat'.asked /\ asks'[j].life <= chat'.life
               /\ asks'[j].path # "tutor" => asks'[j].stage = "context"
               /\ asks'[j].stage = "context" => Prepared(asks'[j])
               /\ asks'[j].stage = "model" => Sound(asks'[j])
    BY <1>2 DEF ThreadsInv, AsksKnown
  <2> QED BY <1>1, <2>1 DEF AsksKnown, Asked, Message, Prepared, Sound, Told
<1>6. CASE Threads!Live(asks[i])
  <2>1. \A j \in DOMAIN asks' : asks'[j].life # chat'.life \/ ~chat'.open
    BY <1>2, <1>6 DEF ThreadsInv, OneUnderway, Threads!Live
  <2>2. ~chat'.busy
    BY <1>6
  <2> QED BY <1>5, <2>1, <2>2 DEF OneUnderway, Threads!Live
<1>7. CASE ~Threads!Live(asks[i])
  <2>1. chat' = chat
    BY <1>7
  <2>2. \A j \in DOMAIN asks' : (chat.open /\ asks'[j].life = chat.life) <=> Threads!Live(asks[From(j)])
    BY <1>2 DEF Threads!Live
  <2>3. (\E k \in DOMAIN asks : Threads!Live(asks[k])) <=>
          \E j \in DOMAIN asks' : chat.open /\ asks'[j].life = chat.life
    BY <1>2, <1>4, <1>7, <2>2
  <2>4. \A j, k \in DOMAIN asks' : chat.open /\ asks'[j].life = chat.life /\ asks'[k].life = chat.life => j = k
    BY <1>2, <1>3, <2>2 DEF ThreadsInv, OneUnderway
  <2>5. \A j \in DOMAIN asks' : chat.open /\ asks'[j].life = chat.life =>
          /\ asks'[j].q = chat.asked
          /\ asks'[j].stage = "context" => /\ chat.messages \in Told(chat.asked - 1)
                                           /\ chat.archived \in Seq(Told(chat.asked - 1))
    BY <1>2, <2>2 DEF ThreadsInv, OneUnderway
  <2>6. chat.open => (chat.busy <=> \E j \in DOMAIN asks' : chat.open /\ asks'[j].life = chat.life)
    BY <2>3 DEF ThreadsInv, OneUnderway
  <2>7. OneUnderway'
    BY <1>0, <2>1, <2>4, <2>5, <2>6 DEF OneUnderway, Threads!Live
  <2> QED BY <1>5, <2>7
<1> QED BY <1>6, <1>7

LEMMA EndKeeps ==
    ASSUME ThreadsInv, Threads!ThreadsAssumption, NEW i \in DOMAIN asks, NEW new,
           asks' = Threads!RemoveAt(asks, i),
           IF Threads!Live(asks[i]) THEN Threads!Show(new) ELSE UNCHANGED <<chat, saved>>,
           Threads!Live(asks[i]) => /\ Fits(new) /\ ~new.busy /\ new.asked = chat.asked
                                    /\ new.open = chat.open /\ new.life = chat.life
    PROVE  ThreadsInv'
<1>1. CASE Threads!Live(asks[i])
  <2>1. chat' = new /\ Fits(chat)' /\ SavedKnown'
    BY <1>1, ShownIsStored
  <2>2. AsksKnown' /\ OneUnderway'
    BY <1>1, <2>1, AskLeaves
  <2> QED BY <2>1, <2>2 DEF ThreadsInv
<1>2. CASE ~Threads!Live(asks[i])
  <2>1. chat' = chat /\ saved' = saved
    BY <1>2
  <2>2. AsksKnown' /\ OneUnderway'
    BY <1>2, <2>1, AskLeaves
  <2>3. Fits(chat)' /\ SavedKnown'
    BY <2>1 DEF ThreadsInv, Fits, SavedKnown, Panel, Told
  <2> QED BY <2>2, <2>3 DEF ThreadsInv
<1> QED BY <1>1, <1>2
\* The panel with other messages, after which nothing is under way.
LEMMA ViewFits ==
    ASSUME ThreadsInv, Threads!ThreadsAssumption, NEW m \in Told(chat.asked), NEW e \in Nat,
           NEW f \in 0 .. MaxQuestions,
           e # 0 => e \in DOMAIN m /\ m[e].by = "reader"
    PROVE  LET new == [chat EXCEPT !.messages = m, !.failed = f, !.editing = e, !.busy = FALSE]
           IN /\ Fits(new) /\ ~new.busy /\ new.asked = chat.asked
              /\ new.open = chat.open /\ new.life = chat.life
<1> DEFINE new == [chat EXCEPT !.messages = m, !.failed = f, !.editing = e, !.busy = FALSE]
<1>1. chat \in Panel(chat.asked)
  BY ThreadsFacts
<1>2. new \in Panel(chat.asked)
  BY <1>1 DEF Panel
<1>3. /\ ~new.busy /\ new.asked = chat.asked /\ new.open = chat.open /\ new.life = chat.life
      /\ new.messages = m /\ new.editing = e /\ new.archived = chat.archived
  BY <1>1 DEF Panel
<1> HIDE DEF new
<1>4. Fits(new)
  BY <1>2, <1>3 DEF Fits, ThreadsInv
<1> QED BY <1>3, <1>4 DEF new

\* What is edited stays where it is when something is said.
LEMMA SaidAfter ==
    ASSUME ThreadsInv, Threads!ThreadsAssumption, NEW a \in Message
    PROVE  /\ chat.editing \in Nat
           /\ chat.editing # 0 => /\ chat.editing \in DOMAIN Append(chat.messages, a)
                                  /\ Append(chat.messages, a)[chat.editing].by = "reader"
<1>1. chat.editing \in Nat /\ chat.messages \in Seq(Message)
  BY ThreadsFacts DEF Panel
<1>2. ASSUME chat.editing # 0
      PROVE  /\ chat.editing \in DOMAIN Append(chat.messages, a)
             /\ Append(chat.messages, a)[chat.editing].by = "reader"
  <2>1. chat.editing \in DOMAIN chat.messages /\ chat.messages[chat.editing].by = "reader"
    BY <1>2 DEF ThreadsInv, Fits
  <2>2. /\ chat.editing \in DOMAIN Append(chat.messages, a)
        /\ Append(chat.messages, a)[chat.editing] = chat.messages[chat.editing]
    BY <1>1, <2>1
  <2> QED BY <2>1, <2>2
<1> QED BY <1>1, <1>2

LEMMA AskOf ==
    ASSUME ThreadsInv, Threads!ThreadsAssumption, NEW i \in DOMAIN asks
    PROVE  /\ asks[i] \in Asked /\ asks[i].of \in 0 .. MaxQuestions /\ 0 \in 0 .. MaxQuestions
           /\ asks[i].path # "tutor" => asks[i].stage = "context"
           /\ asks[i].stage = "context" => Prepared(asks[i])
           /\ Threads!Live(asks[i]) => asks[i].q = chat.asked
           /\ Threads!Prompt(asks[i]) \in Message /\ Threads!Prompt(asks[i]).q = asks[i].q
           /\ Threads!Answer(asks[i]) \in Message /\ Threads!Answer(asks[i]).q = asks[i].q
           /\ Threads!Answer(asks[i]).by = "tutor"
           /\ Threads!Live(asks[i]) => Append(chat.messages, Threads!Answer(asks[i])) \in Told(chat.asked)
<1>1. asks[i] \in Asked
  BY DEF ThreadsInv, AsksKnown
<1>2. asks[i].of \in 0 .. MaxQuestions /\ 0 \in 0 .. MaxQuestions
  BY <1>1, AskedFields, ThreadsFacts
<1>3. /\ asks[i].path # "tutor" => asks[i].stage = "context"
      /\ asks[i].stage = "context" => Prepared(asks[i])
      /\ Threads!Live(asks[i]) => asks[i].q = chat.asked
  BY DEF ThreadsInv, AsksKnown, OneUnderway
<1>4. /\ Threads!Prompt(asks[i]) \in Message /\ Threads!Prompt(asks[i]).q = asks[i].q
      /\ Threads!Answer(asks[i]) \in Message /\ Threads!Answer(asks[i]).q = asks[i].q
      /\ Threads!Answer(asks[i]).by = "tutor"
  BY <1>1, PromptIsMessage
<1>5. Threads!Live(asks[i]) => Append(chat.messages, Threads!Answer(asks[i])) \in Told(chat.asked)
  <2>1. chat.asked \in Int /\ chat.messages \in Told(chat.asked) /\ chat.asked <= chat.asked
    BY ThreadsFacts
  <2> QED BY <1>3, <1>4, <2>1, AppendTold
<1> QED BY <1>1, <1>2, <1>3, <1>4, <1>5

LEMMA AnswerKeeps ==
    ASSUME ThreadsInv, Threads!ThreadsAssumption, NEW i \in DOMAIN asks, NEW f \in 0 .. MaxQuestions,
           NEW new, new = chat \/ new = [chat EXCEPT !.messages = Append(chat.messages, Threads!Answer(asks[i]))],
           Threads!EndAsk(i, [new EXCEPT !.failed = f])
    PROVE  ThreadsInv'
<1> DEFINE m == IF new = chat THEN chat.messages ELSE Append(chat.messages, Threads!Answer(asks[i]))
           end == [chat EXCEPT !.messages = m, !.failed = f, !.editing = chat.editing, !.busy = FALSE]
<1>1. Threads!Live(asks[i]) => m \in Told(chat.asked)
  BY AskOf, ThreadsFacts
<1>2. /\ chat.editing \in Nat
      /\ chat.editing # 0 => chat.editing \in DOMAIN m /\ m[chat.editing].by = "reader"
  BY AskOf, SaidAfter DEF ThreadsInv, Fits
<1>3. [[new EXCEPT !.failed = f] EXCEPT !.busy = FALSE] = end
  <2>1. chat \in Panel(chat.asked)
    BY ThreadsFacts
  <2> QED BY <2>1 DEF Panel
<1>4. /\ asks' = Threads!RemoveAt(asks, i)
      /\ IF Threads!Live(asks[i]) THEN Threads!Show(end) ELSE UNCHANGED <<chat, saved>>
  <2> HIDE DEF end
  <2> QED BY <1>3 DEF Threads!EndAsk
<1> HIDE DEF m
<1>5. Threads!Live(asks[i]) => /\ Fits(end) /\ ~end.busy /\ end.asked = chat.asked
                               /\ end.open = chat.open /\ end.life = chat.life
  BY <1>1, <1>2, ViewFits
<1> HIDE DEF end
<1> QED BY <1>4, <1>5, EndKeeps
LEMMA AnsweringKeeps ==
    ASSUME ThreadsInv, Threads!ThreadsAssumption, NEW i \in DOMAIN asks, NEW complete \in BOOLEAN,
           Threads!Answered(i, complete) \/ Threads!AskFailed(i)
    PROVE  ThreadsInv'
<1> DEFINE c == asks[i]
           said == Append(chat.messages, Threads!Answer(c))
<1>1. c.of \in 0 .. MaxQuestions /\ 0 \in 0 .. MaxQuestions
  BY AskOf
<1>2. chat \in Panel(chat.asked)
  BY ThreadsFacts
<1>3. ASSUME NEW f \in 0 .. MaxQuestions,
             Threads!EndAsk(i, [chat EXCEPT !.messages = said, !.failed = f])
      PROVE  ThreadsInv'
  <2>1. [chat EXCEPT !.messages = said, !.failed = f] = [[chat EXCEPT !.messages = said] EXCEPT !.failed = f]
    BY <1>2 DEF Panel
  <2>2. Threads!EndAsk(i, [[chat EXCEPT !.messages = said] EXCEPT !.failed = f])
    BY <1>3, <2>1
  <2> QED BY <2>2, AnswerKeeps
<1>4. CASE Threads!Answered(i, complete)
  <2> DEFINE f == IF complete THEN 0 ELSE c.of
  <2>1. Threads!EndAsk(i, [chat EXCEPT !.messages = said, !.failed = f])
    BY <1>4 DEF Threads!Answered
  <2>2. f \in 0 .. MaxQuestions
    BY <1>1
  <2> HIDE DEF f
  <2> QED BY <1>3, <2>1, <2>2
<1>5. CASE Threads!AskFailed(i)
  <2>1. \/ Threads!EndAsk(i, [chat EXCEPT !.messages = said, !.failed = 0])
        \/ Threads!EndAsk(i, [chat EXCEPT !.failed = c.of])
    BY <1>5 DEF Threads!AskFailed
  <2> QED BY <1>1, <1>3, <2>1, AnswerKeeps
<1> QED BY <1>4, <1>5

LEMMA SavingKeeps ==
    ASSUME ThreadsInv, Threads!ThreadsAssumption, NEW i \in DOMAIN asks,
           Threads!DirectlySaved(i) \/ Threads!PassageSaved(i)
    PROVE  ThreadsInv'
<1> DEFINE c == asks[i]
           prompt == Threads!Prompt(c)
           answer == Threads!Answer(c)
<1>0. /\ chat \in Panel(chat.asked) /\ chat.asked \in Int /\ chat.asked - 1 \in Int
      /\ chat.messages \in Seq(Message) /\ 0 \in 0 .. MaxQuestions
  BY ThreadsFacts, AskOf
<1>1. /\ c \in Asked /\ prompt \in Message /\ answer \in Message /\ prompt.q = c.q /\ answer.q = c.q
      /\ answer.by = "tutor"
      /\ c.path # "tutor" => Prepared(c)
      /\ Threads!Live(c) => c.q = chat.asked
  BY AskOf
<1>2. CASE Threads!DirectlySaved(i)
  <2> DEFINE m == Append(Threads!NextMessages(c), answer)
             end == [chat EXCEPT !.messages = m, !.failed = 0, !.editing = 0, !.busy = FALSE]
  <2>1. c.path = "direct" /\ Threads!EndAsk(i, [chat EXCEPT !.messages = m, !.failed = 0, !.editing = 0])
    BY <1>2 DEF Threads!DirectlySaved
  <2>2. [[chat EXCEPT !.messages = m, !.failed = 0, !.editing = 0] EXCEPT !.busy = FALSE] = end
    BY <1>0 DEF Panel
  <2>3. Threads!Live(c) => m \in Told(chat.asked)
    <3>1. Threads!NextMessages(c) \in Told(c.q)
      BY <1>1, <2>1, NextIsTold
    <3> HIDE DEF c, answer
    <3> QED BY <1>0, <1>1, <3>1, AppendTold
  <2> HIDE DEF m
  <2>4. /\ asks' = Threads!RemoveAt(asks, i)
        /\ IF Threads!Live(asks[i]) THEN Threads!Show(end) ELSE UNCHANGED <<chat, saved>>
    <3> HIDE DEF end
    <3> QED BY <2>1, <2>2 DEF Threads!EndAsk
  <2>5. Threads!Live(asks[i]) => /\ Fits(end) /\ ~end.busy /\ end.asked = chat.asked
                                 /\ end.open = chat.open /\ end.life = chat.life
    BY <1>0, <2>3, ViewFits
  <2> HIDE DEF end
  <2> QED BY <2>4, <2>5, EndKeeps
<1>3. CASE Threads!PassageSaved(i)
  <2> DEFINE m == Append(Append(chat.messages, prompt), answer)
             end == [chat EXCEPT !.messages = m, !.failed = 0, !.editing = chat.editing, !.busy = FALSE]
  <2>0. chat.messages \o <<prompt, answer>> = m
    <3> HIDE DEF prompt, answer
    <3> QED BY <1>0, <1>1
  <2>1. c.path = "passage" /\ Threads!EndAsk(i, [chat EXCEPT !.messages = m, !.failed = 0])
    BY <1>3, <2>0 DEF Threads!PassageSaved
  <2>2. [[chat EXCEPT !.messages = m, !.failed = 0] EXCEPT !.busy = FALSE] = end
    BY <1>0 DEF Panel
  <2>3. Threads!Live(c) => m \in Told(chat.asked)
    <3>1. Threads!Live(c) => chat.messages \in Told(chat.asked - 1)
      BY <2>1, AskOf DEF ThreadsInv, OneUnderway
    <3>2. Threads!Live(c) => Append(chat.messages, prompt) \in Told(chat.asked)
      <4> HIDE DEF prompt, answer
      <4>1. chat.asked - 1 < chat.asked
        BY <1>0
      <4> QED BY <1>0, <1>1, <3>1, <4>1, AppendTold
    <3> HIDE DEF prompt, answer
    <3>3. Threads!Live(c) => Append(Append(chat.messages, prompt), answer) \in Told(chat.asked)
      BY <1>0, <1>1, <3>2, AppendTold
    <3> QED BY <3>3
  <2>4. /\ chat.editing \in Nat
        /\ chat.editing # 0 => chat.editing \in DOMAIN m /\ m[chat.editing].by = "reader"
    <3> DEFINE first == Append(chat.messages, prompt)
    <3>1. /\ chat.editing \in Nat
          /\ chat.editing # 0 => chat.editing \in DOMAIN first /\ first[chat.editing].by = "reader"
      BY <1>1, SaidAfter
    <3>2. first \in Seq(Message)
      <4> HIDE DEF prompt
      <4> QED BY <1>0, <1>1
    <3> HIDE DEF first, prompt, answer
    <3>3. chat.editing # 0 => /\ chat.editing \in DOMAIN Append(first, answer)
                              /\ Append(first, answer)[chat.editing] = first[chat.editing]
      BY <1>1, <3>1, <3>2
    <3>4. m = Append(first, answer)
      BY DEF first
    <3> QED BY <3>1, <3>3, <3>4
  <2> HIDE DEF m
  <2>5. /\ asks' = Threads!RemoveAt(asks, i)
        /\ IF Threads!Live(asks[i]) THEN Threads!Show(end) ELSE UNCHANGED <<chat, saved>>
    <3> HIDE DEF end
    <3> QED BY <2>1, <2>2 DEF Threads!EndAsk
  <2>6. Threads!Live(asks[i]) => /\ Fits(end) /\ ~end.busy /\ end.asked = chat.asked
                                 /\ end.open = chat.open /\ end.life = chat.life
    BY <1>0, <2>3, <2>4, ViewFits
  <2> HIDE DEF end
  <2> QED BY <2>5, <2>6, EndKeeps
<1> QED BY <1>2, <1>3

LEMMA OverviewKeeps ==
    ASSUME ThreadsInv, Threads!ThreadsAssumption, NEW i \in DOMAIN asks, Threads!OverviewShown(i)
    PROVE  ThreadsInv'
<1> DEFINE c == asks[i]
           said == Append(chat.messages, Threads!Answer(c))
           end == [chat EXCEPT !.messages = said, !.failed = 0, !.busy = FALSE]
           view == [chat EXCEPT !.messages = said, !.failed = 0, !.editing = chat.editing, !.busy = FALSE]
           told == IF Threads!Live(c) THEN Threads!LastOf(said, KeptMessages) ELSE saved.messages
<1>1. /\ asks' = Threads!RemoveAt(asks, i)
      /\ saved' = [saved EXCEPT !.overview = TRUE, !.messages = told]
      /\ chat' = IF Threads!Live(c) THEN end ELSE chat
  BY DEF Threads!OverviewShown
<1>2. end = view
  <2>1. chat \in Panel(chat.asked)
    BY ThreadsFacts
  <2> QED BY <2>1 DEF Panel
<1>3. Threads!Live(c) => said \in Told(chat.asked)
  BY AskOf
<1>4. Threads!Live(c) => /\ Fits(view) /\ ~view.busy /\ view.asked = chat.asked
                         /\ view.open = chat.open /\ view.life = chat.life
  <2>1. /\ chat.editing \in Nat
        /\ chat.editing # 0 => chat.editing \in DOMAIN said /\ said[chat.editing].by = "reader"
    BY AskOf, SaidAfter
  <2>2. 0 \in 0 .. MaxQuestions
    BY AskOf
  <2> HIDE DEF said
  <2> QED BY <1>3, <2>1, <2>2, ViewFits
<1>5. told \in Told(chat.asked) /\ Len(told) <= KeptMessages
  <2>1. KeptMessages \in Nat \ {0} /\ chat.asked \in Int
    BY ThreadsFacts
  <2> HIDE DEF said
  <2> QED BY <1>3, <2>1, CutTold DEF ThreadsInv, SavedKnown
<1> HIDE DEF told, said
<1>6. \A n : Told(n)' = Told(n)
  BY DEF Told
<1>7. chat' = IF Threads!Live(c) THEN view ELSE chat
  <2> HIDE DEF end, view
  <2> QED BY <1>1, <1>2
<1> HIDE DEF view, end
<1>8. Fits(chat)' /\ chat'.asked = chat.asked /\ chat'.open = chat.open /\ chat'.life = chat.life
  <2>1. Fits(chat') /\ chat'.asked = chat.asked /\ chat'.open = chat.open /\ chat'.life = chat.life
    BY <1>4, <1>7 DEF ThreadsInv
  <2> QED BY <2>1 DEF Fits, Panel, Told
<1>9. AsksKnown' /\ OneUnderway'
  BY <1>1, <1>4, <1>7, <1>8, AskLeaves
<1>10. SavedKnown'
  <2>1. saved \in [messages : Told(chat.asked), archived : Seq(Told(chat.asked)), overview : BOOLEAN]
    BY DEF ThreadsInv, SavedKnown
  <2>2. /\ saved' \in [messages : Told(chat.asked), archived : Seq(Told(chat.asked)), overview : BOOLEAN]
        /\ saved'.messages = told
    BY <1>1, <1>5, <2>1
  <2> QED BY <1>5, <1>6, <1>8, <2>2 DEF SavedKnown
<1> QED BY <1>8, <1>9, <1>10 DEF ThreadsInv

LEMMA ContextKeeps ==
    ASSUME ThreadsInv, Threads!ThreadsAssumption, NEW i \in DOMAIN asks, Threads!ContextRead(i)
    PROVE  ThreadsInv'
<1> DEFINE c == asks[i]
           sent == Threads!Sent(c)
           m == IF c.retry THEN chat.messages ELSE Threads!NextMessages(c)
           new == [chat EXCEPT !.messages = m, !.editing = 0]
<1>0. /\ chat \in Panel(chat.asked) /\ chat.asked \in Int /\ RecentMessages \in Nat \ {0}
      /\ chat.messages \in Told(chat.asked)
  BY ThreadsFacts
<1>1. /\ c.path = "tutor" /\ c.stage = "context"
      /\ asks' = [asks EXCEPT ![i] = sent]
      /\ IF Threads!Live(c) THEN Threads!Show(new) ELSE UNCHANGED <<chat, saved>>
  BY DEF Threads!ContextRead
<1>2. c \in Asked /\ Prepared(c) /\ (Threads!Live(c) => c.q = chat.asked)
  BY <1>1, AskOf
<1>3. /\ sent \in Asked /\ Sound(sent) /\ sent.stage = "model" /\ sent.q = c.q
      /\ sent.life = c.life /\ sent.path = c.path
  BY <1>0, <1>2, SentIsSound
<1>4. Threads!Live(c) => m \in Told(chat.asked)
  BY <1>0, <1>2, NextIsTold
<1> HIDE DEF sent, m
<1>5. Threads!Live(c) => /\ Fits(new) /\ new.asked = chat.asked /\ new.open = chat.open
                         /\ new.life = chat.life /\ new.busy = chat.busy
  <2>1. /\ new.asked = chat.asked /\ new.open = chat.open /\ new.life = chat.life /\ new.busy = chat.busy
        /\ new.messages = m /\ new.editing = 0 /\ new.archived = chat.archived
    BY <1>0 DEF Panel
  <2>2. Threads!Live(c) => new \in Panel(chat.asked)
    BY <1>0, <1>4 DEF Panel
  <2> HIDE DEF new
  <2> QED BY <2>1, <2>2 DEF Fits, ThreadsInv
<1> HIDE DEF new
<1>6. /\ Fits(chat)' /\ SavedKnown' /\ chat'.asked = chat.asked /\ chat'.open = chat.open
      /\ chat'.life = chat.life /\ chat'.busy = chat.busy
      /\ ~Threads!Live(c) => chat' = chat
  <2>1. CASE Threads!Live(c)
    <3>1. chat' = new /\ Fits(chat)' /\ SavedKnown'
      BY <1>1, <1>5, <2>1, ShownIsStored
    <3> QED BY <1>5, <2>1, <3>1
  <2>2. CASE ~Threads!Live(c)
    <3>1. chat' = chat /\ saved' = saved
      BY <1>1, <2>2
    <3> QED BY <3>1 DEF ThreadsInv, Fits, SavedKnown, Panel, Told
  <2> QED BY <2>1, <2>2
<1>7. /\ asks \in Seq(Asked) /\ asks' \in Seq(Asked) /\ DOMAIN asks' = DOMAIN asks
      /\ asks'[i] = sent /\ \A j \in DOMAIN asks : j # i => asks'[j] = asks[j]
  BY <1>1, <1>3 DEF ThreadsInv, AsksKnown
<1>8. AsksKnown'
  <2>1. ASSUME NEW j \in DOMAIN asks'
        PROVE  /\ asks'[j].q <= chat'.asked /\ asks'[j].life <= chat'.life
               /\ asks'[j].path # "tutor" => asks'[j].stage = "context"
               /\ asks'[j].stage = "context" => Prepared(asks'[j])
               /\ asks'[j].stage = "model" => Sound(asks'[j])
    <3>1. CASE j = i
      BY <1>1, <1>3, <1>6, <1>7, <3>1 DEF ThreadsInv, AsksKnown
    <3>2. CASE j # i
      BY <1>6, <1>7, <3>2 DEF ThreadsInv, AsksKnown
    <3> QED BY <3>1, <3>2
  <2> QED BY <1>7, <2>1 DEF AsksKnown, Asked, Message, Prepared, Sound, Told
<1>9. OneUnderway'
  <2>0. \A n : Told(n)' = Told(n)
    BY DEF Told
  <2>1. \A j \in DOMAIN asks : asks'[j].life = asks[j].life /\ asks'[j].q = asks[j].q
    BY <1>3, <1>7
  <2>2. \A j \in DOMAIN asks : (chat'.open /\ asks'[j].life = chat'.life) <=> Threads!Live(asks[j])
    BY <1>6, <2>1 DEF Threads!Live
  <2>3. ASSUME NEW j \in DOMAIN asks, Threads!Live(asks[j]), asks'[j].stage = "context"
        PROVE  /\ chat'.messages \in Told(chat.asked - 1)
               /\ chat'.archived \in Seq(Told(chat.asked - 1))
    <3>1. j # i
      BY <1>3, <1>7, <2>3
    <3>2. ~Threads!Live(c)
      BY <2>3, <3>1 DEF ThreadsInv, OneUnderway
    <3> QED BY <1>6, <1>7, <2>3, <3>1, <3>2 DEF ThreadsInv, OneUnderway
  <2>4. /\ \A j, k \in DOMAIN asks : Threads!Live(asks[j]) /\ Threads!Live(asks[k]) => j = k
        /\ chat.open => (chat.busy <=> \E j \in DOMAIN asks : Threads!Live(asks[j]))
        /\ \A j \in DOMAIN asks : Threads!Live(asks[j]) => asks[j].q = chat.asked
    BY DEF ThreadsInv, OneUnderway
  <2> QED BY <1>6, <1>7, <2>0, <2>1, <2>2, <2>3, <2>4 DEF OneUnderway, Threads!Live
<1> QED BY <1>6, <1>8, <1>9 DEF ThreadsInv
LEMMA OpeningKeeps ==
    ASSUME ThreadsInv, Threads!ThreadsAssumption, Threads!OpenChat \/ Threads!CloseChat
    PROVE  ThreadsInv'
<1>0. /\ chat \in Panel(chat.asked) /\ chat.asked \in Int /\ chat.life \in Nat
      /\ KeptMessages \in Nat \ {0} /\ KeptThreads \in Nat \ {0} /\ MaxQuestions \in Nat
      /\ saved.messages \in Told(chat.asked) /\ saved.archived \in Seq(Told(chat.asked))
  BY ThreadsFacts
<1>1. CASE Threads!OpenChat
  <2> DEFINE m == Threads!LastOf(saved.messages, KeptMessages)
             list == Threads!FirstOf(saved.archived, KeptThreads)
             life == chat.life + 1
             asked == chat.asked
             new == [Threads!Closed EXCEPT !.open = TRUE, !.life = life, !.asked = asked,
                                           !.messages = m, !.archived = list]
  <2>1. chat' = new /\ UNCHANGED <<saved, asks>>
    BY <1>1 DEF Threads!OpenChat
  <2>2. m \in Told(asked) /\ list \in Seq(Told(asked)) /\ Len(list) <= KeptThreads
    BY <1>0, CutTold, ArchiveIsCut
  <2>3. life \in Nat /\ asked \in 0 .. MaxQuestions
    BY <1>0 DEF Panel
  <2>4. /\ new.open = TRUE /\ new.life = life /\ new.asked = asked /\ new.messages = m
        /\ new.archived = list /\ new.busy = FALSE /\ new.editing = 0
    <3> HIDE DEF m, list, life, asked
    <3> QED BY DEF Threads!Closed
  <2>5. new \in Panel(asked)
    <3> HIDE DEF m, list, life, asked
    <3> DEFINE closed == Threads!Closed
               none == << >>
    <3>1. closed = [open |-> FALSE, life |-> 0, messages |-> none, archived |-> none, busy |-> FALSE,
                    editing |-> 0, failed |-> 0, overviewed |-> FALSE, asked |-> 0]
      BY DEF Threads!Closed
    <3>2. 0 \in Nat /\ 0 \in 0 .. MaxQuestions /\ none \in Told(chat.asked) /\ none \in Seq(Told(chat.asked))
      BY <1>0, EmptyIsTold
    <3> HIDE DEF none
    <3>3. closed \in Panel(chat.asked)
      BY <3>1, <3>2 DEF Panel
    <3>4. asked = chat.asked
      BY DEF asked
    <3> QED BY <2>2, <2>3, <3>3, <3>4 DEF Panel
  <2> HIDE DEF new
  <2>6. Fits(chat)'
    <3>1. Fits(new)
      BY <2>2, <2>4, <2>5 DEF Fits
    <3> QED BY <2>1, <3>1 DEF Fits, Panel, Told
  <2>7. SavedKnown' /\ AsksKnown'
    <3>1. chat'.asked = chat.asked /\ chat'.life = chat.life + 1
      BY <2>1, <2>4
    <3>2. \A i \in DOMAIN asks : asks[i].life \in Nat
      BY AskedFields DEF ThreadsInv, AsksKnown
    <3>3. AsksKnown'
      <4>1. \A i \in DOMAIN asks : asks[i].life <= chat'.life
        BY <1>0, <3>1, <3>2 DEF ThreadsInv, AsksKnown
      <4> QED BY <2>1, <3>1, <4>1 DEF ThreadsInv, AsksKnown, Asked, Message, Prepared, Sound, Told
    <3> QED BY <2>1, <3>1, <3>3 DEF ThreadsInv, SavedKnown, Told
  <2>8. OneUnderway'
    <3>1. \A i \in DOMAIN asks : asks[i].life # chat'.life
      <4>1. \A i \in DOMAIN asks : asks[i].life \in Nat /\ asks[i].life <= chat.life
        BY AskedFields DEF ThreadsInv, AsksKnown
      <4> QED BY <1>0, <2>1, <2>4, <4>1
    <3>2. ~chat'.busy
      BY <2>1, <2>4
    <3> QED BY <2>1, <3>1, <3>2 DEF OneUnderway, Threads!Live
  <2> QED BY <2>6, <2>7, <2>8 DEF ThreadsInv
<1>2. CASE Threads!CloseChat
  <2>1. chat' = [chat EXCEPT !.open = FALSE] /\ UNCHANGED <<saved, asks>>
    BY <1>2 DEF Threads!CloseChat
  <2>2. /\ chat' \in Panel(chat.asked) /\ chat'.asked = chat.asked /\ chat'.open = FALSE
        /\ chat'.life = chat.life /\ chat'.messages = chat.messages
        /\ chat'.archived = chat.archived /\ chat'.editing = chat.editing
    BY <1>0, <2>1 DEF Panel
  <2>3. Fits(chat)'
    <3>1. Fits(chat')
      BY <2>2 DEF ThreadsInv, Fits
    <3> QED BY <3>1 DEF Fits, Panel, Told
  <2>4. SavedKnown' /\ AsksKnown'
    BY <2>1, <2>2 DEF ThreadsInv, SavedKnown, AsksKnown, Asked, Message, Prepared, Sound, Told
  <2>5. OneUnderway'
    BY <2>1, <2>2 DEF OneUnderway, Threads!Live
  <2> QED BY <2>3, <2>4, <2>5 DEF ThreadsInv
<1> QED BY <1>1, <1>2

LEMMA ThreadsBegin ==
    ASSUME Threads!ThreadsAssumption, Threads!ThreadsInit
    PROVE  ThreadsInv
<1> DEFINE none == << >>
<1>1. /\ chat = [open |-> FALSE, life |-> 0, messages |-> none, archived |-> none, busy |-> FALSE,
                 editing |-> 0, failed |-> 0, overviewed |-> FALSE, asked |-> 0]
      /\ saved = [messages |-> none, archived |-> none, overview |-> FALSE] /\ asks = none
  BY DEF Threads!ThreadsInit, Threads!Closed
<1>2. /\ none \in Told(0) /\ none \in Seq(Told(0)) /\ Len(none) = 0 /\ DOMAIN none = {}
      /\ none \in Seq(Asked)
  BY EmptyIsTold
<1>3. 0 \in Nat /\ 0 \in 0 .. MaxQuestions /\ KeptThreads \in Nat /\ KeptMessages \in Nat
  BY DEF Threads!ThreadsAssumption
<1> HIDE DEF none
<1>4. chat \in Panel(0) /\ chat.asked = 0
  BY <1>1, <1>2, <1>3 DEF Panel
<1>5. Fits(chat)
  BY <1>1, <1>2, <1>3, <1>4 DEF Fits
<1>6. SavedKnown
  BY <1>1, <1>2, <1>3 DEF SavedKnown
<1>7. AsksKnown
  BY <1>1, <1>2 DEF AsksKnown
<1>8. OneUnderway
  BY <1>1, <1>2 DEF OneUnderway
<1> QED BY <1>5, <1>6, <1>7, <1>8 DEF ThreadsInv

LEMMA ThreadsStep ==
    ASSUME ThreadsInv, Threads!ThreadsAssumption, [Threads!ThreadsNext]_(Threads!threadsVars)
    PROVE  ThreadsInv'
<1>1. CASE Threads!OpenChat \/ Threads!CloseChat
  BY <1>1, OpeningKeeps
<1>2. CASE \/ Threads!StartNewDiscussion \/ Threads!RestoreArchivedThread
           \/ Threads!ForgetCurrentDiscussion \/ Threads!DeleteArchivedThread
           \/ Threads!ForgetArchivedThreads \/ Threads!EditPromptAt
  BY <1>2, ConversationStep, ConversedKeeps
<1>3. CASE Threads!Asking
  BY <1>3, AskingKeeps
<1>4. ASSUME NEW i \in DOMAIN asks,
             \/ Threads!ContextRead(i) \/ Threads!DirectlySaved(i) \/ Threads!PassageSaved(i)
             \/ Threads!Answered(i, TRUE) \/ Threads!Answered(i, FALSE) \/ Threads!AskFailed(i)
             \/ Threads!OverviewShown(i)
      PROVE  ThreadsInv'
  BY <1>4, ContextKeeps, SavingKeeps, AnsweringKeeps, OverviewKeeps
<1>5. CASE UNCHANGED Threads!threadsVars
  <2>1. chat' = chat /\ saved' = saved /\ asks' = asks
    BY <1>5 DEF Threads!threadsVars
  <2>2. Fits(chat)' /\ SavedKnown'
    BY <2>1 DEF ThreadsInv, Fits, SavedKnown, Panel, Told
  <2>3. Conversed
    BY <2>1, <2>2 DEF Conversed
  <2> QED BY <2>3, ConversedKeeps
<1> QED BY <1>1, <1>2, <1>3, <1>4, <1>5 DEF Threads!ThreadsNext

LEMMA OneIsCounted ==
    ASSUME ThreadsInv
    PROVE  Threads!BusyIsOneQuestion
<1> DEFINE S == {i \in DOMAIN asks : Threads!Live(asks[i])}
<1>1. Threads!Cardinality(S) = Cardinality(S)
  BY Zenon DEF Cardinality, Threads!Cardinality
<1>2. CASE S = {}
  <2>1. Cardinality(S) = 0
    BY <1>2, FS_EmptySet
  <2> QED BY <1>1, <1>2, <2>1 DEF ThreadsInv, OneUnderway, Threads!BusyIsOneQuestion
<1>3. CASE S # {}
  <2>1. PICK i \in S : S = {i}
    BY <1>3 DEF ThreadsInv, OneUnderway
  <2>2. Cardinality(S) = 1
    <3> HIDE DEF S
    <3> QED BY <2>1, FS_Singleton
  <2>3. chat.open => chat.busy
    BY <2>1 DEF ThreadsInv, OneUnderway
  <2> QED BY <1>1, <2>2, <2>3 DEF Threads!BusyIsOneQuestion
<1> QED BY <1>2, <1>3

LEMMA ThreadsAreTyped ==
    ASSUME ThreadsInv, Threads!ThreadsAssumption
    PROVE  Threads!ThreadsTypeOK
<1>1. /\ chat.messages \in Seq(Message) /\ saved.messages \in Seq(Message)
      /\ chat.failed \in 0 .. MaxQuestions /\ chat.editing \in Nat
  BY ThreadsFacts DEF Told, Panel
<1>2. Threads!ToSet(chat.messages) \cup Threads!ToSet(saved.messages) \subseteq Threads!Message
  BY <1>1 DEF Threads!ToSet, Message
<1>3. Len(chat.archived) <= KeptThreads /\ Len(saved.messages) <= KeptMessages
  BY DEF ThreadsInv, Fits, SavedKnown
<1>4. chat.editing \in 0 .. Len(chat.messages)
  BY <1>1 DEF ThreadsInv, Fits
<1> QED BY <1>1, <1>2, <1>3, <1>4 DEF Threads!ThreadsTypeOK

\* The panel says that the tutor is working exactly while one question of this opening is
\* under way, and a prompt that is edited or asked again is sent without the turns that it
\* replaces: for any number of questions, openings, threads and messages.
THEOREM QuestionsAreKeptApart ==
    ASSUME Threads!ThreadsAssumption
    PROVE  Threads!ThreadsSpec => [](/\ Threads!ThreadsTypeOK
                                     /\ Threads!BusyIsOneQuestion
                                     /\ Threads!ReplacedTurnsAreNotSent)
<1>1. Threads!ThreadsInit => ThreadsInv
  BY ThreadsBegin
<1>2. ThreadsInv /\ [Threads!ThreadsNext]_(Threads!threadsVars) => ThreadsInv'
  BY ThreadsStep
<1>3. ThreadsInv => /\ Threads!ThreadsTypeOK
                    /\ Threads!BusyIsOneQuestion
                    /\ Threads!ReplacedTurnsAreNotSent
  <2> SUFFICES ASSUME ThreadsInv PROVE Threads!ReplacedTurnsAreNotSent
    BY ThreadsAreTyped, OneIsCounted
  <2>1. \A i \in DOMAIN asks : Sound(asks[i])
    <3>1. \A i \in DOMAIN asks : asks[i].stage \in {"context", "model"}
      <4>1. \A i \in DOMAIN asks : asks[i] \in Asked
        BY DEF ThreadsInv, AsksKnown
      <4> QED BY <4>1 DEF Asked
    <3>2. \A i \in DOMAIN asks : asks[i].stage = "context" => asks[i].history = << >>
      BY DEF ThreadsInv, AsksKnown, Prepared
    <3> QED BY <3>1, <3>2 DEF ThreadsInv, AsksKnown, Sound
  <2> QED BY <2>1 DEF Sound, Threads!ReplacedTurnsAreNotSent, Threads!ToSet
<1> QED BY <1>1, <1>2, <1>3, PTL DEF Threads!ThreadsSpec

=============================================================================
