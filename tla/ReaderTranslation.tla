-------------------------- MODULE ReaderTranslation --------------------------
(***************************************************************************)
(* The page translation of the PDF reader: the companion panel, the effect *)
(* that starts a job for the page on screen, the job itself with its parts *)
(* (one request each), the caches the reader keeps, the grammar analysis   *)
(* and the registry of jobs, which outlives the reader.                    *)
(*                                                                         *)
(* A handler of the panel changes the component's state and React then     *)
(* runs the translation effect over what the handler left: both are one    *)
(* action (Commit).  A page turn is two commits, since the page's text is  *)
(* replaced by an effect of the first: SyncText is the second.  Calls that *)
(* wait (the book context, each part, the analysis) are actions of their   *)
(* own and may answer at any time, to a reader that moved on or is gone.   *)
(***************************************************************************)
EXTENDS Naturals, Sequences, SequencesExt, FiniteSets

CONSTANTS Pages,       \* pages of the book
          TextPages,   \* those with embedded text; the others are images
          Settings,    \* pairs of a target language and a model
          Parts,       \* parts a page is split into
          RetainedJobs,\* MAX_RETAINED_JOBS
          KeptPages,   \* pages pageTranslationCache keeps (40 in the code)
          MaxRuns,     \* bound: translation jobs started
          MaxReaders,  \* bound: times the reader is opened
          MaxAnalyses, \* bound: analyses requested
          Nothing

Whole == {"translation"}
Notes == {"notes"}

Keys == [page : Pages, text : Pages \cup {Nothing}, settings : Settings]
Data == [key : Keys, has : SUBSET (Whole \cup Notes)]
JobIds == Pages \X (1 .. MaxRuns)

TranslationAssumption ==
  /\ Pages \subseteq Nat \ {0} /\ 1 \in Pages /\ TextPages \subseteq Pages
  /\ Settings # {} /\ Nothing \notin Pages \cup Keys \cup Data
  /\ {Parts, RetainedJobs, KeptPages, MaxReaders} \subseteq Nat \ {0}
  /\ {MaxRuns, MaxAnalyses} \subseteq Nat

VARIABLES reader,    \* page, page whose text is known, settings, panel
          view,      \* what the panel shows
          kept,      \* the reader's refs: caches, the key in flight
          analysis,  \* the grammar analysis and its calls
          runs,      \* the asynchronous calls of requestTranslation
          registry   \* translationJobs, least recently updated first

translationVars == <<reader, view, kept, analysis, runs, registry>>

Terminal == {"completed", "failed", "cancelled"}

\* currentPageTranslationKey: the text is named by the page it came from
KeyOf(r) == [page |-> r.page, text |-> r.text, settings |-> r.settings]
CurrentKey == KeyOf(reader)

NewReader(n) == [number |-> n, mounted |-> TRUE, crashed |-> FALSE,
                 open |-> FALSE, settled |-> TRUE, page |-> 1, text |-> Nothing,
                 settings |-> CHOOSE s \in Settings : TRUE]
EmptyView == [data |-> Nothing, dataKey |-> Nothing, partial |-> Nothing,
              busy |-> FALSE, failed |-> FALSE]
EmptyKept == [pages |-> <<>>, parts |-> {}, learned |-> {}, inFlight |-> Nothing,
              sequence |-> 0]

NoAnalysis == [sequence |-> 0, busy |-> FALSE, calls |-> <<>>]

TranslationInit ==
  /\ reader = NewReader(1)
  /\ view = EmptyView
  /\ kept = EmptyKept
  /\ analysis = NoAnalysis
  /\ runs = <<>>
  /\ registry = <<>>

----------------------------------------------------------------------------
(* The registry of jobs. *)

\* what a sequence has at some places, in its order
Place(I, k) == CHOOSE i \in I : Cardinality({j \in I : j <= i}) = k
Picked(s, I) == [k \in 1 .. Cardinality(I) |-> s[Place(I, k)]]

IsActive(jobs, id) == \E j \in ToSet(jobs) : j.id = id /\ j.status \notin Terminal
Without(jobs, id) == Picked(jobs, {i \in DOMAIN jobs : jobs[i].id # id})

\* running jobs are changed, the latest one first, and become the most recently updated ones
Touch(jobs, ids, status, done) ==
  LET running == {i \in DOMAIN jobs : jobs[i].id \in ids /\ jobs[i].status = "running"}
      Changed(j) == [j EXCEPT !.status = status, !.done = IF done = Nothing THEN @ ELSE done]
  IN Picked(jobs, DOMAIN jobs \ running)
       \o [k \in 1 .. Cardinality(running) |->
             Changed(jobs[Place(running, Cardinality(running) + 1 - k)])]

Progress(jobs, id, done) == Touch(jobs, {id}, "running", done)
Complete(jobs, id) == Touch(jobs, {id}, "completed", Parts)
Fail(jobs, id) == Touch(jobs, {id}, "failed", Nothing)
Cancel(jobs, ids) == Touch(jobs, ids, "cancelled", Nothing)

\* the calls whose signal an explicit cancellation aborts
Aborting(rs, jobs, ids) ==
  [n \in DOMAIN rs |->
     IF \E j \in ToSet(jobs) : j.id \in ids /\ j.status = "running" /\ j.run = n
     THEN [rs[n] EXCEPT !.aborted = TRUE] ELSE rs[n]]

\* the oldest finished jobs go until the registry is below its limit
Prune(jobs) ==
  LET excess == (Len(jobs) + 1) - RetainedJobs
      finished == {i \in DOMAIN jobs : jobs[i].status \in Terminal}
      gone == {i \in finished : Cardinality({k \in finished : k <= i}) <= excess}
  IN Picked(jobs, DOMAIN jobs \ gone)

----------------------------------------------------------------------------
(* The translation effect. *)

PageOf(c, key) == CHOOSE e \in ToSet(c.pages) : e.key = key
IsKept(c, key) == \E e \in ToSet(c.pages) : e.key = key

\* Map.set and the eviction of the oldest entry
Keep(pages, key, has) ==
  IF \E i \in DOMAIN pages : pages[i].key = key
  THEN [i \in DOMAIN pages |->
          IF pages[i].key = key THEN [key |-> key, has |-> has] ELSE pages[i]]
  ELSE Append(pages, [key |-> key, has |-> has])
EvictOldest(pages) == IF Len(pages) > KeptPages THEN Tail(pages) ELSE pages

NewRun(key, r, c) == [id |-> <<key.page, c.sequence + 1>>, key |-> key,
                      reader |-> r.number, stage |-> "context", have |-> {},
                      owned |-> TRUE, aborted |-> FALSE]

\* translationPageJobByKey: of the mounted reader's calls those of a key or of some jobs lose it
Disown(rs, number, key, ids) ==
  [n \in DOMAIN rs |-> IF rs[n].reader = number /\ (rs[n].key = key \/ rs[n].id \in ids)
                       THEN [rs[n] EXCEPT !.owned = FALSE] ELSE rs[n]]

StartJob(r, v, c, rs, jobs) ==
  LET key == KeyOf(r)
      run == NewRun(key, r, c)
      pruned == Prune(jobs)
  IN /\ Len(rs) < MaxRuns
     /\ kept' = [c EXCEPT !.sequence = @ + 1, !.inFlight = key]
     /\ runs' = Append(Disown(rs, r.number, key, {}), run)
     /\ registry' = Append(Without(pruned, run.id),
                           [id |-> run.id, page |-> r.page, status |-> "running",
                            done |-> 0, run |-> Len(rs) + 1])
     /\ view' = [v EXCEPT !.data = Nothing, !.partial = Nothing, !.busy = TRUE,
                          !.failed = FALSE]
     /\ reader' = r

\* start refuses an id that is still active: thrown in an effect, it takes
\* the whole reader off the screen
StartRefused(r, c, rs, jobs) ==
  /\ reader' = [NewReader(r.number) EXCEPT !.mounted = FALSE, !.crashed = TRUE]
  /\ kept' = [EmptyKept EXCEPT !.parts = c.parts]
  /\ runs' = rs /\ registry' = jobs /\ view' = EmptyView

Settles(r, v, c) ==
  \/ ~r.open \/ r.text = Nothing
  \/ v.dataKey = KeyOf(r) /\ v.data # Nothing
  \/ c.inFlight = KeyOf(r)

Commit(r, v, c, rs, jobs) ==
  \/ /\ Settles(r, v, c)
     /\ reader' = r /\ view' = v /\ kept' = c /\ runs' = rs /\ registry' = jobs
  \/ /\ ~Settles(r, v, c) /\ IsKept(c, KeyOf(r))
     /\ view' = [v EXCEPT !.data = PageOf(c, KeyOf(r)), !.dataKey = KeyOf(r),
                          !.busy = FALSE]
     /\ reader' = r /\ kept' = c /\ runs' = rs /\ registry' = jobs
  \/ /\ ~Settles(r, v, c) /\ ~IsKept(c, KeyOf(r))
     /\ IF IsActive(jobs, <<r.page, c.sequence + 1>>)
        THEN StartRefused(r, c, rs, jobs)
        ELSE StartJob(r, v, c, rs, jobs)

----------------------------------------------------------------------------
(* What the reader of the book does. *)

Mine(r) == reader.mounted /\ r.reader = reader.number
UserActs == reader.mounted /\ reader.settled

\* the page and, until SyncText, still the text of the page before it
TurnPage ==
  \E p \in Pages \ {reader.page} :
    /\ UserActs
    /\ Commit([reader EXCEPT !.page = p, !.settled = FALSE], view, kept, runs, registry)
    /\ UNCHANGED analysis

\* pageTextCache still has the text of a page seen before, or not
SyncText ==
  \E text \in {Nothing} \cup (TextPages \cap {reader.page}) :
    /\ reader.mounted /\ ~reader.settled
    /\ Commit([reader EXCEPT !.settled = TRUE, !.text = text], view, kept, runs, registry)
    /\ UNCHANGED analysis

ExtractText ==
  /\ UserActs /\ reader.text = Nothing /\ reader.page \in TextPages
  /\ Commit([reader EXCEPT !.text = reader.page], view, kept, runs, registry)
  /\ UNCHANGED analysis

OpenPanel ==
  /\ UserActs /\ ~reader.open
  /\ Commit([reader EXCEPT !.open = TRUE], view, kept, runs, registry)
  /\ UNCHANGED analysis

\* "Show" beside a running job, offered while the panel is closed
ShowJob ==
  \E j \in ToSet(registry) :
    /\ UserActs /\ ~reader.open /\ j.status = "running" /\ j.page # reader.page
    /\ Commit([reader EXCEPT !.open = TRUE, !.page = j.page, !.settled = FALSE],
              view, kept, runs, registry)
    /\ UNCHANGED analysis

\* hiding the panel cancels nothing
ClosePanel ==
  /\ UserActs /\ reader.open
  /\ reader' = [reader EXCEPT !.open = FALSE]
  /\ UNCHANGED <<view, kept, analysis, runs, registry>>

ChangeLanguage ==
  \E s \in Settings \ {reader.settings} :
    /\ UserActs /\ reader.open
    /\ Commit([reader EXCEPT !.settings = s],
              [view EXCEPT !.data = Nothing, !.dataKey = Nothing, !.partial = Nothing],
              kept, runs, registry)
    /\ UNCHANGED analysis

ChangeModel ==
  \E s \in Settings \ {reader.settings} :
    /\ UserActs /\ reader.open
    /\ Commit([reader EXCEPT !.settings = s], EmptyView, kept, runs, registry)
    /\ UNCHANGED analysis

\* requestTranslation is rebuilt with the timeout, so the effect runs again
ChangeTimeout ==
  /\ UserActs /\ reader.open
  /\ Commit(reader, view, kept, runs, registry)
  /\ UNCHANGED analysis

\* the Stop of a job's line, or the panel's: this page's job, else the latest
Stop ==
  LET running == {i \in DOMAIN registry : registry[i].status = "running"}
      here == {i \in running : registry[i].page = reader.page}
      offered == IF ~reader.open THEN running
                 ELSE IF here # {} THEN {Max(here)} ELSE {Max(running)}
  IN /\ UserActs /\ running # {}
     /\ reader.open => view.busy
     /\ \E i \in offered : /\ registry' = Cancel(registry, {registry[i].id})
                           /\ runs' = Aborting(runs, registry, {registry[i].id})
     /\ UNCHANGED <<reader, view, kept, analysis>>

\* refreshPageTranslation, the panel's "Resume translation"
Resume ==
  LET here == {j.id : j \in {j \in ToSet(registry) : j.page = reader.page /\ j.status = "running"}}
      others == {i \in DOMAIN kept.pages : kept.pages[i].key # CurrentKey}
  IN /\ UserActs /\ reader.open /\ view.failed /\ ~view.busy
     /\ analysis' = [analysis EXCEPT !.sequence = @ + 1, !.busy = FALSE]
     /\ Commit(reader,
               [EmptyView EXCEPT !.busy = view.busy],
               [kept EXCEPT !.pages = Picked(@, others),
                            !.parts = {p \in @ : p.reader # reader.number \/ p.key # CurrentKey},
                            !.learned = @ \ {CurrentKey}, !.inFlight = Nothing],
               Disown(Aborting(runs, registry, here), reader.number, CurrentKey, here),
               Cancel(registry, here))

\* the component and its refs are gone; its calls and the registry are not
Leave ==
  /\ UserActs
  /\ reader' = [NewReader(reader.number) EXCEPT !.mounted = FALSE]
  /\ view' = EmptyView
  /\ kept' = [EmptyKept EXCEPT !.parts = kept.parts]
  /\ analysis' = NoAnalysis
  /\ UNCHANGED <<runs, registry>>

Reopen ==
  /\ ~reader.mounted /\ reader.number < MaxReaders
  /\ reader' = NewReader(reader.number + 1)
  /\ analysis' = NoAnalysis
  /\ UNCHANGED <<view, kept, runs, registry>>

----------------------------------------------------------------------------
(* One call of requestTranslation, from the context to its last handler. *)

Part(r, i) == [reader |-> r.reader, key |-> r.key, part |-> i]
MissingLastNever(r) == (1 .. Parts - 1) \ r.have
Missing(r) == (1 .. Parts) \ r.have
IsCurrentAnyPage(r) == r.owned /\ Mine(r)
IsCurrent(r) == r.owned /\ Mine(r) /\ r.key = CurrentKey

\* publishContiguousPartial and the streamed preview
Publishes(r) == IsCurrent(r) /\ ~r.aborted /\ kept.inFlight = r.key
WithPartial(r) == IF Publishes(r) THEN [view EXCEPT !.partial = r.key] ELSE view

SettleSpinning(n, r, rs, v, c) ==
  /\ runs' = [rs EXCEPT ![n] = [r EXCEPT !.stage = "settled", !.owned = FALSE]]
  /\ kept' = [c EXCEPT !.inFlight = IF r.owned /\ Mine(r) /\ @ = r.key THEN Nothing ELSE @]
  /\ view' = v

\* finally: the call gives up its key, the key in flight and the spinner
Settle(n, r, rs, v, c) ==
  /\ runs' = [rs EXCEPT ![n] = [r EXCEPT !.stage = "settled", !.owned = FALSE]]
  /\ kept' = IF r.owned /\ Mine(r) /\ c.inFlight = r.key
             THEN [c EXCEPT !.inFlight = Nothing] ELSE c
  /\ view' = IF IsCurrent(r) THEN [v EXCEPT !.busy = FALSE] ELSE v

\* then and finally: nothing runs between them.  A call that lost its key or
\* was stopped leaves its job as it is.
Succeed(n, r, c) ==
  LET jobs == Progress(registry, r.id, Parts)
      wins == ~r.aborted /\ r.owned
      shown == [view EXCEPT !.data = [key |-> r.key, has |-> Whole],
                            !.dataKey = r.key, !.partial = Nothing]
      cached == EvictOldest(Keep(c.pages, r.key, Whole))
  IN /\ registry' = IF wins THEN Complete(jobs, r.id) ELSE jobs
     /\ Settle(n, r, runs,
               IF wins /\ IsCurrent(r) THEN shown ELSE view,
               IF wins /\ Mine(r) THEN [c EXCEPT !.pages = cached] ELSE c)

\* catch and finally.  The cancellation goes by the job's id.
Reject(n, r, jobs, v) ==
  /\ registry' = IF r.aborted THEN Cancel(jobs, {r.id}) ELSE Fail(jobs, r.id)
  /\ Settle(n, r,
            IF r.aborted THEN Aborting(runs, jobs, {r.id}) ELSE runs,
            IF IsCurrent(r) /\ ~r.aborted THEN [v EXCEPT !.failed = TRUE] ELSE v,
            kept)

\* getTranslationContext answered: the parts kept so far are not asked again
ContextRead(n) ==
  LET r == runs[n]
      found == {i \in 1 .. Parts : Part(r, i) \in kept.parts}
      ready == [r EXCEPT !.stage = "parts", !.have = found]
  IN /\ r.stage = "context"
     /\ \/ r.aborted /\ Reject(n, r, registry, view)
        \/ ~r.aborted /\ found = 1 .. Parts /\ Succeed(n, ready, kept)
        \/ /\ ~r.aborted /\ found # 1 .. Parts
           /\ runs' = [runs EXCEPT ![n] = ready]
           /\ registry' = Progress(registry, r.id, Cardinality(found))
           /\ view' = IF 1 \in found THEN WithPartial(r) ELSE view
           /\ UNCHANGED kept
     /\ UNCHANGED <<reader, analysis>>

StreamArrives(n) ==
  LET r == runs[n]
  IN /\ r.stage = "parts" /\ view.partial # r.key /\ Publishes(r)
     /\ view' = WithPartial(r)
     /\ UNCHANGED <<reader, kept, analysis, runs, registry>>

PartTranslated(n) ==
  LET r == runs[n]
      i == Min(Missing(r))
      more == [r EXCEPT !.have = @ \cup {i}]
      c == [kept EXCEPT !.parts = @ \cup {Part(r, i)}]
  IN /\ r.stage = "parts" /\ ~r.aborted
     /\ IF Missing(more) = {}
        THEN Succeed(n, more, c)
        ELSE /\ runs' = [runs EXCEPT ![n] = more]
             /\ kept' = c
             /\ view' = WithPartial(r)
             /\ registry' = Progress(registry, r.id, Cardinality(more.have))
     /\ UNCHANGED <<reader, analysis>>

\* the provider failed or timed out, its answer was withheld, or the call was
\* stopped
PartFails(n) ==
  LET r == runs[n]
  IN /\ r.stage = "parts"
     /\ Reject(n, r, Progress(registry, r.id, Cardinality(r.have)),
               IF 1 \in r.have THEN WithPartial(r) ELSE view)
     /\ UNCHANGED <<reader, analysis>>

----------------------------------------------------------------------------
(* The grammar and IELTS analysis of the page. *)

\* the page's data when the button was pressed, or what the cache holds later
Base(key) == IF view.dataKey = key THEN view.data ELSE Nothing
Combined(c, key, base, looksUp) ==
  [key |-> key,
   has |-> Notes \cup (IF ~looksUp THEN IF base = Nothing THEN {} ELSE base.has
                       ELSE IF IsKept(c, key) THEN PageOf(c, key).has ELSE {})]

ShowNotes(key, combined, v, c) ==
  /\ view' = [v EXCEPT !.data = combined, !.dataKey = key]
  /\ kept' = [c EXCEPT !.pages = Keep(@, key, combined.has)]

AskAnalysis ==
  LET key == CurrentKey
      looksUp == view.dataKey # key
  IN /\ UserActs /\ reader.open /\ reader.text # Nothing
     /\ ~view.busy /\ ~analysis.busy
     /\ IF view.data = Nothing THEN view.partial # Nothing
        ELSE "translation" \in view.data.has /\ "notes" \notin view.data.has
     /\ analysis.sequence < MaxAnalyses
     /\ IF key \in kept.learned
        THEN /\ ShowNotes(key, Combined(kept, key, Base(key), looksUp), view, kept)
             /\ analysis' = [analysis EXCEPT !.sequence = @ + 1]
        ELSE /\ analysis' =
                  [sequence |-> analysis.sequence + 1, busy |-> TRUE,
                   calls |-> Append(analysis.calls,
                               [key |-> key, sequence |-> analysis.sequence + 1,
                                looksUp |-> looksUp, base |-> Base(key)])]
             /\ view' = [view EXCEPT !.failed = FALSE]
             /\ UNCHANGED kept
     /\ UNCHANGED <<reader, runs, registry>>

\* Only an answer that carries some translation is accepted: one in the shape
\* the prompt asks for (an empty "translation") fails the integrity check.
AnalysisAnswers(i, accepted) ==
  LET call == analysis.calls[i]
      note == [reader |-> reader.number, key |-> call.key, part |-> 0]
      latest == call.sequence = analysis.sequence
      withNote == [kept EXCEPT !.parts = @ \cup {note},
                               !.learned = IF latest THEN @ \cup {call.key} ELSE @]
  IN /\ reader.mounted
     /\ analysis' = [analysis EXCEPT !.calls = RemoveAt(@, i), !.busy = @ /\ ~latest]
     /\ \/ /\ accepted
           /\ IF latest /\ call.key = CurrentKey
              THEN ShowNotes(call.key, Combined(kept, call.key, call.base, call.looksUp),
                             view, withNote)
              ELSE kept' = withNote /\ UNCHANGED view
        \/ /\ ~accepted /\ note \notin kept.parts
           /\ view' = IF call.key = CurrentKey THEN [view EXCEPT !.failed = TRUE] ELSE view
           /\ UNCHANGED kept
     /\ UNCHANGED <<reader, runs, registry>>

----------------------------------------------------------------------------
Acts == \/ TurnPage \/ OpenPanel \/ ShowJob \/ ClosePanel \/ ChangeLanguage
        \/ ChangeModel \/ ChangeTimeout \/ Stop \/ Resume \/ AskAnalysis
        \/ Leave \/ Reopen

Arrives == \/ SyncText \/ ExtractText
           \/ \E n \in DOMAIN runs : \/ ContextRead(n) \/ StreamArrives(n)
                                     \/ PartTranslated(n) \/ PartFails(n)
           \/ \E i \in DOMAIN analysis.calls, accepted \in BOOLEAN :
                AnalysisAnswers(i, accepted)

TranslationNext == Acts \/ Arrives

TranslationSpec == TranslationInit /\ [][TranslationNext]_translationVars

----------------------------------------------------------------------------
(* Every record of the reader, its caches and the registry is well formed. *)
TranslationTypeOK ==
  /\ reader \in [number : 1 .. MaxReaders, mounted : BOOLEAN, crashed : BOOLEAN,
                 open : BOOLEAN, settled : BOOLEAN, page : Pages, text : Pages \cup {Nothing},
                 settings : Settings]
  /\ view \in [data : Data \cup {Nothing}, dataKey : Keys \cup {Nothing},
               partial : Keys \cup {Nothing}, busy : BOOLEAN, failed : BOOLEAN]
  /\ ToSet(kept.pages) \subseteq Data /\ kept.learned \subseteq Keys
  /\ kept.inFlight \in Keys \cup {Nothing}
  /\ \A r \in ToSet(runs) : r.id \in JobIds /\ r.key \in Keys /\ r.have \subseteq 1 .. Parts
  /\ \A j \in ToSet(registry) : j.id \in JobIds /\ j.run \in DOMAIN runs

Live(r) == r.stage # "settled"
Watching == UserActs /\ reader.open /\ reader.text # Nothing

(* "A result is keyed to the exact book, page, request and source text that
   created it", and the panel shows under "Page n" the "words from this page":
   what it shows as the translation of a page was made for that page.  It need
   not be.  While a page's own call is in flight the effect leaves the panel as
   it stands, with a kept page that was turned back to meanwhile. *)
PanelShowsThisPage == Watching /\ view.data # Nothing => view.data.key = CurrentKey

(* That is the only way: however late the answers of other pages, of other
   settings and of replaced calls, another page's translation stands there only
   where a call of the page itself has not brought all its parts, and what is
   still arriving is this page's. *)
Unfinished(key) == \E r \in ToSet(runs) : Mine(r) /\ r.key = key /\ Missing(r) # {}
OtherPageOnlyWhileUnfinished ==
  Watching =>
    /\ view.data # Nothing => view.data.key = CurrentKey \/ Unfinished(CurrentKey)
    /\ view.data = Nothing /\ view.partial # Nothing => view.partial = CurrentKey

(* A page that shows no translation was asked for by this reader and, under a
   spinner, a call that still runs and owns the page will end it: never a
   spinner nobody stops, never a blank page nobody asked to translate. *)
BlankPageHasReason ==
  Watching /\ view.data = Nothing =>
    \E r \in ToSet(runs) : /\ Mine(r) /\ r.key = CurrentKey
                           /\ view.busy => Live(r) /\ r.owned /\ kept.inFlight = r.key

(* A page is kept as translated only when every one of its parts was
   translated by the same reader for the same key. *)
KeptPagesAreWhole ==
  \A e \in ToSet(kept.pages) : "translation" \in e.has =>
    \A i \in 1 .. Parts :
      [reader |-> reader.number, key |-> e.key, part |-> i] \in kept.parts

(* Stopped or finished, a job stays so until its id is used again. *)
TerminalStep ==
  \A j \in ToSet(registry) : j.status \in Terminal =>
    \A k \in ToSet(registry') : k.id = j.id /\ k.run = j.run => k.status = j.status
TerminalIsFinal == [][TerminalStep]_translationVars

=============================================================================
