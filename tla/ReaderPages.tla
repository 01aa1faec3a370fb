----------------------------- MODULE ReaderPages -----------------------------
(***************************************************************************)
(* The page on screen of an open PDF: the rasters drawn ahead, the text    *)
(* layer over them, the search that reads every page, and the reading      *)
(* progress that travels to the server and back through the reader's page. *)
(*                                                                         *)
(* Each change of page or zoom runs the page effect once; an effect is     *)
(* cancelled by the next one and its late continuations must change        *)
(* nothing.  Raster, text and layer are separate waits.                    *)
(***************************************************************************)
EXTENDS Naturals, Sequences, FiniteSets, SequencesExt, FiniteSetsExt

CONSTANTS NumPages, Scales,
          Queries,    \* a query is named by the set of pages that contain it
          MaxTurns,   \* bound: runs of the page effect
          MaxFlights, \* bound: saves in flight
          Nothing

PagesAssumption ==
  /\ {NumPages, MaxTurns, MaxFlights} \subseteq Nat \ {0}
  /\ Queries \subseteq SUBSET (1 .. NumPages)
  /\ Scales # {} /\ Nothing \notin Nat

VARIABLES screen,   \* what the page stage shows
          rasters,  \* pageRenderCache: key -> "drawing" or "ready"
          turns,    \* the runs of the page effect, the last one is live
          texts,    \* pageTextCache: pages whose text is known
          search, progress

pagesVars == <<screen, rasters, turns, texts, search, progress>>

AllPages == 1 .. NumPages
Neighbours == 2
Live(n) == n = Len(turns)
Here == [page |-> screen.page, scale |-> screen.scale]

NoSearch == [query |-> Nothing, busy |-> FALSE, asked |-> {}, from |-> 1, direction |-> 1,
             pages |-> {}]

PagesInit ==
  LET key == [page |-> 1, scale |-> CHOOSE s \in Scales : TRUE]
  IN /\ screen = [page |-> 1, scale |-> key.scale, error |-> FALSE, rendering |-> TRUE,
                  textLoading |-> FALSE, pixels |-> Nothing, layer |-> Nothing,
                  interactive |-> FALSE, text |-> Nothing]
     /\ rasters = [k \in {key} |-> "drawing"]
     /\ turns = <<[key |-> key, stage |-> "raster", ahead |-> FALSE]>>
     /\ texts = {}
     /\ search = NoSearch
     /\ progress = [timer |-> 1, flights |-> <<>>, current |-> 1]

----------------------------------------------------------------------------
(* The page effect. *)

Ensure(cache, key) ==
  IF key.page \in AllPages /\ key \notin DOMAIN cache
  THEN [k \in DOMAIN cache \cup {key} |-> IF k = key THEN "drawing" ELSE cache[k]]
  ELSE cache

Forget(cache, gone) == [k \in DOMAIN cache \ gone |-> cache[k]]

Distance(a, b) == IF a < b THEN b - a ELSE a - b
FarFrom(key) == {k \in DOMAIN rasters :
                   k.scale # key.scale \/ Distance(k.page, key.page) > Neighbours}

NextOf(key) == [key EXCEPT !.page = @ + 1]
PreviousOf(key) == [key EXCEPT !.page = @ - 1]

\* the new pixels replace the old page's pixels and its text spans together
Painted(s, key) == [s EXCEPT !.pixels = key, !.layer = Nothing,
                             !.rendering = FALSE, !.textLoading = TRUE]

\* The stage is off screen while an error is shown: the effect finds no canvas
\* and gives up, and the stage comes back empty.
RunEffectWithoutStage(key) ==
  /\ screen' = [screen EXCEPT !.page = key.page, !.scale = key.scale, !.error = FALSE,
                              !.rendering = FALSE, !.textLoading = FALSE,
                              !.pixels = Nothing, !.layer = Nothing, !.interactive = TRUE]
  /\ turns' = Append(turns, [key |-> key, stage |-> "done", ahead |-> FALSE])
  /\ UNCHANGED rasters

RunEffect(key) ==
  LET near == Forget(rasters, FarFrom(key))
      ready == key \in DOMAIN near /\ near[key] = "ready"
      begun == [screen EXCEPT !.page = key.page, !.scale = key.scale,
                              !.rendering = ~ready, !.textLoading = FALSE,
                              !.interactive = FALSE,
                              !.text = IF key.page \in texts THEN key.page ELSE Nothing]
      cache == Ensure(near, key)
  IN /\ screen' = IF ready THEN Painted(begun, key) ELSE begun
     /\ rasters' = IF ready THEN Ensure(cache, NextOf(key)) ELSE cache
     /\ turns' = Append(turns, [key |-> key, stage |-> IF ready THEN "text" ELSE "raster",
                                ahead |-> ready])

GoTo(key) ==
  /\ Len(turns) < MaxTurns
  /\ IF screen.error THEN RunEffectWithoutStage(key) ELSE RunEffect(key)

\* a new page restarts the progress timer
TurnTo(page, flights, current) ==
  /\ GoTo([Here EXCEPT !.page = page])
  /\ progress' = [timer |-> page, flights |-> flights, current |-> current]

StayOrTurn(page) ==
  IF page = screen.page THEN UNCHANGED <<screen, rasters, turns, progress>>
  ELSE TurnTo(page, progress.flights, progress.current)

TurnPage ==
  \E p \in AllPages \ {screen.page} :
    /\ TurnTo(p, progress.flights, progress.current)
    /\ UNCHANGED <<texts, search>>

Zoom ==
  \E s \in Scales \ {screen.scale} :
    /\ GoTo([Here EXCEPT !.scale = s])
    /\ UNCHANGED <<texts, search, progress>>

Waiting(key) == {n \in DOMAIN turns : turns[n].stage = "raster" /\ turns[n].key = key}
After(key, drawn) ==
  [n \in DOMAIN turns |->
     IF n \notin Waiting(key) THEN turns[n]
     ELSE IF Live(n) /\ drawn THEN [turns[n] EXCEPT !.stage = "text", !.ahead = TRUE]
     ELSE [turns[n] EXCEPT !.stage = "done"]]

RasterDrawn ==
  \E key \in DOMAIN rasters :
    LET cache == [rasters EXCEPT ![key] = "ready"]
        shown == \E n \in Waiting(key) : Live(n)
    IN /\ rasters[key] = "drawing"
       /\ turns' = After(key, TRUE)
       /\ screen' = IF shown THEN Painted(screen, key) ELSE screen
       /\ rasters' = IF shown THEN Ensure(cache, NextOf(key)) ELSE cache
       /\ UNCHANGED <<texts, search, progress>>

\* the error replaces the whole stage
RasterFails ==
  \E key \in DOMAIN rasters :
    /\ rasters[key] = "drawing"
    /\ rasters' = Forget(rasters, {key})
    /\ turns' = After(key, FALSE)
    /\ screen' = IF \E n \in Waiting(key) : Live(n)
                 THEN [screen EXCEPT !.error = TRUE, !.rendering = FALSE, !.textLoading = FALSE,
                                     !.interactive = TRUE, !.pixels = Nothing, !.layer = Nothing]
                 ELSE screen
    /\ UNCHANGED <<texts, search, progress>>

\* after the next page, drawn or failed, the previous one
DrawPrevious ==
  \E n \in DOMAIN turns :
    LET key == turns[n].key
    IN /\ turns[n].ahead
       /\ ~(NextOf(key) \in DOMAIN rasters /\ rasters[NextOf(key)] = "drawing")
       /\ turns' = [turns EXCEPT ![n].ahead = FALSE]
       /\ rasters' = IF Live(n) THEN Ensure(rasters, PreviousOf(key)) ELSE rasters
       /\ UNCHANGED <<screen, texts, search, progress>>

\* the text of the page is there, or could not be extracted
TextArrives ==
  \E n \in DOMAIN turns, extracted \in BOOLEAN :
    LET page == turns[n].key.page
        builds == Live(n) /\ extracted
    IN /\ turns[n].stage = "text"
       /\ turns' = [turns EXCEPT ![n].stage = IF builds THEN "layer" ELSE "done"]
       /\ texts' = IF builds THEN texts \cup {page} ELSE texts
       /\ screen' = IF ~Live(n) THEN screen
                    ELSE IF extracted THEN [screen EXCEPT !.text = page, !.layer = turns[n].key]
                    ELSE [screen EXCEPT !.interactive = TRUE, !.textLoading = FALSE]
       /\ UNCHANGED <<rasters, search, progress>>

\* rendered or failed, the layer becomes selectable
LayerRendered ==
  \E n \in DOMAIN turns :
    /\ turns[n].stage = "layer"
    /\ turns' = [turns EXCEPT ![n].stage = "done"]
    /\ screen' = IF Live(n) THEN [screen EXCEPT !.interactive = TRUE, !.textLoading = FALSE]
                 ELSE screen
    /\ UNCHANGED <<rasters, texts, search, progress>>

\* every page before, this one and the next three, read for the tutor
ReadContext ==
  /\ texts' = texts \cup 1 .. Min({NumPages, screen.page + 3})
  /\ UNCHANGED <<screen, rasters, turns, search, progress>>

----------------------------------------------------------------------------
(* The progress: saved 700 ms after a turn.  The answer goes to the page that
   holds the reader, which stores it as the initial page and, its book being a
   new object, hands the reader a new callback: the timer starts again. *)

ProgressTimer ==
  /\ progress.timer # Nothing /\ Len(progress.flights) < MaxFlights
  /\ progress' = [progress EXCEPT !.timer = Nothing, !.flights = Append(@, progress.timer)]
  /\ UNCHANGED <<screen, rasters, turns, texts, search>>

ProgressSaved ==
  \E i \in DOMAIN progress.flights :
    LET page == progress.flights[i]
        others == RemoveAt(progress.flights, i)
    IN /\ IF page # progress.current /\ page # screen.page
          THEN TurnTo(page, others, page)
          ELSE /\ progress' = [timer |-> screen.page, flights |-> others, current |-> page]
               /\ UNCHANGED <<screen, rasters, turns>>
       /\ UNCHANGED <<texts, search>>

ProgressNotSaved ==
  \E i \in DOMAIN progress.flights :
    /\ progress' = [progress EXCEPT !.flights = RemoveAt(@, i)]
    /\ UNCHANGED <<screen, rasters, turns, texts, search>>

----------------------------------------------------------------------------
(* The search, which keeps the page it was asked from while it reads. *)

TypeQuery ==
  \E q \in (Queries \cup {Nothing}) \ {search.query} :
    /\ search' = [search EXCEPT !.query = q]
    /\ UNCHANGED <<screen, rasters, turns, texts, progress>>

StartFind(direction) ==
  /\ search' = [search EXCEPT !.busy = TRUE, !.asked = search.query, !.from = screen.page,
                              !.direction = direction]
  /\ UNCHANGED <<screen, rasters, turns, texts, progress>>

Find == ~search.busy /\ search.query # Nothing /\ StartFind(1)

\* the first match on the asked side of the page, else the end of the list
Target ==
  LET beyond == {p \in search.asked : IF search.direction = 1 THEN p > search.from
                                      ELSE p < search.from}
  IN IF beyond # {} THEN Min(beyond)
     ELSE IF search.direction = 1 THEN Min(search.asked) ELSE Max(search.asked)

FindEnds ==
  /\ search.busy
  /\ search' = [search EXCEPT !.busy = FALSE, !.pages = search.asked]
  /\ texts' = AllPages
  /\ IF search.asked = {} THEN UNCHANGED <<screen, rasters, turns, progress>>
     ELSE StayOrTurn(Target)

FindFails ==
  /\ search.busy
  /\ search' = [search EXCEPT !.busy = FALSE]
  /\ UNCHANGED <<screen, rasters, turns, texts, progress>>

\* the two arrows beside the number of matching pages go round; on a page
\* without a match both lead to the first
GoToSearchMatch ==
  \E forward \in BOOLEAN :
    LET beyond == {p \in search.pages : IF forward THEN p > screen.page ELSE p < screen.page}
        round == IF beyond # {} THEN beyond ELSE search.pages
    IN /\ search.pages # {}
       /\ StayOrTurn(IF screen.page \notin search.pages THEN Min(search.pages)
                     ELSE IF forward THEN Min(round) ELSE Max(round))
       /\ UNCHANGED <<texts, search>>

----------------------------------------------------------------------------
PagesNext ==
  \/ TurnPage \/ Zoom \/ RasterDrawn \/ RasterFails \/ DrawPrevious \/ TextArrives
  \/ LayerRendered \/ ReadContext \/ ProgressTimer \/ ProgressSaved \/ ProgressNotSaved
  \/ TypeQuery \/ Find \/ FindEnds \/ FindFails \/ GoToSearchMatch

PagesSpec == PagesInit /\ [][PagesNext]_pagesVars

----------------------------------------------------------------------------
Keys == [page : AllPages, scale : Scales]

(* The stage, the rasters and the waits of the page effect are well formed. *)
PagesTypeOK ==
  /\ screen \in [page : AllPages, scale : Scales, error : BOOLEAN, rendering : BOOLEAN,
                 textLoading : BOOLEAN, pixels : Keys \cup {Nothing},
                 layer : Keys \cup {Nothing}, interactive : BOOLEAN,
                 text : AllPages \cup {Nothing}]
  /\ DOMAIN rasters \subseteq Keys
  /\ \A n \in DOMAIN turns : turns[n].key \in Keys
  /\ texts \subseteq AllPages /\ search.pages \subseteq AllPages
  /\ progress.timer \in AllPages \cup {Nothing} /\ progress.current \in AllPages

(* "Raster and text must transition together": what can be selected is the text
   of the pixels under it and of the page whose number is saved with it, however
   late the answers of the pages and zooms turned away from. *)
SelectableTextIsThisPage ==
  /\ screen.interactive /\ screen.layer # Nothing =>
       screen.layer = Here /\ screen.pixels = Here /\ screen.text = screen.page
  /\ screen.layer # Nothing => screen.layer = screen.pixels

(* A spinner over the page stands for a wait of the live effect, and without one
   the page is drawn, unless a page failed to draw before. *)
SpinnerIsWork ==
  LET last == turns[Len(turns)]
  IN /\ screen.rendering = (last.stage = "raster")
     /\ screen.textLoading = (last.stage \in {"text", "layer"})
     /\ screen.rendering => last.key \in DOMAIN rasters /\ rasters[last.key] = "drawing"
     /\ ~screen.rendering /\ screen.pixels # Nothing => screen.pixels = Here

=============================================================================
