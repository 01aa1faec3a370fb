----------------------------- MODULE ReaderHelp -----------------------------
(***************************************************************************)
(* Help on the words of a page: the companion's pins over the text layer,  *)
(* the explanation of the word under the pointer and the translation of a  *)
(* selected passage.  The page number turns first; the text layer in the   *)
(* document stays the old page's until LayerReady replaces it.             *)
(***************************************************************************)
EXTENDS Naturals, Sequences, FiniteSets, SequencesExt

CONSTANTS BookPages,
          Words,       \* a word or passage is named by the pages it is on once
          MaxCalls,    \* bound: requests in flight
          Nothing

HelpAssumption ==
  /\ BookPages \subseteq Nat /\ BookPages # {} /\ Words \subseteq SUBSET BookPages
  /\ MaxCalls \in Nat \ {0} /\ Nothing \notin BookPages

VARIABLES sheet,     \* page, layer, hovered word, selected passage
          pins,      \* the companion's marks and where they were found
          words,     \* explained words
          passage,   \* the translated selection
          asked      \* requests in flight

helpVars == <<sheet, pins, words, passage, asked>>

HelpInit ==
  /\ sheet = [page |-> CHOOSE p \in BookPages : TRUE, layer |-> Nothing, hovered |-> Nothing,
              selected |-> Nothing]
  /\ pins = [page |-> Nothing, marks |-> {}, found |-> {}]
  /\ words = [cache |-> {}, key |-> Nothing, loading |-> Nothing]
  /\ passage = [shown |-> Nothing, busy |-> FALSE]
  /\ asked = <<>>

Ready == sheet.layer = sheet.page
OnLayer(layer) == {w \in Words : layer # Nothing /\ layer \in w}

\* a mark is drawn only where its quote occurs exactly once
Pinned(p, page, layer) ==
  {[quote |-> q, at |-> layer] : q \in IF p.page = page THEN p.marks \cap OnLayer(layer) ELSE {}}

TurnPage ==
  \E page \in BookPages \ {sheet.page} :
    /\ sheet' = [sheet EXCEPT !.page = page, !.hovered = Nothing, !.selected = Nothing]
    /\ pins' = [pins EXCEPT !.found = Pinned(pins, page, sheet.layer)]
    /\ UNCHANGED <<words, passage, asked>>

LayerReady ==
  /\ ~Ready
  /\ sheet' = [sheet EXCEPT !.layer = sheet.page]
  /\ pins' = [pins EXCEPT !.found = Pinned(pins, sheet.page, sheet.page)]
  /\ UNCHANGED <<words, passage, asked>>

\* the marks of an insight, made for the page it was asked on
CompanionMarks ==
  \E q \in Words, page \in BookPages :
    LET p == [page |-> page, marks |-> {q}, found |-> {}]
    IN /\ pins.marks # {q} \/ pins.page # page
       /\ pins' = [p EXCEPT !.found = Pinned(p, sheet.page, sheet.layer)]
       /\ UNCHANGED <<sheet, words, passage, asked>>

\* the word under the pointer, or a term of the panel's list
HoverWord ==
  \E w \in (IF Ready THEN OnLayer(sheet.layer) ELSE {}) \cup {Nothing} :
    /\ sheet.hovered # w
    /\ sheet' = [sheet EXCEPT !.hovered = w]
    /\ UNCHANGED <<pins, words, passage, asked>>

\* a passage, nothing, or a single word, which counts as hovered too
Capture ==
  \E w \in (IF Ready THEN OnLayer(sheet.layer) ELSE {}) \cup {Nothing}, single \in BOOLEAN :
    /\ sheet.selected # w
    /\ sheet' = [sheet EXCEPT !.selected = w,
                              !.hovered = IF w = Nothing THEN @ ELSE IF single THEN w ELSE Nothing]
    /\ passage' = IF w = Nothing THEN passage ELSE [passage EXCEPT !.shown = Nothing]
    /\ UNCHANGED <<pins, words, asked>>

\* the cache's key names the page's text
WordKey(w) == [page |-> sheet.page, text |-> sheet.page, word |-> w]

Request(call) == Len(asked) < MaxCalls /\ asked' = Append(asked, call)

\* 650 ms after the pointer came to rest, or the button
ExplainWord ==
  LET key == WordKey(sheet.hovered)
      call == [kind |-> "word", key |-> key]
  IN /\ sheet.hovered # Nothing
     /\ IF key \in words.cache
        THEN words' = [words EXCEPT !.key = key] /\ UNCHANGED asked
        ELSE /\ call \notin ToSet(asked) /\ Request(call)
             /\ words' = [words EXCEPT !.loading = key]
     /\ UNCHANGED <<sheet, pins, passage>>

WordAnswers(i) ==
  LET key == asked[i].key
      idle == IF words.loading = key THEN Nothing ELSE words.loading
  IN /\ asked[i].kind = "word"
     /\ \/ words' = [cache |-> words.cache \cup {key}, key |-> key, loading |-> idle]
        \/ words' = [words EXCEPT !.loading = idle]
     /\ asked' = RemoveAt(asked, i)
     /\ UNCHANGED <<sheet, pins, passage>>

TranslateSelection ==
  /\ sheet.selected # Nothing /\ passage.shown = Nothing /\ ~passage.busy
  /\ Request([kind |-> "passage", quote |-> sheet.selected])
  /\ passage' = [passage EXCEPT !.busy = TRUE]
  /\ UNCHANGED <<sheet, pins, words>>

\* the answer is shown whatever is selected by then
SelectionAnswers(i) ==
  /\ asked[i].kind = "passage"
  /\ \/ passage' = [busy |-> FALSE, shown |-> asked[i].quote]
     \/ passage' = [passage EXCEPT !.busy = FALSE]
  /\ asked' = RemoveAt(asked, i)
  /\ UNCHANGED <<sheet, pins, words>>

HelpNext ==
  \/ TurnPage \/ LayerReady \/ CompanionMarks \/ HoverWord \/ Capture \/ ExplainWord
  \/ TranslateSelection
  \/ \E i \in DOMAIN asked : WordAnswers(i) \/ SelectionAnswers(i)

HelpSpec == HelpInit /\ [][HelpNext]_helpVars

----------------------------------------------------------------------------
WordKeys == [page : BookPages, text : BookPages, word : Words]

(* Pages, pins, keys and requests are well formed. *)
HelpTypeOK ==
  /\ sheet \in [page : BookPages, layer : BookPages \cup {Nothing},
                hovered : Words \cup {Nothing}, selected : Words \cup {Nothing}]
  /\ pins.found \subseteq [quote : Words, at : BookPages]
  /\ words.cache \subseteq WordKeys /\ words.key \in WordKeys \cup {Nothing}
  /\ passage.shown \in Words \cup {Nothing} /\ Len(asked) <= MaxCalls

(* On a page that is ready, the companion's pins are those of the marks made
   for this page and lie where its text has them, though the marks arrive late
   and the layer changes after the page number. *)
PinsAreOfThisPage ==
  Ready => \A pin \in pins.found : pins.page = sheet.page /\ pin.at = sheet.page

=============================================================================
