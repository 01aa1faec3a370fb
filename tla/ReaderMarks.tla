----------------------------- MODULE ReaderMarks -----------------------------
(***************************************************************************)
(* Marks on the pages of an open book: what the reader selects, saves and  *)
(* deletes, the marks the tutor asks for, and the list the reader shows    *)
(* against the annotations the server stores.                              *)
(*                                                                         *)
(* A handler works with the values of the render it was created in (its    *)
(* closure) and with the page layer that is in the document when it runs:  *)
(* a call of the tutor keeps the page, the selection and the list it was   *)
(* asked with and looks its quotes up in the layer it finds.               *)
(***************************************************************************)
EXTENDS Naturals, Sequences, FiniteSets, SequencesExt

CONSTANTS BookPages,
          Quotes,       \* a quote is named by the pages where it occurs once
          MaxMarks,     \* bound: annotations created
          MaxCalls,     \* bound: calls in flight
          MaxAsked,     \* marks of one answer (3 in the code)
          Nothing

MarksAssumption ==
  /\ BookPages \subseteq Nat /\ BookPages # {} /\ Quotes \subseteq SUBSET BookPages
  /\ {MaxMarks, MaxCalls, MaxAsked} \subseteq Nat \ {0} /\ Nothing \notin BookPages

VARIABLES place,      \* page, layer in the document, selection
          listed,     \* the annotations the reader lists
          stored,     \* the annotations of the server, and how many were created
          calls       \* calls that were sent and not answered

marksVars == <<place, listed, stored, calls>>

MarksInit ==
  /\ place = [page |-> CHOOSE p \in BookPages : TRUE, layer |-> Nothing, ready |-> FALSE,
              pending |-> Nothing, saving |-> FALSE,
              late |-> FALSE]
  /\ listed = {} /\ stored = [items |-> {}, created |-> 0]
  /\ calls = <<[kind |-> "load"]>>

Send(call) == Len(calls) < MaxCalls /\ calls' = Append(calls, call)
Answered(i) == calls' = RemoveAt(calls, i)

\* a quote occurs exactly once in the layer, or is not marked
Located(quote, layer) == layer # Nothing /\ layer \in quote

----------------------------------------------------------------------------
(* The page and its layer. *)

\* history, read by no code: the questions during which the page was turned
Turned(c) == IF c.kind = "tutor" THEN [c EXCEPT !.turned = TRUE] ELSE c

\* until LayerReady the layer in the document is the one of the page before
TurnPage ==
  \E page \in BookPages \ {place.page} :
    /\ place' = [place EXCEPT !.page = page, !.ready = FALSE, !.pending = Nothing]
    /\ calls' = [i \in DOMAIN calls |-> Turned(calls[i])]
    /\ UNCHANGED <<listed, stored>>

LayerReady ==
  /\ ~place.ready
  /\ place' = [place EXCEPT !.layer = place.page, !.ready = TRUE]
  /\ UNCHANGED <<listed, stored, calls>>

Selectable == {q \in Quotes : place.ready /\ Located(q, place.layer)}

\* a passage of the layer; a click on nothing discards the selection
CaptureSelection ==
  \E q \in Selectable :
    /\ place' = [place EXCEPT !.pending = [quote |-> q, at |-> place.layer]]
    /\ UNCHANGED <<listed, stored, calls>>

DiscardSelection ==
  /\ place.pending # Nothing
  /\ place' = [place EXCEPT !.pending = Nothing]
  /\ UNCHANGED <<listed, stored, calls>>

----------------------------------------------------------------------------
(* The reader's own highlights. *)

SaveHighlight ==
  /\ place.pending # Nothing /\ ~place.saving
  /\ Send([kind |-> "save", page |-> place.page, quote |-> place.pending.quote,
           at |-> place.pending.at, turned |-> FALSE])
  /\ place' = [place EXCEPT !.saving = TRUE]
  /\ UNCHANGED <<listed, stored>>

NewMark(call, by) == [id |-> stored.created + 1, page |-> call.page, quote |-> call.quote,
                      at |-> call.at, by |-> by, noted |-> FALSE, turned |-> call.turned]
Store(mark) == /\ stored.created < MaxMarks
               /\ stored' = [items |-> stored.items \cup {mark}, created |-> mark.id]

\* a selection made in the meantime is discarded with the saved one
HighlightSaved(i) ==
  /\ calls[i].kind = "save"
  /\ \/ /\ Store(NewMark(calls[i], "reader"))
        /\ listed' = listed \cup {NewMark(calls[i], "reader")}
        /\ place' = [place EXCEPT !.saving = FALSE, !.pending = Nothing]
     \/ /\ place' = [place EXCEPT !.saving = FALSE]
        /\ UNCHANGED <<listed, stored>>
  /\ Answered(i)

DeleteAnnotation ==
  \E a \in listed :
    /\ Send([kind |-> "delete", id |-> a.id])
    /\ UNCHANGED <<place, listed, stored>>

AnnotationDeleted(i) ==
  LET without(s) == {a \in s : a.id # calls[i].id}
  IN /\ calls[i].kind = "delete"
     /\ \/ stored' = [stored EXCEPT !.items = without(@)] /\ listed' = without(listed)
        \/ UNCHANGED <<stored, listed>>
     /\ Answered(i)
     /\ UNCHANGED place

\* the list as it was when the server read it, whatever was saved since then
ReadList(i) ==
  /\ calls[i].kind = "load"
  /\ calls' = [calls EXCEPT ![i] = [kind |-> "list", items |-> stored.items]]
  /\ UNCHANGED <<place, listed, stored>>

ListArrives(i) ==
  /\ calls[i].kind = "list"
  /\ listed' = calls[i].items
  /\ place' = [place EXCEPT !.late = stored.items # calls[i].items]
  /\ Answered(i)
  /\ UNCHANGED <<stored>>

----------------------------------------------------------------------------
(* applyAIHighlights: the marks the tutor's answer asks for, one after another.
   The closure is the one of the render in which the question was sent. *)

AskTutor ==
  \E todo \in BoundedSeq(Quotes, MaxAsked) \ {<<>>} :
    /\ Send([kind |-> "tutor", page |-> place.page, ready |-> place.ready,
             pending |-> place.pending, known |-> listed,
             todo |-> todo, turned |-> FALSE])
    /\ UNCHANGED <<place, listed, stored>>

Selected(call, quote) == call.pending # Nothing /\ call.pending.quote = quote

\* where the mark goes: the selection it repeats, or the layer of now
Spot(call, quote) ==
  IF Selected(call, quote) THEN call.pending.at
  ELSE IF Located(quote, place.layer) THEN place.layer ELSE Nothing

Same(call) == {a \in call.known : a.page = call.page /\ a.quote = Head(call.todo)}

ContinueTutor(i) ==
  IF Len(calls[i].todo) = 1 THEN Answered(i)
  ELSE calls' = [calls EXCEPT ![i].todo = Tail(@)]

\* not locatable: said in the answer, and on to the next mark
LocatableInAnyLayer(call) == Spot(call, Head(call.todo)) # Nothing
Locatable(call) == call.ready /\ Spot(call, Head(call.todo)) # Nothing

MarkRefused(i) ==
  LET call == calls[i]
  IN /\ call.kind = "tutor"
     /\ ~Locatable(call)
     /\ ContinueTutor(i)
     /\ UNCHANGED <<place, listed, stored>>

\* the request is written and the list updated, or the mark fails
MarkSaved(i) ==
  LET call == calls[i]
      quote == Head(call.todo)
      mark == NewMark([page |-> call.page, quote |-> quote, at |-> Spot(call, quote),
                       turned |-> call.turned /\ ~Selected(call, quote)], "tutor")
      noted(s) == {IF \E k \in Same(call) : k.id = a.id
                   THEN [a EXCEPT !.noted = TRUE] ELSE a : a \in s}
  IN /\ call.kind = "tutor" /\ Locatable(call)
     /\ \/ Same(call) = {} /\ Store(mark) /\ listed' = listed \cup {mark}
        \/ /\ Same(call) # {}
           /\ stored' = [stored EXCEPT !.items = noted(@)] /\ listed' = noted(listed)
        \/ UNCHANGED <<stored, listed>>
     /\ ContinueTutor(i)
     /\ UNCHANGED place

----------------------------------------------------------------------------
MarksNext ==
  \/ TurnPage \/ LayerReady \/ CaptureSelection \/ DiscardSelection
  \/ SaveHighlight \/ DeleteAnnotation \/ AskTutor
  \/ \E i \in DOMAIN calls :
       \/ HighlightSaved(i) \/ AnnotationDeleted(i) \/ ReadList(i) \/ ListArrives(i)
       \/ MarkRefused(i) \/ MarkSaved(i)

MarksSpec == MarksInit /\ [][MarksNext]_marksVars

----------------------------------------------------------------------------
Mark == [id : 1 .. MaxMarks, page : BookPages, quote : Quotes, at : BookPages,
         by : {"reader", "tutor"}, noted : BOOLEAN, turned : BOOLEAN]

(* Pages, marks and calls are well formed; ids are given once. *)
MarksTypeOK ==
  /\ place.page \in BookPages /\ place.layer \in BookPages \cup {Nothing}
  /\ listed \subseteq Mark /\ stored.items \subseteq Mark
  /\ \A a, b \in stored.items : a.id = b.id => a = b
  /\ Len(calls) <= MaxCalls

(* A mark lies, by its rectangles, on the page it is saved under: the reader's
   own, although the page may be turned before the save is asked, and the
   tutor's, although the layer may be that of another page when the question is
   asked, and although the page may be turned before the answer when the quote
   is the reader's selection.  Any other quote is looked up in the layer of
   then: a mark of the tutor may lie astray if the page was turned since the
   question. *)
MarksLieOnTheirPage == \A a \in stored.items : a.at = a.page \/ a.turned

(* When nothing is under way the list shows exactly what is stored, unless the
   list of the opening arrived after a mark was saved or deleted. *)
ListIsStored == calls = <<>> /\ ~place.late => listed = stored.items

=============================================================================
