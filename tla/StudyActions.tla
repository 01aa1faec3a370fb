---------------------------- MODULE StudyActions ----------------------------
(***************************************************************************)
(* A request to change the book: "highlight this and write a note". What   *)
(* is written is the plan of the model's answer, repaired and completed by *)
(* the program, or the selected passage itself when there is no model; the *)
(* writes are made one after another and each can fail by itself.          *)
(***************************************************************************)
EXTENDS Naturals, Sequences, FiniteSets

CONSTANTS MaxRequests,   \* bound: requests made
          MaxPageMarks   \* marks of the page's note, 3 in the code

ActionsAssumption == {MaxRequests, MaxPageMarks} \subseteq Nat \ {0}

VARIABLES request,   \* the request under way
          written    \* the writes it has made, in their order

actionsVars == <<request, written>>

Kinds == {"highlight", "quote", "note"}
Act(kind, text) == [kind |-> kind, text |-> text]

\* What a sequence has at some places, in its order.
Place(I, k) == CHOOSE i \in I : Cardinality({j \in I : j <= i}) = k
Picked(s, I) == [k \in 1 .. Cardinality(I) |-> s[Place(I, k)]]

OfKinds(actions, kinds) == Picked(actions, {i \in DOMAIN actions : actions[i].kind \in kinds})
OfKind(actions, kind) == OfKinds(actions, {kind})
Without(actions, kind) == OfKinds(actions, Kinds \ {kind})
Has(actions, kind) == OfKind(actions, kind) # <<>>

Idle == [stage |-> "idle", made |-> 0, wishes |-> {}, selected |-> FALSE, short |-> FALSE,
         broad |-> FALSE, marks |-> 0, actions |-> <<>>,
         useful |-> FALSE, lines |-> {}]

ActionsInit == request = Idle /\ written = <<>>

----------------------------------------------------------------------------
(* The way of a request. *)

Passage(wishes) == OfKinds(<<Act("note", "selection"), Act("quote", "selection"),
                             Act("highlight", "selection")>>, wishes)

\* saved without the model: a short selected phrase, and nothing else asked
Direct(r, explain) ==
  /\ r.selected /\ ~explain
  /\ r.wishes = {"quote"} \/ (r.wishes = {"highlight"} /\ r.short)

\* what a prompt may ask for, page-wide or not: one of the kinds, or marks anywhere
Wishes == {w \in [kinds : SUBSET Kinds, broad : BOOLEAN] : w.kinds # {} \/ w.broad}

Submit ==
  \E wish \in Wishes, selected, short, explain, usable \in BOOLEAN, marks \in 0 .. MaxPageMarks :
    LET wishes == wish.kinds
        r == [Idle EXCEPT !.made = request.made + 1, !.wishes = wishes, !.selected = selected,
                          !.short = selected /\ short, !.broad = wish.broad,
                          !.marks = IF wish.broad THEN marks ELSE 0]
    IN /\ request.stage \in {"idle", "done", "failed"} /\ request.made < MaxRequests
       /\ written' = <<>>
       /\ request' = IF Direct(r, explain) THEN [r EXCEPT !.stage = "save", !.actions = Passage(wishes)]
                     ELSE IF usable THEN [r EXCEPT !.stage = "model"]
                     ELSE IF selected /\ wishes # {}
                          THEN [r EXCEPT !.stage = "save", !.actions = Passage(wishes)]
                     ELSE [r EXCEPT !.stage = "failed"]

\* what a plan may hold once its duplicates are removed
Plans == {OfKinds(<<Act("highlight", "model"), Act("note", "model"), Act("quote", "model")>>,
                  kinds) : kinds \in SUBSET Kinds}

\* an answer: the actions it names, and whether its visible text could be a note
Answers == [actions : Plans, useful : BOOLEAN]

\* a selected phrase needs no highlight action: it is the highlight
Missing(r, actions) ==
  {k \in r.wishes : ~Has(actions, k) /\ ~(k = "highlight" /\ r.selected)}

----------------------------------------------------------------------------
(* The plan that is executed. *)

\* the selection replaces the anchors and the quotations of the model
WithSelection(r, actions) ==
  LET marked == IF "highlight" \in r.wishes /\ r.short
                THEN Append(Without(actions, "highlight"), Act("highlight", "selection"))
                ELSE actions
  IN IF "quote" \in r.wishes /\ r.selected
     THEN Append(Without(marked, "quote"), Act("quote", "selection"))
     ELSE marked

\* the validated marks of the page's note, when the plan of a page-wide request has none
WithPageMarks(r, actions) ==
  IF ~r.selected /\ ~Has(actions, "highlight") /\ r.broad
     /\ r.wishes \cap {"highlight", "note"} # {}
  THEN actions \o [i \in 1 .. r.marks |-> Act("highlight", i)]
  ELSE actions

\* the visible answer, or the selection, is the note that the plan lacks
WithNote(r, actions) ==
  IF "note" \in r.wishes /\ ~Has(actions, "note") /\ (r.useful \/ r.selected)
  THEN Append(actions, Act("note", IF r.useful THEN "answer" ELSE "selection"))
  ELSE actions

Completed(r, actions) ==
  LET plan == WithNote(r, WithPageMarks(r, WithSelection(r, actions)))
  IN OfKind(plan, "highlight") \o OfKind(plan, "quote") \o OfKind(plan, "note")

NothingIsSaid(r, plan) == {}

\* the wishes for which there is nothing to write are said
NothingToWrite(r, plan) == {[kind |-> k, saved |-> FALSE] : k \in {w \in r.wishes : ~Has(plan, w)}}

Execute(r, actions) ==
  LET plan == Completed(r, actions)
  IN [r EXCEPT !.stage = IF plan = <<>> THEN "done" ELSE "save",
               !.broad = FALSE, !.marks = 0, !.useful = FALSE,
               !.actions = plan, !.lines = NothingToWrite(r, plan)]

ModelAnswers ==
  \E answer \in Answers :
    LET r == [request EXCEPT !.useful = answer.useful]
    IN /\ request.stage = "model"
       /\ request' = IF Missing(r, answer.actions) # {}
                     THEN [r EXCEPT !.stage = "repair", !.actions = answer.actions]
                     ELSE Execute(r, answer.actions)
       /\ UNCHANGED written

\* a second answer adds what it has, asked for or not; or it fails
RepairAnswers ==
  \E answer \in Answers :
    /\ request.stage = "repair"
    /\ request' = Execute(request, request.actions \o answer.actions)
    /\ UNCHANGED written

\* the passage itself is saved instead, or the prompt can be asked again
ModelFails ==
  /\ request.stage = "model"
  /\ request' = IF request.selected /\ request.wishes # {}
                THEN [request EXCEPT !.stage = "save", !.actions = Passage(request.wishes)]
                ELSE [request EXCEPT !.stage = "failed"]
  /\ UNCHANGED written

----------------------------------------------------------------------------
(* The writes. *)

\* written and answered; refused; or written and the answer lost
Write ==
  \E saved \in BOOLEAN, kept \in BOOLEAN :
    LET a == Head(request.actions)
    IN /\ request.stage = "save" /\ (saved => kept)
       /\ written' = IF kept THEN Append(written, a) ELSE written
       /\ request' = [request EXCEPT
                        !.lines = @ \cup {[kind |-> a.kind, saved |-> saved]},
                        !.actions = Tail(@),
                        !.stage = IF Len(request.actions) = 1 THEN "done" ELSE "save"]

ActionsNext == Submit \/ ModelAnswers \/ RepairAnswers \/ ModelFails \/ Write

ActionsSpec == ActionsInit /\ [][ActionsNext]_actionsVars

----------------------------------------------------------------------------
(* A request is at one of its stages with writes left exactly while it saves. *)
ActionsTypeOK ==
  /\ request.stage \in {"idle", "model", "repair", "save", "done", "failed"}
  /\ request.wishes \subseteq Kinds /\ request.made <= MaxRequests
  /\ (request.stage = "save") = (request.actions # <<>> /\ request.stage # "repair")

(* Whatever the model answers and whichever write fails, the confirmation says
   of every kind of change that was asked for what became of it. *)
EveryWishIsReported ==
  request.stage = "done" =>
    \A k \in request.wishes : \E line \in request.lines : line.kind = k

(* What the confirmation claims was saved was written, and what was written is
   not passed over. *)
ReportIsTrue ==
  /\ \A line \in request.lines : line.saved => Has(written, line.kind)
  /\ \A i \in DOMAIN written : \E line \in request.lines : line.kind = written[i].kind

(* The phrase the reader selected is authoritative: the highlights and the
   quotations of the request are that phrase, once. *)
SelectionIsAuthoritative ==
  \A k \in {"highlight", "quote"} :
    k \in request.wishes /\ (IF k = "highlight" THEN request.short ELSE request.selected) =>
      OfKind(written, k) \in {<<>>, <<Act(k, "selection")>>}

=============================================================================
