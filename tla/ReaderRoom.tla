----------------------------- MODULE ReaderRoom -----------------------------
(***************************************************************************)
(* The page around the PDF reader: the model that translates, which the    *)
(* browser's storage shares with the study assistant and which may still   *)
(* hold the connection of an older version; and the entry of the browser's *)
(* history that keeps the reader on the page during a focus session.       *)
(*                                                                         *)
(* The tool above the book only searches the web: nothing opens its        *)
(* translation, so it changes no state that another part reads.            *)
(***************************************************************************)
EXTENDS Naturals, Sequences, FiniteSets

CONSTANTS Models,     \* of the runtime
          MaxVisits,  \* bound: times the page is opened
          MaxEntries, \* bound: entries of the history
          Nothing

RoomAssumption == {MaxVisits, MaxEntries} \subseteq Nat \ {0}

VARIABLES choice, \* the models that are offered, and the one that is chosen
          shared, \* the storage: its model and connection, and what was set aside of it
          trail   \* the history of the browser

roomVars == <<choice, shared, trail>>

NewChoice(visit) == [visit |-> visit, loading |-> TRUE, offered |-> {}, model |-> shared.model,
                     book |-> FALSE]
NoGuard == [focused |-> FALSE, guard |-> FALSE, entries |-> 0, backs |-> 0]

RoomInit ==
  /\ shared \in [model : Models \cup {Nothing}, connection : BOOLEAN, aside : {FALSE}]
  /\ choice = NewChoice(1) /\ trail = NoGuard

----------------------------------------------------------------------------
(* The model. *)

\* the stored choice, else the configured one, else the only one
Selected(offered, configured) ==
  LET initial == IF shared.model # Nothing THEN shared.model ELSE configured
  IN IF initial \in offered THEN initial
     ELSE IF initial = Nothing /\ Cardinality(offered) = 1 THEN CHOOSE m \in offered : TRUE
     ELSE Nothing

\* a selection that was not stored is stored alone
Remembered(model) == IF model \in {Nothing, shared.model} THEN shared
                     ELSE [shared EXCEPT !.model = model, !.connection = FALSE]

ModelsAnswered ==
  /\ choice.loading
  /\ \/ \E offered \in SUBSET Models, configured \in Models \cup {Nothing} :
          LET model == Selected(offered, configured)
          IN /\ choice' = [choice EXCEPT !.loading = FALSE, !.offered = offered, !.model = model]
             /\ shared' = Remembered(model)
     \/ choice' = [choice EXCEPT !.loading = FALSE] /\ UNCHANGED shared
  /\ UNCHANGED trail

ChangeModel ==
  \E model \in choice.offered \cup {Nothing} :
    /\ choice.book /\ ~choice.loading /\ choice.offered # {}
    /\ choice' = [choice EXCEPT !.model = model]
    /\ shared' = [shared EXCEPT !.model = model, !.connection = FALSE]
    /\ UNCHANGED trail

\* the book is there; with it the assistant, which sets an old connection aside
BookOpens ==
  /\ ~choice.book
  /\ choice' = [choice EXCEPT !.book = TRUE]
  /\ shared' = [shared EXCEPT !.aside = @ \/ shared.connection, !.connection = FALSE]
  /\ UNCHANGED trail

\* the assistant's own choice goes to the storage only
AssistantChooses ==
  \E model \in Models :
    /\ choice.book
    /\ shared' = [shared EXCEPT !.model = model, !.connection = FALSE]
    /\ UNCHANGED <<choice, trail>>

\* the page is left, which needs the end of a focus session, and opened again
Visit ==
  /\ choice.visit < MaxVisits /\ ~trail.focused
  /\ choice' = NewChoice(choice.visit + 1)
  /\ trail' = [trail EXCEPT !.guard = FALSE]
  /\ UNCHANGED shared

----------------------------------------------------------------------------
(* The history: one more entry of the same address guards the page. *)

EnterFocus ==
  /\ choice.book /\ ~trail.focused /\ trail.entries < MaxEntries
  /\ trail' = [trail EXCEPT !.focused = TRUE, !.guard = TRUE,
                            !.entries = IF trail.guard THEN @ ELSE @ + 1]
  /\ UNCHANGED <<choice, shared>>

\* the entry is removed again, by a step back that the browser makes later
LeaveFocus ==
  /\ trail.focused
  /\ trail' = [trail EXCEPT !.focused = FALSE, !.guard = FALSE, !.backs = IF trail.guard THEN @ + 1 ELSE @]
  /\ UNCHANGED <<choice, shared>>

\* the reader goes back
PressBack ==
  /\ trail.focused /\ trail.entries > 0 /\ trail.backs = 0
  /\ trail' = [trail EXCEPT !.backs = 1]
  /\ UNCHANGED <<choice, shared>>

\* the browser goes back; during a session the guard is put there again
Back ==
  /\ trail.backs > 0 /\ trail.entries > 0
  /\ trail' = [trail EXCEPT !.backs = @ - 1, !.entries = IF trail.guard THEN @ ELSE @ - 1]
  /\ UNCHANGED <<choice, shared>>

RoomNext ==
  \/ ModelsAnswered \/ ChangeModel \/ BookOpens \/ AssistantChooses \/ Visit
  \/ EnterFocus \/ LeaveFocus \/ PressBack \/ Back

RoomSpec == RoomInit /\ [][RoomNext]_roomVars

----------------------------------------------------------------------------
RoomTypeOK ==
  /\ choice.model \in Models \cup {Nothing} /\ shared.model \in Models \cup {Nothing}
  /\ trail.entries \in 0 .. MaxEntries /\ trail.backs \in Nat

(* A choice that is stored is replaced by a choice of the reader only: that a
   model is not offered at the moment does not forget it. *)
ChoiceStep ==
  shared.model # Nothing /\ shared'.model # shared.model => ChangeModel \/ AssistantChooses
StoredChoiceSurvives == [][ChoiceStep]_roomVars

(* During a focus session the page cannot be left with the browser's button:
   there is an entry to go back to without leaving. *)
GuardStays == trail.focused => trail.entries > 0

=============================================================================
