---------------------------- MODULE CommandForms ----------------------------
(***************************************************************************)
(* The dialog in which the web client runs a command of the protocol: its  *)
(* form, whose choices are read from the server for the repository chosen, *)
(* its submission, which a batch passes in two steps, and the report of a  *)
(* batch, from which the failed lines may be tried again.                  *)
(*                                                                         *)
(* The dialog may be closed at any time, also while a call runs, and the   *)
(* next command opens in the same component.                               *)
(***************************************************************************)
EXTENDS Naturals, FiniteSets

CONSTANTS Batches, Singles, \* commands that create one item of each line, and those that create one
          Repositories,
          MaxOpenings, \* bound: openings of the dialog
          MaxTyped,    \* bound: times that lines are typed
          MaxFetches,  \* bound: readings of choices on their way when a repository is chosen
          Nothing

Commands == Batches \cup Singles

VARIABLES dialog,     \* the command that is open, its form, preview and report
          options,    \* the branches offered, by their repository, and whether they are being read
          fetches,    \* readings of choices on their way
          submitting, \* the ref that keeps a second submission out
          calls,      \* commands on their way
          created,    \* what the server created, by which command
          past        \* openings and typings so far; faults; what was created again

formVars == <<dialog, options, fetches, submitting, calls, created, past>>

NoOptions == [of |-> Nothing, loading |-> FALSE]
NewForm(c) == [command |-> c, repository |-> Nothing, branch |-> Nothing, lines |-> {},
               preview |-> FALSE, result |-> Nothing]
IsOpen == dialog # Nothing
Item == [of : Commands, typed : 1 .. MaxTyped, line : 1 .. 2]
Form == [command : Commands, repository : Repositories \cup {Nothing}, branch : Repositories \cup {Nothing},
         lines : SUBSET Item, preview : BOOLEAN, result : (SUBSET Item) \cup {Nothing}]

FormsAssumption ==
  /\ Batches \cap Singles = {} /\ {MaxOpenings, MaxTyped, MaxFetches} \subseteq Nat
  /\ Nothing \notin Form /\ (\A lines \in SUBSET Item : lines # Nothing)

FormsInit ==
  /\ dialog = Nothing /\ options = NoOptions /\ fetches = {}
  /\ submitting = FALSE /\ calls = {} /\ created = {}
  /\ past = [openings |-> 0, typed |-> 0, again |-> {}, lost |-> FALSE, crossed |-> FALSE]

----------------------------------------------------------------------------
(* The form. *)

\* a new reading of the choices puts the ones before it out of force
Abandoned == {[f EXCEPT !.active = FALSE] : f \in fetches}

ReadsChoices(r) ==
  /\ options' = [of |-> Nothing, loading |-> TRUE]
  /\ fetches' = Abandoned \cup {[repository |-> r, active |-> TRUE]}

RunQuickCreate(c) ==
  /\ ~IsOpen /\ past.openings < MaxOpenings
  /\ dialog' = NewForm(c)
  /\ IF c \in Singles THEN ReadsChoices(Nothing) ELSE options' = NoOptions /\ UNCHANGED fetches
  /\ past' = [past EXCEPT !.openings = @ + 1]
  /\ UNCHANGED <<submitting, calls, created>>

\* closed during a call, the dialog is no longer the one that its answer is for
Closes ==
  /\ dialog' = Nothing
  /\ fetches' = Abandoned
  /\ UNCHANGED options

CloseDialog ==
  /\ IsOpen /\ Closes
  /\ past' = [past EXCEPT !.crossed = @ \/ submitting]
  /\ UNCHANGED <<submitting, calls, created>>

\* the branch that was chosen stays in the form
ChooseRepository(r) ==
  /\ IsOpen /\ dialog.command \in Singles /\ dialog.repository # r
  /\ Cardinality(fetches) < MaxFetches
  /\ dialog' = [dialog EXCEPT !.repository = r]
  /\ ReadsChoices(r)
  /\ UNCHANGED <<submitting, calls, created, past>>

\* without a repository there is no choice
ChoicesArrive(f) ==
  /\ fetches' = fetches \ {f}
  /\ IF f.active THEN options' \in {[of |-> f.repository, loading |-> FALSE], NoOptions}
     ELSE UNCHANGED options
  /\ UNCHANGED <<dialog, submitting, calls, created, past>>

ChooseBranch ==
  /\ IsOpen /\ dialog.command \in Singles /\ options.of # Nothing
  /\ dialog' = [dialog EXCEPT !.branch = options.of]
  /\ UNCHANGED <<options, fetches, submitting, calls, created, past>>

Type ==
  /\ IsOpen /\ ~dialog.preview /\ dialog.result = Nothing /\ past.typed < MaxTyped
  /\ dialog' = [dialog EXCEPT !.lines = {[of |-> dialog.command, typed |-> past.typed + 1, line |-> i] :
                                         i \in IF dialog.command \in Batches THEN 1..2 ELSE {1}}]
  /\ past' = [past EXCEPT !.typed = @ + 1]
  /\ UNCHANGED <<options, fetches, submitting, calls, created>>

BackToEdit ==
  /\ IsOpen /\ dialog.preview /\ dialog.result = Nothing
  /\ dialog' = [dialog EXCEPT !.preview = FALSE]
  /\ UNCHANGED <<options, fetches, submitting, calls, created, past>>

----------------------------------------------------------------------------
(* submit: a batch is reviewed first, and the button below a report closes.*)

MaySubmit == IsOpen /\ ~submitting /\ dialog.lines # {}
ToReview == dialog.command \in Batches /\ ~dialog.preview

Review ==
  /\ MaySubmit /\ ToReview
  /\ dialog' = [dialog EXCEPT !.preview = TRUE]
  /\ UNCHANGED <<options, fetches, submitting, calls, created, past>>

Finish ==
  /\ MaySubmit /\ ~ToReview /\ dialog.result # Nothing /\ Closes
  /\ UNCHANGED <<submitting, calls, created, past>>

ExecuteCommand ==
  /\ MaySubmit /\ ~ToReview /\ dialog.result = Nothing
  /\ submitting' = TRUE
  /\ calls' = calls \cup {[command |-> dialog.command, lines |-> dialog.lines, done |-> FALSE, refused |-> FALSE,
                           fits |-> dialog.branch \in {Nothing, dialog.repository}]}
  /\ UNCHANGED <<dialog, options, fetches, created, past>>

\* the server creates what it can; a branch of another repository it refuses
ServerRuns(c) ==
  /\ ~c.done
  /\ \E made \in SUBSET c.lines :
       /\ ~c.fits => made = {}
       /\ LET new == {[item |-> i, by |-> c.command] : i \in made}
          IN /\ created' = created \cup new
             /\ past' = [past EXCEPT !.again = @ \cup (new \cap created)]
       /\ calls' = (calls \ {c}) \cup
            {[c EXCEPT !.done = TRUE, !.lines = @ \ made, !.refused = c.command \in Singles /\ made = {}]}
  /\ UNCHANGED <<dialog, options, fetches, submitting>>

\* the report of a batch is shown, another command closes the dialog: whichever is open by now
Answers(c) ==
  /\ c.done
  /\ calls' = calls \ {c}
  /\ submitting' = FALSE
  /\ IF c.refused \/ ~IsOpen THEN UNCHANGED <<dialog, options, fetches>>
     ELSE IF c.command \in Singles THEN Closes
     ELSE dialog' = [dialog EXCEPT !.result = c.lines] /\ UNCHANGED <<options, fetches>>
  /\ UNCHANGED <<created, past>>

CallFails(c) ==
  /\ calls' = calls \ {c}
  /\ submitting' = FALSE
  /\ past' = [past EXCEPT !.lost = @ \/ c.done]
  /\ UNCHANGED <<dialog, options, fetches, created>>

RetryFailedItems ==
  /\ IsOpen /\ dialog.command \in Batches /\ dialog.result \notin {Nothing, {}}
  /\ dialog' = [dialog EXCEPT !.lines = dialog.result, !.result = Nothing, !.preview = FALSE]
  /\ UNCHANGED <<options, fetches, submitting, calls, created, past>>

FormsNext ==
  \/ \E c \in Commands : RunQuickCreate(c)
  \/ CloseDialog \/ \E r \in Repositories : ChooseRepository(r)
  \/ \E f \in fetches : ChoicesArrive(f)
  \/ ChooseBranch \/ Type \/ BackToEdit
  \/ Review \/ Finish \/ ExecuteCommand \/ RetryFailedItems
  \/ \E c \in calls : ServerRuns(c) \/ Answers(c) \/ CallFails(c)

FormsSpec == FormsInit /\ [][FormsNext]_formVars

----------------------------------------------------------------------------

FormsTypeOK ==
  /\ dialog \in Form \cup {Nothing}
  /\ options.of \in Repositories \cup {Nothing} /\ {options.loading, submitting} \subseteq BOOLEAN
  /\ \A c \in created : c.item \in Item /\ c.by \in Commands

(* The branches that a form offers belong to the repository chosen in it,    *)
(* whichever answer comes late; and while choices are said to be loading, a  *)
(* reading of them is on its way.                                            *)
ChoicesAreOwn ==
  IsOpen => /\ options.of \in {Nothing, dialog.repository}
            /\ options.loading <=> \E f \in fetches : f.active
            /\ options.loading => \E f \in fetches : f.active /\ f.repository = dialog.repository

(* What is typed is created once and by its own command, however often it is *)
(* submitted and the failed lines of a batch are tried again: unless the     *)
(* answer to a call was lost, or the dialog was closed during a call and its *)
(* report appeared in the dialog of the next command.                        *)
CreatedOnce ==
  ~past.lost /\ ~past.crossed => past.again = {} /\ \A c \in created : c.item.of = c.by

=============================================================================
