---------------------------- MODULE StudyThreads ----------------------------
(***************************************************************************)
(* The conversation about a book: the chat panel, the questions it sends   *)
(* to the tutor, the conversations it keeps in the browser's storage.      *)
(*                                                                         *)
(* A question works with the messages of the render it was asked in (base) *)
(* and survives whatever the reader does to the conversation meanwhile:    *)
(* starting another, restoring one, forgetting it, closing the panel. What *)
(* a call of a closed panel would still show is dropped.                   *)
(***************************************************************************)
EXTENDS Naturals, Sequences, FiniteSets, SequencesExt

CONSTANTS KeptMessages,   \* 60 in the code
          RecentMessages, \* what the model is sent, 10 in the code
          KeptThreads,    \* 15 in the code
          MaxQuestions,   \* bound: questions asked
          MaxOpenings     \* bound: times the panel is opened

ThreadsAssumption ==
  {KeptMessages, RecentMessages, KeptThreads, MaxQuestions, MaxOpenings} \subseteq Nat \ {0}

VARIABLES chat,       \* the panel
          saved,      \* the browser's storage
          asks        \* questions whose call has not ended

threadsVars == <<chat, saved, asks>>

LastOf(s, n) == SubSeq(s, IF Len(s) > n THEN Len(s) - n + 1 ELSE 1, Len(s))
AllOf(s, n) == s
FirstOf(s, n) == SubSeq(s, 1, IF Len(s) > n THEN n ELSE Len(s))

Closed == [open |-> FALSE, life |-> 0, messages |-> <<>>, archived |-> <<>>,
           busy |-> FALSE, editing |-> 0, failed |-> 0, overviewed |-> FALSE, asked |-> 0]

ThreadsInit ==
  /\ chat = Closed
  /\ saved = [messages |-> <<>>, archived |-> <<>>, overview |-> FALSE]
  /\ asks = <<>>

\* the effects write what is shown to the storage
Show(new) ==
  /\ chat' = new
  /\ saved' = [saved EXCEPT !.messages = LastOf(new.messages, KeptMessages),
                            !.archived = FirstOf(new.archived, KeptThreads)]

----------------------------------------------------------------------------
(* The panel and the conversations. *)

OpenChat ==
  /\ ~chat.open /\ chat.life < MaxOpenings
  /\ chat' = [Closed EXCEPT !.open = TRUE, !.life = chat.life + 1, !.asked = chat.asked,
              !.messages = LastOf(saved.messages, KeptMessages),
              !.archived = FirstOf(saved.archived, KeptThreads)]
  /\ UNCHANGED <<saved, asks>>

CloseChat ==
  /\ chat.open
  /\ chat' = [chat EXCEPT !.open = FALSE]
  /\ UNCHANGED <<saved, asks>>

Fresh(messages, archived) ==
  [chat EXCEPT !.messages = messages, !.archived = FirstOf(archived, KeptThreads),
               !.failed = 0, !.editing = 0]

Snapshot == IF chat.messages = <<>> THEN <<>> ELSE <<LastOf(chat.messages, KeptMessages)>>

StartNewDiscussion ==
  /\ chat.open
  /\ Show(Fresh(<<>>, Snapshot \o chat.archived))
  /\ UNCHANGED asks

RestoreArchivedThread ==
  \E k \in DOMAIN chat.archived :
    /\ chat.open
    /\ Show(Fresh(chat.archived[k], Snapshot \o RemoveAt(chat.archived, k)))
    /\ UNCHANGED asks

ForgetCurrentDiscussion ==
  /\ chat.open /\ chat.messages # <<>>
  /\ Show(Fresh(<<>>, chat.archived))
  /\ UNCHANGED asks

DeleteArchivedThread ==
  \E k \in DOMAIN chat.archived :
    /\ chat.open
    /\ Show([chat EXCEPT !.archived = RemoveAt(chat.archived, k)])
    /\ UNCHANGED asks

ForgetArchivedThreads ==
  /\ chat.open /\ chat.archived # <<>>
  /\ Show([chat EXCEPT !.archived = <<>>])
  /\ UNCHANGED asks

EditPromptAt ==
  /\ chat.open /\ ~chat.busy
  /\ \/ \E i \in DOMAIN chat.messages :
          /\ chat.messages[i].by = "reader" /\ ~chat.messages[i].hidden
          /\ chat' = [chat EXCEPT !.editing = i]
     \/ chat.editing # 0 /\ chat' = [chat EXCEPT !.editing = 0]
  /\ UNCHANGED <<saved, asks>>

----------------------------------------------------------------------------
(* ask: a question in flight. `of` is the question that it repeats or that it
   is, `since` the prompt from which on the conversation is asked anew. *)

Question(path) ==
  [path |-> path, stage |-> "context", life |-> chat.life, base |-> chat.messages,
   q |-> chat.asked + 1, of |-> chat.asked + 1, since |-> chat.asked + 1,
   hidden |-> FALSE, variant |-> "", replace |-> 0, before |-> 0, retry |-> FALSE,
   history |-> <<>>]

Prompt(c) == [by |-> "reader", q |-> c.q, of |-> c.of, hidden |-> c.hidden,
              context |-> c.path = "tutor"]
Answer(c) == [by |-> "tutor", q |-> c.q, of |-> c.of, hidden |-> FALSE, context |-> FALSE]

\* the conversation with the prompt, as the render of the question had it
NextMessages(c) ==
  IF c.retry THEN c.base
  ELSE Append(IF c.replace > 0 THEN SubSeq(c.base, 1, c.replace - 1) ELSE c.base, Prompt(c))

\* the turns before the prompt that the model is sent
HistoryForModel(c) ==
  IF c.retry /\ c.base = <<>> THEN <<>>
  ELSE Front(LastOf(IF c.before > 0
                    THEN Append(SubSeq(c.base, 1, c.before - 1), Last(NextMessages(c)))
                    ELSE NextMessages(c), RecentMessages))

Sent(c) == [c EXCEPT !.stage = "model", !.history = HistoryForModel(c)]
Live(c) == chat.open /\ c.life = chat.life

\* a question with its own context is sent at once, the others read the document first
Ask(c, now) ==
  /\ chat.open /\ ~chat.busy /\ chat.asked < MaxQuestions
  /\ LET begun == [chat EXCEPT !.busy = TRUE, !.asked = @ + 1,
                               !.overviewed = @ \/ c.variant = "overview"]
     IN IF now
        THEN /\ asks' = Append(asks, Sent(c))
             /\ Show([begun EXCEPT !.messages = NextMessages(c), !.editing = 0])
        ELSE /\ asks' = Append(asks, c)
             /\ chat' = begun /\ UNCHANGED saved

\* a new question, or the edited prompt in the place of the old
SubmitQuestion ==
  IF chat.editing = 0 THEN Ask(Question("tutor"), FALSE)
  ELSE Ask([Question("tutor") EXCEPT !.replace = chat.editing,
                                     !.since = chat.messages[chat.editing].q], FALSE)

\* "highlight this", "quote this": saved without the model
AskDirectly ==
  /\ chat.editing = 0
  /\ Ask(Question("direct"), FALSE)

\* no usable model: the selected passage is saved as it is
AskWithoutModel == Ask(Question("passage"), FALSE)

RetryFailed ==
  /\ chat.failed # 0
  /\ Ask([Question("tutor") EXCEPT !.retry = TRUE, !.of = chat.failed], FALSE)

AutoOverview ==
  /\ chat.messages = <<>> /\ ~chat.overviewed /\ ~saved.overview
  /\ Ask([Question("tutor") EXCEPT !.variant = "overview"], FALSE)

PromptsBefore(i, visible) ==
  {k \in 1 .. i - 1 : chat.messages[k].by = "reader" /\ (visible => ~chat.messages[k].hidden)}
PromptBefore(i, visible) == CHOOSE k \in PromptsBefore(i, visible) :
                              \A j \in PromptsBefore(i, visible) : j <= k

Answers == {i \in DOMAIN chat.messages : chat.messages[i].by = "tutor"}

Regenerate ==
  \E i \in Answers :
    /\ PromptsBefore(i, TRUE) # {}
    /\ LET k == PromptBefore(i, FALSE)
       IN Ask([Question("tutor") EXCEPT !.replace = k, !.hidden = chat.messages[k].hidden,
                                        !.of = chat.messages[k].of, !.since = chat.messages[k].q],
              FALSE)

\* another model on the same prompt, or the same answer reworked: both hidden
AskAgainHidden ==
  \E i \in Answers, variant \in {"alternate", "reworked"} :
    LET visible == variant = "reworked"
        k == PromptBefore(i, visible)
    IN /\ PromptsBefore(i, visible) # {}
       /\ Ask([Question("tutor") EXCEPT !.before = k, !.hidden = TRUE, !.variant = variant,
                                        !.of = chat.messages[k].of, !.since = chat.messages[k].q],
              chat.messages[k].context)

----------------------------------------------------------------------------
(* The calls of a question, one after another. *)

\* the whole document was read, or could not be: on to the model
ContextRead(i) ==
  LET c == asks[i]
  IN /\ c.path = "tutor" /\ c.stage = "context"
     /\ asks' = [asks EXCEPT ![i] = Sent(c)]
     /\ IF Live(c)
        THEN Show([chat EXCEPT !.messages = IF c.retry THEN @ ELSE NextMessages(c),
                               !.editing = 0])
        ELSE UNCHANGED <<chat, saved>>

\* the end of a question: what it shows, if its panel is still there
EndAsk(i, new) ==
  /\ asks' = RemoveAt(asks, i)
  /\ IF Live(asks[i]) THEN Show([new EXCEPT !.busy = FALSE]) ELSE UNCHANGED <<chat, saved>>

\* the confirmation goes behind the messages of the question's render
DirectlySaved(i) ==
  LET c == asks[i]
  IN /\ c.path = "direct"
     /\ EndAsk(i, [chat EXCEPT !.messages = Append(NextMessages(c), Answer(c)),
                               !.failed = 0, !.editing = 0])

PassageSaved(i) ==
  LET c == asks[i]
  IN /\ c.path = "passage"
     /\ EndAsk(i, [chat EXCEPT !.messages = @ \o <<Prompt(c), Answer(c)>>, !.failed = 0])

\* an answer; or thinking without one, which can be retried
Answered(i, complete) ==
  LET c == asks[i]
  IN /\ c.stage = "model" /\ (complete => c.variant # "overview")
     /\ EndAsk(i, [chat EXCEPT !.messages = Append(@, Answer(c)),
                               !.failed = IF complete THEN 0 ELSE c.of])

\* an error: the selected passage is saved instead, or the prompt can be retried
AskFailed(i) ==
  LET c == asks[i]
  IN /\ c.stage = "model"
     /\ \/ EndAsk(i, [chat EXCEPT !.messages = Append(@, Answer(c)), !.failed = 0])
        \/ EndAsk(i, [chat EXCEPT !.failed = c.of])

\* an overview that was answered is not asked for again
OverviewShown(i) ==
  LET c == asks[i]
  IN /\ c.stage = "model" /\ c.variant = "overview"
     /\ asks' = RemoveAt(asks, i)
     /\ saved' = [saved EXCEPT !.overview = TRUE,
                   !.messages = IF Live(c) THEN LastOf(Append(chat.messages, Answer(c)), KeptMessages) ELSE @]
     /\ chat' = IF Live(c) THEN [chat EXCEPT !.messages = Append(@, Answer(c)), !.failed = 0,
                                             !.busy = FALSE] ELSE chat

----------------------------------------------------------------------------
Asking == \/ SubmitQuestion \/ AskDirectly \/ AskWithoutModel \/ RetryFailed
          \/ AutoOverview \/ Regenerate \/ AskAgainHidden

ThreadsNext ==
  \/ OpenChat \/ CloseChat \/ StartNewDiscussion \/ RestoreArchivedThread
  \/ ForgetCurrentDiscussion \/ DeleteArchivedThread \/ ForgetArchivedThreads
  \/ EditPromptAt \/ Asking
  \/ \E i \in DOMAIN asks :
       \/ ContextRead(i) \/ DirectlySaved(i) \/ PassageSaved(i)
       \/ Answered(i, TRUE) \/ Answered(i, FALSE) \/ AskFailed(i)
       \/ OverviewShown(i)

ThreadsSpec == ThreadsInit /\ [][ThreadsNext]_threadsVars

----------------------------------------------------------------------------
Message == [by : {"reader", "tutor"}, q : 1 .. MaxQuestions, of : 1 .. MaxQuestions,
            hidden : BOOLEAN, context : BOOLEAN]

(* Messages are of questions that were asked; the archive is bounded. *)
ThreadsTypeOK ==
  /\ ToSet(chat.messages) \cup ToSet(saved.messages) \subseteq Message
  /\ Len(chat.archived) <= KeptThreads /\ Len(saved.messages) <= KeptMessages
  /\ chat.editing \in 0 .. Len(chat.messages) /\ chat.failed \in 0 .. MaxQuestions

(* The panel says that the tutor is working exactly while a question of this
   opening of the panel is under way, so it neither hangs nor takes a second. *)
BusyIsOneQuestion ==
  chat.open => Cardinality({i \in DOMAIN asks : Live(asks[i])}) = (IF chat.busy THEN 1 ELSE 0)

(* A prompt that is edited or asked again goes to the model without the turns
   that it replaces, whatever happened to the conversation since. *)
ReplacedTurnsAreNotSent ==
  \A i \in DOMAIN asks : ~asks[i].retry =>
    \A m \in ToSet(asks[i].history) : m.q < asks[i].since

=============================================================================
