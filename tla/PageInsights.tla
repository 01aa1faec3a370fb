---------------------------- MODULE PageInsights ----------------------------
(***************************************************************************)
(* The companion in the margin: the note that the model writes about the   *)
(* page that is read, and the history of the pages that were read.         *)
(*                                                                         *)
(* A note is asked for with the text of a page and stored under that page; *)
(* meanwhile the reader turns pages or opens the book again. A phrase is   *)
(* the set of the pages on which it occurs exactly once.                   *)
(***************************************************************************)
EXTENDS Naturals, Sequences, FiniteSets, SequencesExt

CONSTANTS BookPages,   \* a set of numbers from 1 on
          TextPages,   \* those with selectable text
          Phrases,     \* sets of pages
          KeptPages,   \* of the history, 16 in the code
          MaxOpenings, \* bound: times the book is opened
          MaxNotes,    \* bound: notes asked for
          Nothing

InsightsAssumption ==
  /\ BookPages \subseteq Nat \ {0} /\ TextPages \subseteq BookPages
  /\ Phrases \subseteq SUBSET TextPages
  /\ {KeptPages, MaxOpenings, MaxNotes} \subseteq Nat \ {0}
  /\ Nothing \notin BookPages

VARIABLES margin,    \* the companion of the open book
          noted,     \* the browser's storage: a note for each page
          visited,   \* and the pages that were read, with their text
          noteCalls  \* notes that the model works on

insightsVars == <<margin, noted, visited, noteCalls>>

\* what a sequence has at some places, in its order
Place(I, k) == CHOOSE i \in I : Cardinality({j \in I : j <= i}) = k
Picked(s, I) == [k \in 1 .. Cardinality(I) |-> s[Place(I, k)]]

LastOf(s, n) == SubSeq(s, IF Len(s) > n THEN Len(s) - n + 1 ELSE 1, Len(s))

InsightsInit ==
  /\ \E p \in BookPages :
       margin = [life |-> 1, page |-> p, text |-> Nothing, note |-> Nothing, busy |-> FALSE,
                 tried |-> Nothing, wrong |-> {}, asked |-> 0]
  /\ noted = [p \in BookPages |-> Nothing]
  /\ visited = <<>> /\ noteCalls = <<>>

\* the phrases of a note that occur exactly once in a text
Verified(marks, text) == {m \in marks : text \in m}

----------------------------------------------------------------------------
(* Reading. *)

\* a page is remembered once, as the latest
Remember(page, text) ==
  visited' = IF text = Nothing THEN visited
             ELSE LastOf(Append(Picked(visited, {i \in DOMAIN visited : visited[i].page # page}),
                                [page |-> page, text |-> text]), KeptPages)

\* the companion's effects run before the reader's, which clears the text
TurnPage ==
  \E p \in BookPages \ {margin.page} :
    /\ Remember(p, margin.text)
    /\ margin' = [margin EXCEPT !.page = p, !.text = Nothing, !.note = noted[p]]
    /\ UNCHANGED <<noted, noteCalls>>

\* the text of the page is extracted; a page without any stays as it is
TextArrives ==
  /\ margin.text = Nothing /\ margin.page \in TextPages
  /\ Remember(margin.page, margin.page)
  /\ margin' = [margin EXCEPT !.text = margin.page]
  /\ UNCHANGED <<noted, noteCalls>>

OpenBook ==
  \E p \in BookPages :
    /\ margin.life < MaxOpenings
    /\ margin' = [life |-> margin.life + 1, page |-> p, text |-> Nothing, note |-> noted[p],
                  busy |-> FALSE, tried |-> Nothing, wrong |-> {}, asked |-> margin.asked]
    /\ UNCHANGED <<noted, visited, noteCalls>>

----------------------------------------------------------------------------
(* generatePageInsight *)

Ask ==
  /\ margin.asked < MaxNotes
  /\ margin' = [margin EXCEPT !.busy = TRUE, !.asked = @ + 1,
                              !.tried = <<margin.page, margin.text>>]
  /\ noteCalls' = Append(noteCalls, [life |-> margin.life, page |-> margin.page,
                                     text |-> margin.text, stage |-> "first",
                                     marks |-> {}, safe |-> {}])
  /\ UNCHANGED <<noted, visited>>

\* on its own: a stored note is shown, and what failed is not asked again at once
AskOnItsOwn ==
  /\ margin.text # Nothing /\ ~margin.busy
  /\ IF noted[margin.page] # Nothing
     THEN /\ margin' = [margin EXCEPT !.note = noted[margin.page]]
          /\ UNCHANGED <<noted, visited, noteCalls>>
     ELSE margin.tried # <<margin.page, margin.text>> /\ Ask

AskAgain == margin.text # Nothing /\ ~margin.busy /\ Ask

Live(c) == c.life = margin.life
Ended(c) == IF Live(c) THEN [margin EXCEPT !.busy = FALSE] ELSE margin
IsActive(c) == Live(c) /\ c.page = margin.page

\* stored for its page, shown if the page is still read
Finish(i, marks) ==
  LET c == noteCalls[i]
      note == [page |-> c.page, text |-> c.text, marks |-> marks]
  IN /\ noteCalls' = RemoveAt(noteCalls, i)
     /\ noted' = [noted EXCEPT ![c.page] = note]
     /\ margin' = [Ended(c) EXCEPT !.note = IF IsActive(c) THEN note ELSE @,
                                   !.wrong = IF Live(c) THEN @ \ {c.page} ELSE @]
     /\ UNCHANGED visited

\* a note without a mark gets its topic as one, if that is a phrase of the page
FinishWithTopic(i, marks) ==
  IF marks # {} THEN Finish(i, marks)
  ELSE \E topic \in {{}} \cup {{m} : m \in Verified(Phrases, noteCalls[i].text)} : Finish(i, topic)

\* a note in the wrong form, or without a phrase of the page, is asked for once more
NoteAnswers(i) ==
  \E marks \in SUBSET Phrases, inForm \in BOOLEAN :
    LET c == noteCalls[i]
        safe == Verified(marks, c.text)
    IN /\ c.stage = "first"
       /\ IF inForm /\ safe # {} THEN FinishWithTopic(i, safe)
          ELSE /\ noteCalls' = [noteCalls EXCEPT ![i].stage = "correction",
                                                 ![i].marks = marks, ![i].safe = safe]
               /\ UNCHANGED <<margin, noted, visited>>

\* the phrases of the second answer, else those of the first; failed, the first stays
CorrectionAnswers(i) ==
  LET c == noteCalls[i]
  IN /\ c.stage = "correction"
     /\ \/ \E marks \in SUBSET Phrases :
             FinishWithTopic(i, IF Verified(marks, c.text) # {} THEN Verified(marks, c.text)
                                ELSE c.safe)
        \/ FinishWithTopic(i, c.marks)

NoteFails(i) ==
  LET c == noteCalls[i]
  IN /\ c.stage = "first"
     /\ noteCalls' = RemoveAt(noteCalls, i)
     /\ margin' = [Ended(c) EXCEPT !.wrong = IF Live(c) THEN @ \cup {c.page} ELSE @]
     /\ UNCHANGED <<noted, visited>>

InsightsNext ==
  \/ TurnPage \/ TextArrives \/ OpenBook \/ AskOnItsOwn \/ AskAgain
  \/ \E i \in DOMAIN noteCalls : NoteAnswers(i) \/ CorrectionAnswers(i) \/ NoteFails(i)

InsightsSpec == InsightsInit /\ [][InsightsNext]_insightsVars

----------------------------------------------------------------------------
Note == [page : BookPages, text : TextPages, marks : SUBSET Phrases]

(* The reader's page, what is stored and what is asked for are of the book. *)
InsightsTypeOK ==
  /\ margin.page \in BookPages /\ margin.text \in TextPages \cup {Nothing}
  /\ margin.note \in Note \cup {Nothing} /\ margin.wrong \subseteq BookPages
  /\ noted \in [BookPages -> Note \cup {Nothing}] /\ Len(visited) <= KeptPages

(* A note lies at the page whose text it was written from, in the storage and
   in the margin, though pages are turned while the model writes it; and the
   companion of an open book works on at most one. *)
NotesLieAtTheirPage ==
  /\ \A p \in BookPages : noted[p] # Nothing => noted[p].page = p /\ noted[p].text = p
  /\ margin.note # Nothing => margin.note.page = margin.page
  /\ margin.busy <=> \E i \in DOMAIN noteCalls : Live(noteCalls[i])
  /\ \A i, j \in DOMAIN noteCalls : Live(noteCalls[i]) /\ Live(noteCalls[j]) => i = j

=============================================================================
