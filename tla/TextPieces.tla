----------------------------- MODULE TextPieces -----------------------------
(***************************************************************************)
(* How the reader's texts are cut and put together again: a page is split  *)
(* into pieces that are translated one by one and merged, the answer of a  *)
(* model is shown while it arrives and checked against the page it claims  *)
(* to translate, and a request to the study assistant is cut to what the   *)
(* AI runtime accepts.  Each runs by itself, a step for each piece.        *)
(*                                                                         *)
(* A text is a sequence of characters, named for what they mean here:      *)
(* "a" a letter, "w" a letter of two bytes, "." the end of a sentence, " " *)
(* a space and "n" the end of a line.                                      *)
(***************************************************************************)
EXTENDS Naturals, FiniteSets, FiniteSetsExt, Sequences, SequencesExt

CONSTANTS Limit,        \* longest piece of a page, at least 350 in the code
          HexDigits,    \* digits of an escaped character
          MaxBytes,     \* longest message to the runtime
          Total,        \* longest request to the runtime
          KeptMessages, \* earlier messages of a request
          MaxText,      \* bound: characters of a text
          MaxAnswer,    \* bound: characters of an answer that is shown while it arrives
          MaxSegments,  \* bound: segments of an answer
          Nothing

PiecesAssumption ==
  /\ {Limit, HexDigits, MaxBytes, KeptMessages} \subseteq Nat \ {0} /\ Limit > 1 /\ MaxBytes > 1
  /\ {Total, MaxText, MaxAnswer, MaxSegments} \subseteq Nat

VARIABLES kind,  \* what is done
          input, \* the text, and what else it is done with
          work   \* how far it is done

pieceVars == <<kind, input, work>>

White == {" ", "n"}
Texts(letters, n) == UNION {[1..k -> letters] : k \in 0..n}
Pages == {t \in Texts({"a", ".", " ", "n"}, MaxText) : t # <<>> => {t[1], t[Len(t)]} \cap White = {}}
Segments == UNION {[1..k -> Texts({"a", "w"}, 2) \ {<<>>}] : k \in 1..MaxSegments}

\* a page is trimmed before it is split; of the messages of a request the size counts, 0 a blank one
PiecesInit ==
  \/ /\ kind = "split" /\ input \in Pages
     /\ work = [start |-> 0, pieces |-> <<>>, merged |-> <<>>, next |-> 1, kept |-> <<>>]
  \/ kind = "preview" /\ input = <<>> /\ work = <<>>
  \/ /\ kind \in {"raw", "parsed"}
     /\ input \in [source : Texts({"a", "w"}, MaxText \div 2 + 1) \ {<<>>}, segments : Segments]
     /\ work = [next |-> 1, cursor |-> 1, covered |-> 0, verdict |-> Nothing]
  \/ kind = "bytes" /\ input \in Texts({"a", "w", "n"}, MaxText) /\ work = [done |-> 0, pieces |-> <<>>]
  \/ /\ kind = "fit" /\ input \in [used : 0..Total, sizes : Texts(0..3, 4)]
     /\ work = [index |-> Len(input.sizes), used |-> input.used, kept |-> <<>>]

----------------------------------------------------------------------------
(* splitReaderTranslationText: the last end of a sentence in the second    *)
(* half of the limit, or else the last space there, or else the limit.     *)

Half == (55 * Limit) \div 100
Window == work.start + Half .. work.start + Limit
Stops(characters) == {i \in Window : input[i] \in characters}

Boundary ==
  IF Stops({".", "n"}) # {} THEN Max(Stops({".", "n"}))
  ELSE IF Stops(White) # {} THEN Max(Stops(White))
  ELSE work.start + Limit

\* the first and the last character of a stretch that are not white
Trimmed(from, to) ==
  LET inner == {i \in from..to : input[i] \notin White} IN [from |-> Min(inner), to |-> Max(inner)]

Behind(i) == IF \E j \in i + 1 .. Len(input) : input[j] \notin White
             THEN Min({j \in i + 1 .. Len(input) : input[j] \notin White}) - 1 ELSE Len(input)

Split ==
  /\ kind = "split" /\ work.start < Len(input)
  /\ LET last == Len(input) - work.start <= Limit
         to == IF last THEN Len(input) ELSE Boundary
     IN work' = [work EXCEPT !.pieces = Append(@, Trimmed(work.start + 1, to)), !.start = Behind(to)]
  /\ UNCHANGED <<kind, input>>

----------------------------------------------------------------------------
(* mergeReaderTranslations, here of pieces that stand for themselves: one  *)
(* without a translation is left out, and the strongest break between two  *)
(* that are not is kept.  What is merged is a character and the place that *)
(* it comes from, 0 for one that is added.                                 *)

Piece(k) == [i \in 1 .. work.pieces[k].to - work.pieces[k].from + 1 |->
               [at |-> work.pieces[k].from + i - 1, is |-> input[work.pieces[k].from + i - 1]]]

Added(c) == [at |-> 0, is |-> c]

\* 2 for a paragraph, 1 for a line
Break(k) ==
  Min({2, Cardinality({i \in work.pieces[k].to + 1 .. work.pieces[k + 1].from - 1 : input[i] = "n"})})

Separator ==
  IF work.kept = <<>> THEN <<>>
  ELSE LET breaks == {Break(k) : k \in Last(work.kept) .. work.next - 1}
       IN IF 2 \in breaks THEN <<Added("n"), Added("n")>>
          ELSE IF 1 \in breaks THEN <<Added("n")>> ELSE <<Added(" ")>>

Merge ==
  /\ kind = "split" /\ work.start = Len(input) /\ work.next <= Len(work.pieces)
  /\ work' \in {[work EXCEPT !.next = @ + 1],
                [work EXCEPT !.next = @ + 1, !.kept = Append(@, work.next),
                             !.merged = @ \o Separator \o Piece(work.next)]}
  /\ UNCHANGED <<kind, input>>

----------------------------------------------------------------------------
(* extractPartialReaderTranslation: what has arrived of a quoted string,   *)
(* as far as no escape is cut off.                                         *)

Characters == {"a", "u", "0", "quote", "escape"}

\* for each place of what arrived, what is shown of the string from there on
Shown(raw) ==
  LET hex(i) == i + HexDigits - 1 <= Len(raw) /\ \A j \in i .. i + HexDigits - 1 : raw[j] \in {"a", "0"}
      from[i \in 1 .. Len(raw) + 1] ==
        IF i > Len(raw) \/ (i <= Len(raw) /\ raw[i] = "quote") THEN <<>>
        ELSE IF raw[i] # "escape" THEN <<raw[i]>> \o from[i + 1]
        ELSE IF i = Len(raw) THEN <<>>
        ELSE IF raw[i + 1] # "u" THEN <<raw[i + 1]>> \o from[i + 2]
        ELSE IF hex(i + 2) THEN <<SubSeq(raw, i + 2, i + 1 + HexDigits)>> \o from[i + 2 + HexDigits]
        ELSE <<>>
  IN from

Preview(raw) == Shown(raw)[1]

Receive ==
  /\ kind = "preview" /\ Len(input) < MaxAnswer
  /\ \E c \in Characters : input' = Append(input, c)
  /\ work' = Preview(input')
  /\ UNCHANGED kind

----------------------------------------------------------------------------
(* The segments of an answer against the page.                             *)

Found(fragment, from) ==
  {p \in from .. Len(input.source) - Len(fragment) + 1 :
     SubSeq(input.source, p, p + Len(fragment) - 1) = fragment}

Enough(covered) == 100 * covered >= 72 * Len(input.source)

\* the answer as it came tells a segment out of order from one that is not of the page
Missing(fragment) ==
  IF kind = "raw" /\ Found(fragment, 1) # {} THEN "segment-order" ELSE "source-mismatch"

Judges ==
  LET fragment == input.segments[work.next]
      places == Found(fragment, work.cursor)
  IN /\ work.verdict = Nothing
     /\ IF work.next > Len(input.segments)
        THEN work' = [work EXCEPT !.verdict = IF Enough(work.covered) THEN "valid" ELSE "segment-coverage"]
        ELSE IF \E i \in 1 .. work.next - 1 : input.segments[i] = fragment
        THEN work' = [work EXCEPT !.verdict = "duplicate-segment"]
        ELSE IF places = {} THEN work' = [work EXCEPT !.verdict = Missing(fragment)]
        ELSE work' = [work EXCEPT !.next = @ + 1, !.cursor = Min(places) + Len(fragment),
                                  !.covered = @ + Len(fragment)]
     /\ UNCHANGED <<kind, input>>

ValidateRaw == kind = "raw" /\ Judges
ValidateParsed == kind = "parsed" /\ Judges

----------------------------------------------------------------------------
(* study-request-budget.ts *)

Bytes(from, to) == (to - from + 1) + Cardinality({i \in from .. to : input[i] = "w"})

\* as much as fits, but rather to the end of a line if that is not far back
SplitUtf8 ==
  LET fitting == Max({i \in work.done .. Len(input) : Bytes(work.done + 1, i) <= MaxBytes})
      lines == {i \in work.done + 1 .. fitting : input[i] = "n"}
      to == IF fitting < Len(input) /\ lines # {} /\ 100 * (Max(lines) - 1 - work.done) > 55 * MaxBytes
            THEN Max(lines) - 1 ELSE fitting
  IN /\ kind = "bytes" /\ work.done < Len(input)
     /\ work' = [done |-> to, pieces |-> Append(work.pieces, [from |-> work.done + 1, to |-> to])]
     /\ UNCHANGED <<kind, input>>

\* from the newest on, each earlier message that still fits
FitMessage ==
  /\ kind = "fit" /\ work.index > 0 /\ Len(work.kept) < KeptMessages
  /\ LET size == input.sizes[work.index]
     IN work' = IF size = 0 \/ work.used + size > Total THEN [work EXCEPT !.index = @ - 1]
                ELSE [index |-> work.index - 1, used |-> work.used + size,
                      kept |-> <<work.index>> \o work.kept]
  /\ UNCHANGED <<kind, input>>

PiecesNext ==
  \/ Split \/ Merge \/ Receive \/ ValidateRaw \/ ValidateParsed \/ SplitUtf8 \/ FitMessage

PiecesSpec == PiecesInit /\ [][PiecesNext]_pieceVars

----------------------------------------------------------------------------

\* the sizes of some members together, counted one by one
Amount(sizes, members) == Cardinality(UNION {{i} \X (1 .. sizes[i]) : i \in members})

(* Nothing of a page is lost or moved by splitting it, no piece is longer  *)
(* than the limit, and a word is broken only where the last half of the    *)
(* limit has neither a space nor the end of a sentence.                    *)
PagesAreWhole ==
  kind = "split" =>
    LET p == work.pieces
    IN /\ \A i \in 1 .. work.start :
            input[i] \notin White => \E k \in DOMAIN p : i \in p[k].from .. p[k].to
       /\ \A k, l \in DOMAIN p : k < l => p[k].to < p[l].from
       /\ \A k \in DOMAIN p :
            /\ {p[k].from, p[k].to} \subseteq 1 .. work.start
            /\ p[k].from <= p[k].to /\ p[k].to - p[k].from < Limit
            /\ p[k].to < Len(input) /\ {input[p[k].to], input[p[k].to + 1]} = {"a"} =>
                 \A i \in p[k].to - (Limit - Half) .. p[k].to : input[i] = "a"

\* between a piece and the next there is a blank line
EndsParagraph(k) ==
  \E i, j \in work.pieces[k].to + 1 .. work.pieces[k + 1].from - 1 : i < j /\ input[i] = "n" /\ input[j] = "n"

(* Merged again, the translations that there are follow each other, each   *)
(* whole and once, apart by a paragraph where one ended between pieces.    *)
MergedInOrder ==
  kind = "split" =>
    LET m == work.merged
        p == work.pieces
    IN /\ \A i \in DOMAIN m : m[i].at # 0 =>
            /\ m[i].is = input[m[i].at]
            /\ \E k \in Range(work.kept) : m[i].at \in p[k].from .. p[k].to
            /\ \A j \in DOMAIN m : i < j => m[j].at = 0 \/ m[i].at < m[j].at
       /\ \A k \in Range(work.kept) : \A a \in p[k].from .. p[k].to : \E i \in DOMAIN m : m[i].at = a
       /\ \A h \in 1 .. Len(work.kept) - 1 :
            (\E k \in work.kept[h] .. work.kept[h + 1] - 1 : EndsParagraph(k)) =>
              \E i \in 1 .. Len(m) - 1 :
                /\ m[i] = Added("n") /\ m[i + 1] = Added("n")
                /\ \A j \in DOMAIN m : m[j].at # 0 =>
                     IF j < i THEN m[j].at <= p[work.kept[h]].to ELSE m[j].at >= p[work.kept[h + 1]].from

(* What is shown of an answer while it arrives is only added to. *)
PreviewStep == kind = "preview" => IsPrefix(work, work')

\* the segments lie in the page one behind the other
Placed(segments) ==
  \E p \in [DOMAIN segments -> 1 .. Len(input.source)] :
    \A i \in DOMAIN segments :
      /\ p[i] \in Found(segments[i], 1)
      /\ \A j \in 1 .. i - 1 : p[j] + Len(segments[j]) <= p[i]

(* An answer is taken for a translation of the page exactly if its segments *)
(* differ, lie in the page in their order without overlapping, and cover 72 *)
(* of 100 of it: taking the first place of each one misses no other way.    *)
AlignedIsPlaced ==
  kind \in {"raw", "parsed"} /\ work.verdict # Nothing =>
    LET s == input.segments
        sizes == [i \in DOMAIN s |-> Len(s[i])]
    IN /\ work.verdict = "valid" <=> /\ IsInjective(s) /\ Placed(s)
                                     /\ Enough(Amount(sizes, DOMAIN s))
       /\ work.verdict = "segment-order" => \A i \in 1 .. work.next : Found(s[i], 1) # {}

(* A request fits the runtime: a text cut for it is the same when its pieces*)
(* are joined, each of them not empty and not too long; and with the current*)
(* passage go the newest messages that fit, in their order.                 *)
RequestsFit ==
  /\ kind = "bytes" =>
       LET p == work.pieces
       IN /\ \A k \in DOMAIN p :
               /\ p[k].from = IF k = 1 THEN 1 ELSE p[k - 1].to + 1
               /\ p[k].from <= p[k].to /\ Bytes(p[k].from, p[k].to) <= MaxBytes
          /\ work.done = IF p = <<>> THEN 0 ELSE p[Len(p)].to
          /\ work.done <= Len(input)
  /\ kind = "fit" =>
       LET sizes(from) == input.used + Amount(input.sizes, {i \in Range(work.kept) : i >= from})
       IN /\ sizes(1) <= Total /\ Len(work.kept) <= KeptMessages
          /\ \A i, j \in DOMAIN work.kept : i < j => work.kept[i] < work.kept[j]
          /\ \A i \in work.index + 1 .. Len(input.sizes) :
               i \in Range(work.kept) \/ input.sizes[i] = 0 \/ sizes(i + 1) + input.sizes[i] > Total

=============================================================================
