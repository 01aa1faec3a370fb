---------------------------- MODULE ReadmeBlocks ----------------------------
(***************************************************************************)
(* How the overview of a repository cuts a README into blocks: the reader  *)
(* of local repositories and the one of linked repositories, each of which *)
(* looks at a line, takes the lines that belong with it and goes on behind *)
(* them.  A line is named by its kind and a block by its lines.            *)
(***************************************************************************)
EXTENDS Naturals, Sequences, SequencesExt

CONSTANTS MaxLines \* bound: lines of a README

ReadmeAssumption == MaxLines \in Nat

VARIABLES text,   \* the kinds of the lines
          parser, \* which of the two readers
          index,  \* the next line
          blocks  \* the lines of each block so far

readmeVars == <<text, parser, index, blocks>>

\* only a "row" and a "divider" have bars; a divider has dashes between them, and a "rule" of
\* dashes passes for one
Kinds == {"blank", "fence", "heading", "rule", "quote", "bullet", "number", "words", "row", "divider"}

Marks == {"blank", "fence", "heading", "rule", "quote", "bullet", "number"}

ReadmeInit ==
  /\ \E n \in 0..MaxLines : text \in [1..n -> Kinds]
  /\ parser \in {"local", "linked"}
  /\ index = 1
  /\ blocks = <<>>

Size == Len(text)

\* the first line from i on that does not belong with the ones before, or the line behind the last
End(i, same) ==
  CHOOSE j \in i..(Size + 1) :
    /\ j = Size + 1 \/ text[j] \notin same
    /\ \A k \in i..(j - 1) : text[k] \in same

Lines(i, j) == [k \in 1..(j - i) |-> i + k - 1]

Takes(shown, next) ==
  /\ blocks' = Append(blocks, shown)
  /\ index' = next
  /\ UNCHANGED <<text, parser>>

Kind == text[index]

\* a table is known by its second line; only the reader of linked repositories has tables
IsTable ==
  /\ parser = "linked" /\ Kind \in {"row", "divider"}
  /\ index < Size /\ text[index + 1] \in {"divider", "rule"}

Blank ==
  /\ Kind = "blank"
  /\ index' = index + 1
  /\ UNCHANGED <<text, parser, blocks>>

\* a fence that nothing closes reaches to the end
Code ==
  LET close == End(index + 1, Kinds \ {"fence"})
  IN /\ Kind = "fence"
     /\ Takes(Lines(index + 1, close), IF close <= Size THEN close + 1 ELSE close)

TableWithoutFirstRow ==
  LET next == End(index + 2, {"row", "divider"})
  IN IsTable /\ Takes(<<index>> \o Lines(index + 3, next), next)

Table ==
  LET next == End(index + 2, {"row", "divider"})
  IN IsTable /\ Takes(<<index>> \o Lines(index + 2, next), next)

Line == Kind \in {"heading", "rule"} /\ Takes(<<index>>, index + 1)

Group ==
  LET next == End(index, {Kind})
  IN Kind \in {"quote", "bullet", "number"} /\ Takes(Lines(index, next), next)

\* a table that follows words directly belongs to their paragraph
Paragraph ==
  LET next == End(index + 1, Kinds \ Marks)
  IN Kind \notin Marks /\ ~IsTable /\ Takes(Lines(index, next), next)

ReadmeNext ==
  /\ index <= Size
  /\ Blank \/ Code \/ Table \/ Line \/ Group \/ Paragraph

ReadmeSpec == ReadmeInit /\ [][ReadmeNext]_readmeVars

----------------------------------------------------------------------------

Shown == UNION {Range(blocks[b]) : b \in DOMAIN blocks}

(* No line of a README is lost or shown twice, and the lines keep their   *)
(* order: only blank lines, fences and the dividers of tables are left    *)
(* out.                                                                   *)
EveryLineIsShown ==
  /\ \A b, c \in DOMAIN blocks : \A k \in DOMAIN blocks[b], l \in DOMAIN blocks[c] :
       b < c \/ (b = c /\ k < l) => blocks[b][k] < blocks[c][l]
  /\ Shown \subseteq 1..(index - 1) /\ index <= Size + 1
  /\ {i \in 1..(index - 1) : text[i] \notin {"blank", "fence", "divider", "rule"}} \subseteq Shown
=============================================================================
