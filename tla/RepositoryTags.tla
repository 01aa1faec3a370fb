---------------------------- MODULE RepositoryTags ----------------------------
(***************************************************************************)
(* The virtual files of a repository, the snapshot that an accepted pull   *)
(* request takes of them, and the tags of the default branch, each with    *)
(* the files of the completion it points at and the completions since the  *)
(* tag before it.                                                          *)
(***************************************************************************)
EXTENDS Naturals, Sequences, FiniteSets, SequencesExt, FiniteSetsExt

CONSTANTS Paths,
          Inside,         \* pairs of paths of which the first lies in the second
          Contents,
          Branches, Default,
          MaxCompletions, \* bound: completions of all branches
          MaxTags,        \* bound: tags
          Nothing

TagsAssumption ==
  /\ Inside \subseteq Paths \X Paths /\ (\A p \in Paths : <<p, p>> \notin Inside)
  /\ Default \in Branches /\ Nothing \notin Contents
  /\ {MaxCompletions, MaxTags} \subseteq Nat

VARIABLES files,       \* the working tree: the content of each path, or Nothing
          completions, \* of all branches, in the order in which they were made
          tags         \* in the order in which they were made

tagsVars == <<files, completions, tags>>

NoFiles == [p \in Paths |-> Nothing]

\* completions from before there were snapshots have none
TagsInit ==
  /\ \E p \in Paths, c \in Contents : files = [NoFiles EXCEPT ![p] = c]
  /\ \E old \in {0, 1} :
       completions = [i \in 1 .. old |-> [branch |-> Default, sequence |-> 1, files |-> Nothing]]
  /\ tags = <<>>

Stored == {p \in Paths : files[p] # Nothing}

----------------------------------------------------------------------------

\* no file lies in another
Overlaps(p, q) == <<p, q>> \in Inside \/ <<q, p>> \in Inside

SaveRepositoryFile(p) ==
  \E c \in Contents :
    /\ \A q \in Stored \ {p} : ~Overlaps(p, q)
    /\ files' = [files EXCEPT ![p] = c]
    /\ UNCHANGED <<completions, tags>>

DeleteRepositoryFile(p) ==
  /\ files[p] # Nothing
  /\ files' = [files EXCEPT ![p] = Nothing]
  /\ UNCHANGED <<completions, tags>>

OfBranch(b) == {i \in DOMAIN completions : completions[i].branch = b}
LastSequence(b) == Max({completions[i].sequence : i \in OfBranch(b)} \cup {0})

\* what accepting a pull request adds to the history of a branch
Complete(b) ==
  /\ Len(completions) < MaxCompletions
  /\ completions' = Append(completions,
                          [branch |-> b, sequence |-> LastSequence(b) + 1, files |-> files])
  /\ UNCHANGED <<files, tags>>

Latest(b) == CHOOSE i \in OfBranch(b) : completions[i].sequence = LastSequence(b)

\* a completion without a snapshot leaves only the working tree to keep
TagFiles ==
  IF OfBranch(Default) # {} /\ completions[Latest(Default)].files # Nothing
  THEN completions[Latest(Default)].files ELSE files

\* the completions after those of the previous tag
Window(previous, sequence) ==
  {i \in OfBranch(Default) : previous < completions[i].sequence /\ completions[i].sequence <= sequence}

CreateRepositoryTag ==
  LET sequence == LastSequence(Default)
      previous == IF tags = <<>> THEN 0 ELSE Last(tags).sequence
  IN /\ Len(tags) < MaxTags
     /\ tags' = Append(tags, [sequence |-> sequence, files |-> TagFiles,
                              completion |-> IF OfBranch(Default) = {} THEN Nothing ELSE Latest(Default),
                              history |-> Window(previous, sequence)])
     /\ UNCHANGED <<files, completions>>

TagsNext ==
  \/ \E p \in Paths : SaveRepositoryFile(p) \/ DeleteRepositoryFile(p)
  \/ \E b \in Branches : Complete(b)
  \/ CreateRepositoryTag

TagsSpec == TagsInit /\ [][TagsNext]_tagsVars

----------------------------------------------------------------------------
(* CompareRepositoryTags *)

TreeOf(k) == IF k = 0 THEN NoFiles ELSE tags[k].files

Compared(old, new) ==
  [added    |-> {p \in Paths : old[p] = Nothing /\ new[p] # Nothing},
   modified |-> {p \in Paths : Nothing \notin {old[p], new[p]} /\ old[p] # new[p]},
   deleted  |-> {p \in Paths : old[p] # Nothing /\ new[p] = Nothing}]

----------------------------------------------------------------------------

TagsTypeOK ==
  /\ files \in [Paths -> Contents \cup {Nothing}]
  /\ \A i \in DOMAIN completions :
       completions[i].branch \in Branches /\ completions[i].files \in [Paths -> Contents \cup {Nothing}] \cup {Nothing}
  /\ \A k \in DOMAIN tags : tags[k].history \subseteq DOMAIN completions

(* Up to the latest tag every completion of the default branch is in one tag *)
(* and no other completion is in any, however tags, completions of several   *)
(* branches and repeated tags of the same completion alternate.              *)
TagsPartitionHistory ==
  /\ \A i \in OfBranch(Default) :
       Cardinality({k \in DOMAIN tags : i \in tags[k].history}) =
         IF tags # <<>> /\ completions[i].sequence <= Last(tags).sequence THEN 1 ELSE 0
  /\ \A k \in DOMAIN tags : tags[k].history \subseteq OfBranch(Default)

(* A tag holds the files as they were accepted, not what was edited since,   *)
(* and in no tree, working or kept, a file lies in another.                  *)
TagHoldsAccepted ==
  /\ \A k \in DOMAIN tags :
       LET c == tags[k].completion
       IN c # Nothing /\ completions[c].files # Nothing => tags[k].files = completions[c].files
  /\ \A tree \in {files} \cup {tags[k].files : k \in DOMAIN tags} :
       \A p, q \in Paths : Nothing \notin {tree[p], tree[q]} => <<p, q>> \notin Inside

(* The changes of a comparison, made to the files of the tag before, give    *)
(* the files of the tag.                                                     *)
ComparisonIsExact ==
  \A k \in DOMAIN tags :
    LET old == TreeOf(k - 1)
        c == Compared(old, tags[k].files)
    IN tags[k].files = [p \in Paths |-> IF p \in c.deleted THEN Nothing
                                        ELSE IF p \in c.added \cup c.modified THEN tags[k].files[p] ELSE old[p]]

=============================================================================
