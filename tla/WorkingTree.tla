---------------------------- MODULE WorkingTree ----------------------------
(***************************************************************************)
(* A git checkout as archiveLocalWorkingTree (apps/worker/src/git.ts) sees *)
(* it, and the copy it makes of one.  A tree gives every file its content, *)
(* Absent when it has none; head, index and work are git's three trees.    *)
(***************************************************************************)
EXTENDS Naturals

CONSTANTS
  Files,      \* paths in the checkout
  Contents,   \* what a file may hold
  Absent,     \* no such file
  Ignored,    \* paths .gitignore names
  Sensitive   \* paths whose name classifySecretFile calls "sensitive"

ASSUME WorkingTreeAssumption ==
  /\ Absent \notin Contents
  /\ Ignored \subseteq Files
  /\ Sensitive \subseteq Files

Trees == [Files -> Contents \cup {Absent}]
NoFiles == [f \in Files |-> Absent]
Committable == {t \in Trees : \A f \in Ignored : t[f] = Absent}

\* git ls-files --deleted
LsDeleted(index, work) == {f \in Files : index[f] # Absent /\ work[f] = Absent}

\* git ls-files --modified --others --exclude-standard: both compare the
\* working tree with the index, so what is staged as it stands is in neither.
LsChanged(index, work) ==
  {f \in Files : \/ index[f] # Absent /\ work[f] # index[f]
                 \/ index[f] = Absent /\ work[f] # Absent /\ f \notin Ignored}

\* Mutant: files that look like credentials are copied like any other.
Overlay_CopiesSecrets(copy, work, deleted, changed) ==
  LET copied  == {f \in changed \ deleted : work[f] # Absent}
      removed == {f \in deleted : copy[f] # Absent}
  IN [copy |-> [f \in Files |-> IF f \in removed THEN Absent
                                ELSE IF f \in copied THEN work[f] ELSE copy[f]],
      dirty |-> copied # {} \/ removed # {}]

\* Mutant: deletions do not count as changes.
Overlay_ForgetsDeletions(copy, work, deleted, changed) ==
  LET copied  == {f \in changed \ deleted : f \notin Sensitive /\ work[f] # Absent}
      removed == {f \in deleted : copy[f] # Absent}
  IN [copy |-> [f \in Files |-> IF f \in removed THEN Absent
                                ELSE IF f \in copied THEN work[f] ELSE copy[f]],
      dirty |-> copied # {}]

\* What the two loops over the lists do to the extracted tree, and whether
\* they count anything.  work is the working tree the files are copied from.
Overlay(copy, work, deleted, changed) ==
  LET copied  == {f \in changed \ deleted : f \notin Sensitive /\ work[f] # Absent}
      removed == {f \in deleted : copy[f] # Absent}
  IN [copy |-> [f \in Files |-> IF f \in removed THEN Absent
                                ELSE IF f \in copied THEN work[f] ELSE copy[f]],
      dirty |-> copied # {} \/ removed # {}]
=============================================================================
