--------------------------- MODULE Checkout_proofs ---------------------------
(***************************************************************************)
(* Checkout for any files, limits and delays.                              *)
(*                                                                         *)
(* IInv says what the checked properties rest on: how late each phase may  *)
(* still be (Timing), which errors lead to a probe or a delay (Retrying),  *)
(* and what the steps already taken have left, as long as the developer    *)
(* has not committed, or not touched the checkout at all (Copying).        *)
(***************************************************************************)
EXTENDS Checkout, TLAPS

Timing ==
  /\ clock <= Deadline + ProbeLimit
  /\ phase \in Running \cup {"spawn"} => clock <= Deadline
  /\ phase = "delay" => clock <= wakeAt /\ wakeAt < Deadline
  /\ phase = "probe" => clock <= wakeAt /\ wakeAt <= Deadline + ProbeLimit

Retrying ==
  /\ phase = "probe" => error.kind \in {"exit", "null"}
  /\ phase = "delay" => error.kind = "exit" /\ error.stderr # "missing" /\ attempt < Len(RetryDelays)

Developer ==
  /\ head \in Committable /\ index \in Committable
  /\ committed => edits # 0
  /\ ~local => edits = 0 /\ index = head /\ work = head

Copying ==
  /\ phase = "listed" => local /\ step = 5
  /\ ~local => ~dirty /\ (step > 4 => copy = head) /\ (verdict = "source" => step = 5 /\ sha = head)
  /\ local /\ ~committed => (step > 1 => sha = head) /\ (step > 2 /\ verdict # "source" => copy = head)
  /\ local /\ edits = 0 => /\ step > 4 => deleted = LsDeleted(index, work)
                           /\ phase = "listed" => changed = LsChanged(index, work)

IInv == TypeOK /\ Timing /\ Retrying /\ Developer /\ Copying /\ CopyIsTree /\ CleanIsCommit /\ (verdict = "source" => step = 5)

-----------------------------------------------------------------------------
(* The two lists of commands.                                              *)

LEMMA CommandFacts ==
  ASSUME local \in BOOLEAN, step \in 1 .. 5
  PROVE  /\ Len(Commands) = 5
         /\ local => /\ Command = "head" <=> step = 1
                     /\ Command = "archive" <=> step = 2
                     /\ Command = "deleted" <=> step = 4
                     /\ Command = "changed" <=> step = 5
                     /\ Command \notin {"checkout", "fetch"}
         /\ ~local => /\ Command = "fetch" <=> step = 3
                      /\ Command = "checkout" <=> step = 4
                      /\ Command = "head" <=> step = 5
                      /\ Command \notin {"archive", "deleted", "changed"}
<1>1. Len(Commands) = 5
  BY DEF Commands, CloneCommands, ArchiveCommands
<1>2. step = 1 \/ step = 2 \/ step = 3 \/ step = 4 \/ step = 5
  OBVIOUS
<1>3. CASE local
  BY <1>1, <1>2, <1>3 DEF Command, Commands, ArchiveCommands
<1>4. CASE ~local
  BY <1>1, <1>2, <1>4 DEF Command, Commands, CloneCommands
<1> QED BY <1>3, <1>4

\* A delay of the list is a time.
LEMMA DelayType ==
  ASSUME attempt \in 0 .. Len(RetryDelays), attempt < Len(RetryDelays)
  PROVE  RetryDelays[attempt + 1] \in Nat \ {0}
<1>1. RetryDelays \in Seq(Nat \ {0}) /\ Len(RetryDelays) \in Nat
  BY CheckoutAssumption
<1>2. attempt + 1 \in 1 .. Len(RetryDelays)
  BY <1>1
<1> QED BY <1>1, <1>2

\* Laying the lists over a tree gives a tree.
LEMMA OverlayType ==
  ASSUME NEW c \in Trees, NEW w \in Trees, NEW d \in SUBSET Files, NEW m \in SUBSET Files
  PROVE  Overlay(c, w, d, m).copy \in Trees /\ Overlay(c, w, d, m).dirty \in BOOLEAN
BY DEF Overlay, Trees

\* What DecideRetry may lead to.
LEMMA DecideRetryFacts ==
  ASSUME TypeOK, NEW err \in Errors, DecideRetry(err)
  PROVE  \/ /\ phase' = "over" /\ verdict' \in {"failed", "timed_out"} /\ UNCHANGED fetch
         \/ /\ phase' = "delay" /\ wakeAt' \in Nat /\ clock <= wakeAt' /\ wakeAt' < Deadline
            /\ err.kind = "exit" \/ err.kind = "spawn"
            /\ err.stderr # "missing"
            /\ attempt < Len(RetryDelays) /\ UNCHANGED <<attempt, verdict>>
<1> DEFINE fits == RetryDelays[attempt + 1] < Deadline - clock
<1>1. clock \in Nat /\ Deadline \in Nat /\ attempt \in 0 .. Len(RetryDelays) /\ Len(RetryDelays) \in Nat
      /\ err.kind \in {"exit", "null", "spawn"}
  BY CheckoutAssumption DEF TypeOK, Errors
<1>2. CASE phase' = "over"
  BY <1>2 DEF DecideRetry, Over
<1>3. CASE phase' # "over"
  <2>1. /\ attempt < Len(RetryDelays) /\ err.kind # "null" /\ err.stderr # "missing"
        /\ ~(RetryDelays[attempt + 1] >= Deadline - clock)
        /\ phase' = "delay" /\ wakeAt' = clock + RetryDelays[attempt + 1]
        /\ UNCHANGED <<attempt, verdict>>
    BY <1>1, <1>3 DEF DecideRetry, Over
  <2>2. RetryDelays[attempt + 1] \in Nat \ {0}
    BY <1>1, <2>1, DelayType
  <2> QED BY <1>1, <2>1, <2>2
<1> QED BY <1>2, <1>3

\* What a rejected command may lead to.
LEMMA FailsFacts ==
  ASSUME TypeOK, NEW err \in Errors, Fails(err)
  PROVE  /\ error' = err
         /\ \/ /\ phase' = "over" /\ verdict' \in {"failed", "timed_out"} /\ UNCHANGED fetch
            \/ /\ phase' = "delay" /\ wakeAt' \in Nat /\ clock <= wakeAt' /\ wakeAt' < Deadline
               /\ err.kind = "exit" /\ err.stderr # "missing"
               /\ attempt < Len(RetryDelays) /\ UNCHANGED <<attempt, verdict>>
            \/ /\ phase' = "probe" /\ wakeAt' = clock + ProbeLimit /\ err.kind \in {"exit", "null"}
               /\ UNCHANGED <<attempt, verdict>>
<1>0. err.kind \in {"exit", "null", "spawn"}
  BY DEF Errors
<1>1. CASE Command = "fetch" /\ err.kind # "spawn" /\ token /\ err.stderr = "auth"
  BY <1>0, <1>1 DEF Fails
<1>2. CASE Command = "fetch" /\ err.kind # "spawn" /\ ~(token /\ err.stderr = "auth")
  <2>1. DecideRetry(err) /\ error' = err
    BY <1>2 DEF Fails
  <2> QED BY <1>2, <2>1, DecideRetryFacts
<1>3. CASE ~(Command = "fetch" /\ err.kind # "spawn")
  BY <1>3 DEF Fails, Over
<1> QED BY <1>1, <1>2, <1>3

\* TimerFires and ChildFails fail with an error of Errors.
LEMMA FailingFacts ==
  ASSUME TypeOK, ChildFails \/ TimerFires
  PROVE  /\ phase \in Running
         /\ \E err \in Errors : Fails(err)
         /\ UNCHANGED <<env, clock, step, dev, source>>
BY DEF ChildFails, TimerFires, Errors

-----------------------------------------------------------------------------
(* Types                                                                   *)

LEMMA InitHolds == Init => IInv
<1> SUFFICES ASSUME Init PROVE IInv
  OBVIOUS
<1>1. TypeOK
  <2>1. {head, index, work, copy, sha} \subseteq Trees
    BY DEF Init, Committable, Trees, NoFiles
  <2>2. token \in BOOLEAN /\ local \in BOOLEAN
    BY DEF Init
  <2>3. Len(RetryDelays) \in Nat /\ MaxEdits \in Nat
    BY CheckoutAssumption
  <2>4. /\ clock = 0 /\ wakeAt = 0 /\ edits = 0 /\ attempt = 0 /\ step = 1 /\ phase = "spawn"
        /\ error = NoError /\ verdict = "none" /\ committed = FALSE /\ dirty = FALSE
        /\ deleted = {} /\ changed = {}
    BY DEF Init
  <2>5. committed \in BOOLEAN /\ dirty \in BOOLEAN
    BY <2>4
  <2>6. /\ clock \in Nat /\ wakeAt \in Nat /\ edits \in 0 .. MaxEdits
        /\ attempt \in 0 .. Len(RetryDelays) /\ step \in 1 .. 5
    BY <2>3, <2>4
  <2>7. /\ phase \in Running \cup {"spawn", "probe", "delay", "over"} /\ error \in Errors \cup {NoError}
        /\ verdict \in {"none", "source", "failed", "timed_out"} /\ phase # "over"
        /\ deleted \subseteq Files /\ changed \subseteq Files
    BY <2>4
  <2> QED BY <2>1, <2>2, <2>4, <2>5, <2>6, <2>7 DEF TypeOK
<1>2. Timing /\ Retrying
  BY CheckoutAssumption DEF Init, Timing, Retrying, Running
<1>3. Developer /\ Copying
  BY DEF Init, Developer, Copying
<1> QED BY <1>1, <1>2, <1>3 DEF Init, IInv, CopyIsTree, CleanIsCommit

\* Every step keeps the types.
LEMMA TypeStep == TypeOK /\ Retrying /\ [Next]_vars => TypeOK'
<1> SUFFICES ASSUME TypeOK, Retrying, [Next]_vars PROVE TypeOK'
  OBVIOUS
<1>0. Deadline \in Nat /\ ProbeLimit \in Nat /\ MaxEdits \in Nat /\ Len(RetryDelays) \in Nat
  BY CheckoutAssumption
<1>1. CASE Spawn
  BY <1>1 DEF Spawn, Over, TypeOK, Running, env, fetch, dev, source, lists
<1>2. CASE ListChanged
  BY <1>2 DEF ListChanged, LsChanged, TypeOK, Running, env, fetch, dev
<1>3. CASE ChildFails \/ TimerFires
  <2>1. PICK err \in Errors : Fails(err)
    BY <1>3, FailingFacts
  <2>2. /\ error' = err /\ wakeAt' \in Nat /\ attempt' = attempt
        /\ phase' \in {"over", "delay", "probe"}
        /\ verdict' \in {"none", "source", "failed", "timed_out"}
        /\ phase' = "over" <=> verdict' # "none"
    BY <1>0, <1>3, <2>1, FailsFacts, FailingFacts DEF TypeOK, fetch, Running
  <2>3. UNCHANGED <<env, clock, step, dev, source>>
    BY <1>3, FailingFacts
  <2> QED BY <2>2, <2>3 DEF TypeOK, env, dev, source, lists
<1>4. CASE ChildSucceeds
  <2>1. Effect /\ UNCHANGED <<env, clock, fetch, error, dev>>
    BY <1>4 DEF ChildSucceeds
  <2>2. {copy', sha'} \subseteq Trees /\ dirty' \in BOOLEAN /\ deleted' \subseteq Files /\ changed' \subseteq Files
    <3>1. Overlay(copy, work, deleted, changed).copy \in Trees /\ Overlay(copy, work, deleted, changed).dirty \in BOOLEAN
      BY OverlayType DEF TypeOK
    <3>2. LsDeleted(index, work) \subseteq Files
      BY DEF LsDeleted
    <3> QED BY <2>1, <3>1, <3>2 DEF Effect, TypeOK, source, lists
  <2>3. /\ step' \in 1 .. 5 /\ phase' \in {"spawn", "over"}
        /\ verdict' \in {"none", "source", "failed", "timed_out"}
        /\ phase' = "over" <=> verdict' # "none"
    <3>1. Len(Commands) = 5
      BY CommandFacts DEF TypeOK
    <3>2. phase # "over"
      BY <1>4 DEF ChildSucceeds
    <3> QED BY <1>4, <3>1, <3>2 DEF ChildSucceeds, Over, TypeOK
  <2> QED BY <2>1, <2>2, <2>3 DEF TypeOK, env, fetch, dev
<1>5. CASE ProbeEnds
  <2>1. PICK err \in Errors : err = error /\ DecideRetry(err)
    <3>1. error \in Errors
      BY <1>5 DEF ProbeEnds, TypeOK, Retrying, NoError
    <3> QED BY <1>5, <3>1 DEF ProbeEnds
  <2> QED BY <1>5, <2>1, DecideRetryFacts DEF ProbeEnds, TypeOK, Running, env, fetch, dev, source, lists
<1>6. CASE Retry
  BY <1>0, <1>6 DEF Retry, Retrying, TypeOK, Running, env, dev, source, lists
<1>7. CASE Tick
  BY <1>7 DEF Tick, TypeOK, Running, env, fetch, dev, source, lists
<1>8. CASE Edit
  BY <1>0, <1>8 DEF Edit, Editing, TypeOK, Trees, Running, env, fetch, source, lists
<1>9. CASE Commit
  BY <1>0, <1>9 DEF Commit, Editing, TypeOK, Trees, Running, env, fetch, source, lists
<1>10. CASE UNCHANGED vars
  BY <1>10 DEF vars, TypeOK, Running, env, fetch, dev, source, lists
<1> QED BY <1>1, <1>2, <1>3, <1>4, <1>5, <1>6, <1>7, <1>8, <1>9, <1>10 DEF Next

-----------------------------------------------------------------------------
(* Time                                                                    *)

LEMMA TimingStep == TypeOK /\ Timing /\ Retrying /\ [Next]_vars => Timing' /\ Retrying'
<1> SUFFICES ASSUME TypeOK, Timing, Retrying, [Next]_vars PROVE Timing' /\ Retrying'
  OBVIOUS
<1>0. Deadline \in Nat /\ ProbeLimit \in Nat /\ clock \in Nat /\ wakeAt \in Nat
  BY CheckoutAssumption DEF TypeOK
<1>1. CASE Spawn
  BY <1>0, <1>1 DEF Spawn, Over, TimeIsSpent, Timing, Retrying, Running, env, fetch
<1>2. CASE ListChanged
  BY <1>2 DEF ListChanged, Timing, Retrying, Running, fetch
<1>3. CASE ChildFails \/ TimerFires
  <2>1. PICK err \in Errors : Fails(err)
    BY <1>3, FailingFacts
  <2>2. phase \in Running /\ clock' = clock /\ clock <= Deadline
    BY <1>3, FailingFacts DEF Timing
  <2> QED BY <1>0, <2>1, <2>2, FailsFacts DEF Timing, Retrying, fetch, Running
<1>4. CASE ChildSucceeds
  <2>1. phase \in Running /\ phase' \in {"spawn", "over"} /\ UNCHANGED <<clock, wakeAt>>
    BY <1>4 DEF ChildSucceeds, Over, Running, fetch
  <2> QED BY <1>0, <2>1 DEF Timing, Retrying, Running
<1>5. CASE ProbeEnds
  <2>1. PICK err \in Errors : err = error /\ DecideRetry(err)
    <3>1. error \in Errors
      BY <1>5 DEF ProbeEnds, TypeOK, Retrying, NoError
    <3> QED BY <1>5, <3>1 DEF ProbeEnds
  <2>2. phase = "probe" /\ UNCHANGED <<clock, error>>
    BY <1>5 DEF ProbeEnds
  <2> QED BY <1>0, <2>1, <2>2, DecideRetryFacts DEF Timing, Retrying, Running, fetch
<1>6. CASE Retry
  BY <1>0, <1>6 DEF Retry, Timing, Retrying, Running
<1>7. CASE Tick
  BY <1>0, <1>7 DEF Tick, Timing, Retrying, Running, fetch
<1>8. CASE Edit \/ Commit
  BY <1>8 DEF Edit, Commit, Timing, Retrying, fetch
<1>9. CASE UNCHANGED vars
  BY <1>9 DEF vars, Timing, Retrying, fetch
<1> QED BY <1>1, <1>2, <1>3, <1>4, <1>5, <1>6, <1>7, <1>8, <1>9 DEF Next

-----------------------------------------------------------------------------
(* The copy                                                                *)

LEMMA DeveloperStep == TypeOK /\ Developer /\ [Next]_vars => Developer'
<1> SUFFICES ASSUME TypeOK, Developer, [Next]_vars PROVE Developer'
  OBVIOUS
<1>1. CASE Edit
  BY <1>1 DEF Edit, Editing, Developer, TypeOK, env
<1>2. CASE Commit
  <2>1. /\ index' = [f \in Files |-> IF index[f] # Absent THEN work[f] ELSE Absent]
        /\ head' = index' /\ local /\ local' = local /\ edits' = edits + 1 /\ edits \in Nat
    BY <1>2, CheckoutAssumption DEF Commit, Editing, TypeOK, env
  <2>2. index' \in Trees
    BY <2>1 DEF TypeOK, Trees
  <2>3. \A f \in Ignored : index'[f] = Absent
    BY <2>1, WorkingTreeAssumption DEF Developer, Committable
  <2> QED BY <2>1, <2>2, <2>3 DEF Developer, Committable
<1>3. CASE UNCHANGED <<local, dev>>
  BY <1>3 DEF Developer, dev
<1>4. CASE ~(Edit \/ Commit)
  BY <1>3, <1>4, FailingFacts
     DEF Next, vars, Spawn, ListChanged, ChildSucceeds, ProbeEnds, Retry, Tick, env
<1> QED BY <1>1, <1>2, <1>4

\* A checkout that is neither edited nor staged: its copy is the tree.
LEMMA OverlayIsTree ==
  ASSUME NEW i \in Committable, NEW w \in Trees,
         NEW laid, laid = Overlay(i, w, LsDeleted(i, w), LsChanged(i, w))
  PROVE  /\ \A f \in Files :
              laid.copy[f] = IF f \in Ignored \/ (f \in Sensitive /\ w[f] # Absent) THEN i[f] ELSE w[f]
         /\ laid.dirty <=> laid.copy # i
<1> DEFINE copied  == {f \in LsChanged(i, w) \ LsDeleted(i, w) : f \notin Sensitive /\ w[f] # Absent}
           removed == {f \in LsDeleted(i, w) : i[f] # Absent}
<1>1. /\ laid.copy = [f \in Files |-> IF f \in removed THEN Absent ELSE IF f \in copied THEN w[f] ELSE i[f]]
      /\ laid.dirty <=> copied # {} \/ removed # {}
  BY DEF Overlay
<1>2. i \in Trees /\ \A f \in Ignored : i[f] = Absent
  BY DEF Committable
<1>3. \A f \in Files : /\ f \in removed <=> i[f] # Absent /\ w[f] = Absent
                       /\ f \in copied <=> w[f] # i[f] /\ w[f] # Absent /\ f \notin Sensitive
                                             /\ (i[f] = Absent => f \notin Ignored)
  BY DEF LsDeleted, LsChanged
<1>4. copied \subseteq Files /\ removed \subseteq Files
  BY DEF LsDeleted, LsChanged
<1>5. \A f \in Files :
        laid.copy[f] = IF f \in Ignored \/ (f \in Sensitive /\ w[f] # Absent) THEN i[f] ELSE w[f]
  BY <1>1, <1>2, <1>3
<1>6. ASSUME NEW f \in copied \cup removed PROVE laid.copy[f] # i[f]
  BY <1>1, <1>3, <1>4
<1>7. ASSUME copied = {}, removed = {} PROVE laid.copy = i
  BY <1>1, <1>2, <1>7 DEF Trees
<1> QED BY <1>1, <1>5, <1>6, <1>7

\* An overlay that counts no change makes none.
LEMMA CleanOverlay ==
  ASSUME NEW c \in Trees, NEW w, NEW d, NEW m, ~Overlay(c, w, d, m).dirty
  PROVE  Overlay(c, w, d, m).copy = c
BY DEF Overlay, Trees

\* What the steps done so far have left in the copy and the lists.
LEMMA CopyStep == IInv /\ [Next]_vars => Copying' /\ CopyIsTree' /\ CleanIsCommit' /\ (verdict = "source" => step = 5)'
<1> DEFINE Goal == Copying' /\ CopyIsTree' /\ CleanIsCommit' /\ (verdict = "source" => step = 5)'
<1> SUFFICES ASSUME IInv, [Next]_vars PROVE Goal
  OBVIOUS
<1>0. TypeOK /\ Developer /\ Copying /\ CopyIsTree /\ CleanIsCommit
  BY DEF IInv
<1>1. CASE ChildSucceeds
  <2>1. /\ Effect /\ UNCHANGED <<env, dev>> /\ verdict = "none" /\ phase' # "listed"
        /\ step < 5 => step' = step + 1 /\ verdict' = verdict
        /\ step = 5 => step' = step /\ verdict' = "source"
        /\ step \in 1 .. 5
    <3>1. step \in 1 .. 5 /\ Len(Commands) = 5
      BY <1>0, CommandFacts DEF TypeOK
    <3>2. verdict = "none"
      BY <1>0, <1>1 DEF ChildSucceeds, TypeOK
    <3>3. Effect /\ UNCHANGED <<env, dev>>
      BY <1>1 DEF ChildSucceeds
    <3> QED BY <1>1, <3>1, <3>2, <3>3 DEF ChildSucceeds, Over
  <2>2. CASE ~local
    <3>1. /\ dirty' = dirty /\ head' = head /\ local' = local
          /\ step = 4 => copy' = head
          /\ step # 4 => copy' = copy
          /\ step = 5 => sha' = head
      BY <1>0, <2>1, <2>2, CommandFacts DEF Effect, TypeOK, source, lists, env, dev
    <3>2. Copying' /\ (verdict = "source" => step = 5)'
      BY <1>0, <2>1, <2>2, <3>1 DEF Copying
    <3>3. verdict' = "source" => copy' = head /\ sha' = head /\ ~dirty' /\ work' = head
      BY <1>0, <2>1, <2>2, <3>1 DEF Copying, Developer, dev
    <3> QED BY <3>1, <3>2, <3>3 DEF CopyIsTree, CleanIsCommit
  <2>3. CASE local /\ step < 5
    <3>1. /\ step = 1 => sha' = head /\ copy' = copy /\ deleted' = deleted
          /\ step = 2 => copy' = head /\ sha' = sha /\ deleted' = deleted
          /\ step = 3 => copy' = copy /\ sha' = sha /\ deleted' = deleted
          /\ step = 4 => copy' = copy /\ sha' = sha /\ deleted' = LsDeleted(index, work)
      BY <1>0, <2>1, <2>3, CommandFacts DEF Effect, TypeOK, source, lists
    <3> QED BY <1>0, <2>1, <2>3, <3>1 DEF Copying, CopyIsTree, CleanIsCommit, Quiet, env, dev
  <2>4. CASE local /\ step = 5
    <3> DEFINE laid == Overlay(copy, work, deleted, changed)
    <3>1. /\ copy' = laid.copy /\ dirty' = laid.dirty /\ sha' = sha /\ UNCHANGED lists
          /\ phase = "listed"
      BY <1>0, <1>1, <2>1, <2>4, CommandFacts DEF Effect, ChildSucceeds, TypeOK
    <3>2. ~committed => copy = head /\ sha = head
      BY <1>0, <2>1, <2>4 DEF Copying
    <3>3. CleanIsCommit'
      BY <1>0, <2>1, <3>1, <3>2, CleanOverlay DEF CleanIsCommit, TypeOK, dev
    <3>4. CopyIsTree'
      <4> SUFFICES ASSUME edits = 0, index = head PROVE CopyIsTree'
        BY <2>1 DEF CopyIsTree, Quiet, dev
      <4>1. copy = index /\ deleted = LsDeleted(index, work) /\ changed = LsChanged(index, work)
        BY <1>0, <2>4, <3>1, <3>2 DEF Copying, Developer
      <4>2. laid = Overlay(index, work, LsDeleted(index, work), LsChanged(index, work))
        BY <4>1
      <4>3. /\ \A f \in Files :
                 laid.copy[f] = IF f \in Ignored \/ (f \in Sensitive /\ work[f] # Absent) THEN index[f] ELSE work[f]
            /\ laid.dirty <=> laid.copy # index
        BY <1>0, <4>2, OverlayIsTree DEF Developer, TypeOK
      <4> QED BY <2>1, <3>1, <4>3 DEF CopyIsTree, dev
    <3> QED BY <1>0, <2>1, <2>4, <3>1, <3>3, <3>4 DEF Copying, env, dev, lists
  <2> QED BY <2>1, <2>2, <2>3, <2>4
<1>2. CASE ListChanged
  <2>1. local /\ step = 5 /\ verdict' = verdict /\ verdict = "none"
    BY <1>0, <1>2, CommandFacts DEF ListChanged, TypeOK
  <2> QED BY <1>0, <1>2, <2>1 DEF ListChanged, Copying, CopyIsTree, CleanIsCommit, Quiet, dev, env
<1>3. CASE Edit \/ Commit
  <2>1. local /\ verdict = "none" /\ edits' # 0
    BY <1>0, <1>3 DEF Edit, Commit, Editing, TypeOK, Running
  <2> QED BY <1>0, <1>3, <2>1 DEF Edit, Commit, Copying, CopyIsTree, CleanIsCommit, Quiet, env, source, lists
<1>4. CASE Spawn \/ ChildFails \/ TimerFires \/ ProbeEnds \/ Retry \/ Tick
  <2>1. UNCHANGED <<env, step, dev, source>>
    BY <1>4, FailingFacts, <1>0 DEF Spawn, ProbeEnds, Retry, Tick
  <2>2. phase # "over" /\ verdict = "none"
    BY <1>0, <1>4, FailingFacts DEF Spawn, ProbeEnds, Retry, Tick, TypeOK, Running
  <2>3. verdict' # "source"
    <3>1. CASE Spawn
      BY <2>2, <3>1 DEF Spawn, Over
    <3>2. CASE ChildFails \/ TimerFires
      BY <1>0, <2>2, <3>2, FailingFacts, FailsFacts
    <3>3. CASE ProbeEnds
      <4>1. error \in Errors /\ DecideRetry(error)
        BY <3>3 DEF ProbeEnds, IInv, TypeOK, Retrying, NoError
      <4> QED BY <1>0, <2>2, <4>1, DecideRetryFacts
    <3>4. CASE Retry \/ Tick
      BY <2>2, <3>4 DEF Retry, Tick
    <3> QED BY <1>4, <3>1, <3>2, <3>3, <3>4
  <2>4. phase' = "listed" => phase = "listed"
    <3>1. CASE Spawn \/ Retry \/ Tick
      BY <3>1 DEF Spawn, Over, Retry, Tick
    <3>2. CASE ChildFails \/ TimerFires
      BY <1>0, <3>2, FailingFacts, FailsFacts
    <3>3. CASE ProbeEnds
      <4>1. error \in Errors /\ DecideRetry(error)
        BY <3>3 DEF ProbeEnds, IInv, TypeOK, Retrying, NoError
      <4> QED BY <1>0, <4>1, DecideRetryFacts
    <3> QED BY <1>4, <3>1, <3>2, <3>3
  <2> QED BY <1>0, <2>1, <2>2, <2>3, <2>4
          DEF Copying, CopyIsTree, CleanIsCommit, env, dev, source, lists
<1>5. CASE UNCHANGED vars
  BY <1>0, <1>5 DEF IInv, vars, env, fetch, dev, source, lists, Copying, CopyIsTree, CleanIsCommit, Quiet
<1> QED BY <1>1, <1>2, <1>3, <1>4, <1>5 DEF Next

-----------------------------------------------------------------------------
(* The theorems                                                            *)

\* IInv is an invariant of the checkout, whatever the files, the limits, the
\* delays and the edits.
THEOREM Invariance == Spec => []IInv
<1>1. IInv /\ [Next]_vars => IInv'
  BY TypeStep, TimingStep, DeveloperStep, CopyStep DEF IInv
<1> QED BY InitHolds, <1>1, PTL DEF Spec

\* Clock, phases, trees and lists are always well typed (git.ts:73-162,
\* 232-337).
THEOREM TypeCorrect == Spec => []TypeOK
BY Invariance, PTL DEF IInv

\* Retries, delays and probes never carry the checkout past the deadline, but
\* for one last probe (git.ts:106-147).
THEOREM EndsNearDeadline == Spec => []EndsInTime
<1>1. IInv => EndsInTime
  BY CheckoutAssumption DEF IInv, TypeOK, Timing, EndsInTime, Running
<1> QED BY Invariance, <1>1, PTL

\* The fetch is tried again only after a failure that can pass, with its
\* delay waited out and time left (git.ts:130-142).
THEOREM RetriesAreWorthIt == Spec => RetryIsWorthIt
<1> DEFINE Worth == attempt' # attempt =>
              /\ attempt' = attempt + 1 /\ clock >= wakeAt /\ clock < Deadline
              /\ error.kind = "exit" /\ error.stderr # "missing"
<1>1. IInv /\ [Next]_vars => [Worth]_vars
  <2> SUFFICES ASSUME IInv, Next, attempt' # attempt PROVE Worth
    OBVIOUS
  <2>0. TypeOK /\ Timing /\ Retrying /\ clock \in Nat /\ wakeAt \in Nat /\ Deadline \in Nat
    BY CheckoutAssumption DEF IInv, TypeOK
  <2>1. CASE Retry
    BY <2>0, <2>1 DEF Retry, Timing, Retrying
  <2>2. CASE ChildFails \/ TimerFires
    BY <2>0, <2>2, FailingFacts, FailsFacts DEF fetch
  <2>3. CASE ProbeEnds
    <3>1. error \in Errors /\ DecideRetry(error)
      BY <2>0, <2>3 DEF ProbeEnds, TypeOK, Retrying, NoError
    <3> QED BY <2>0, <3>1, DecideRetryFacts DEF fetch
  <2>4. CASE Spawn \/ ListChanged \/ ChildSucceeds \/ Tick \/ Edit \/ Commit
    BY <2>4 DEF Spawn, ListChanged, ChildSucceeds, Tick, Edit, Commit, fetch
  <2> QED BY <2>1, <2>2, <2>3, <2>4 DEF Next
<1> QED BY Invariance, <1>1, PTL DEF Spec, RetryIsWorthIt

\* An unstaged checkout nobody touched is copied as it is, and marked dirty
\* exactly if it differs from HEAD (git.ts:254-337).
THEOREM CopiesAreFaithful == Spec => []CopyIsTree
BY Invariance, PTL DEF IInv

\* A run not marked dirty tests exactly the commit it is recorded under,
\* unless the developer commits meanwhile (git.ts:254-337).
THEOREM CleanRunsAreCommits == Spec => []CleanIsCommit
BY Invariance, PTL DEF IInv
=============================================================================
