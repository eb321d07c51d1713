-------------------------- MODULE LogStream_proofs --------------------------
(***************************************************************************)
(* The live log for any sizes, lengths and numbers of dropped connections: *)
(* NoSilentGap and ShowsTheEnd.                                            *)
(*                                                                         *)
(* The argument follows the text on its way.  While the run has a row its  *)
(* log is 1, 2, ..., written (LogOK), so what a connection sends is a run  *)
(* of numbers, perhaps after a notice.  Carried says of the messages under *)
(* way what the page shows after each of them: Rank is the piece the text  *)
(* then ends with, or Beyond when it ends with a notice, after which any   *)
(* piece may come.  The last rank and the handler's offset agree, which is *)
(* what the next chunk needs; and before "complete" is sent the poll has   *)
(* seen a file that holds all of the log (Terminal).                       *)
(*                                                                         *)
(* ShowsTheEnd needs an assumption, CleanupIsShort: what is logged after   *)
(* the end of a run is shorter than the tail.  A longer cleanup, written   *)
(* between the two sizes that one poll takes, would push the end out of    *)
(* the tail of a page that opens at this moment.                           *)
(***************************************************************************)
EXTENDS LogStream, SequenceTheorems, TLAPS

Text == Pieces \cup {Notice}
Beyond == MaxPieces + MaxCleanup + 1

Rank(p) == IF p = Notice THEN Beyond ELSE p
RankOf(text) == IF text = <<>> THEN 0 ELSE Rank(text[Len(text)])

Unbroken(text) == \A i \in 1 .. Len(text) - 1 : text[i + 1] <= Rank(text[i]) + 1
Starts(text) == text # <<>> => text[1] <= 1
Follows(chunk, r) == chunk # <<>> /\ chunk[1] <= r + 1 /\ Unbroken(chunk)

\* What the worker and the row say of each other, and of the log's length.
WorkerOK ==
  /\ worker \in {"claimed", "running"} => row = "running"
  /\ worker = "cleanup" => row \notin {"queued", "running"}
  /\ worker \in {"away", "claimed"} => written = 0
  /\ row = "queued" => worker = "away" /\ atEnd = 0
  /\ row \in {"queued", "running"} => written <= MaxPieces
  /\ row = "ended" => atEnd <= written /\ written <= atEnd + MaxCleanup

LogOK ==
  row \notin Gone =>
    /\ Len(log) = written
    /\ \A i \in 1 .. Len(log) : log[i] = i
    /\ written > 0 => exists

\* The handler's view of file and row.
Terminal ==
  /\ pc # "ended" => ticks <= 1
  /\ ticks >= 1 => row \in {"ended"} \cup Gone
  /\ row \notin Gone =>
       /\ offset <= Len(log) /\ size <= Len(log)
       /\ ticks = 1 /\ pc \in {"start", "read"} => atEnd <= size
       /\ ticks = 1 /\ pc = "row" => atEnd = 0

Said(status) == status = "ended" /\ row \in {"ended"} \cup Gone

\* The text the page ends with, and where the handler is in the file.
Agree(r) ==
  \/ offset = 0
  \/ r = offset
  \/ r = Beyond /\ offset < Len(log) /\ (pc = "read" /\ ticks = 1 => offset < size)

\* What a message does to the rank of the text shown.
Moves(m, before, after) ==
  /\ m.event = "log" => Follows(m.chunk, before) /\ after = RankOf(m.chunk)
  /\ m.event # "log" => after = before
  /\ m.event = "complete" /\ atEnd > 0 => before \in atEnd .. Beyond - 1

Carries(w, g) ==
  /\ g \in [0 .. Len(w) -> Nat]
  /\ g[0] = RankOf(shown)
  /\ \A i \in 1 .. Len(w) : Moves(w[i], g[i - 1], g[i])

Carried ==
  page = "following" /\ row \notin Gone =>
    \E g \in [0 .. Len(wire) -> Nat] : Carries(wire, g) /\ Agree(g[Len(wire)])

Told ==
  /\ \A i \in 1 .. Len(wire) : wire[i].event = "complete" => Said(wire[i].run)
  /\ page = "complete" => Said(shownRun)

Shown ==
  row \notin Gone =>
    /\ Starts(shown) /\ Unbroken(shown)
    /\ page = "complete" /\ atEnd > 0 => RankOf(shown) \in atEnd .. Beyond - 1

IInv == TypeOK /\ WorkerOK /\ LogOK /\ Terminal /\ Carried /\ Told /\ Shown

-----------------------------------------------------------------------------
(* Texts.                                                                  *)

\* A rank is a number, and a text's is that of its last piece.
LEMMA RankType ==
  ASSUME NEW text \in Seq(Text)
  PROVE  RankOf(text) \in 0 .. Beyond
<1>1. text # <<>> => Len(text) \in 1 .. Len(text) /\ text[Len(text)] \in Text
  OBVIOUS
<1> QED BY <1>1, LogAssumption DEF RankOf, Rank, Text, Pieces, Notice, Beyond

\* A chunk that follows a text extends it without a gap.
LEMMA Extends ==
  ASSUME NEW text \in Seq(Text), NEW chunk \in Seq(Text),
         Starts(text), Unbroken(text), Follows(chunk, RankOf(text))
  PROVE  /\ text \o chunk \in Seq(Text) /\ text \o chunk # <<>>
         /\ Starts(text \o chunk) /\ Unbroken(text \o chunk)
         /\ RankOf(text \o chunk) = RankOf(chunk)
<1> DEFINE whole == text \o chunk
<1>1. /\ whole \in Seq(Text) /\ Len(whole) = Len(text) + Len(chunk)
      /\ Len(chunk) \in Nat \ {0} /\ Len(text) \in Nat
  BY DEF Follows
<1>2. \A i \in 1 .. Len(whole) : whole[i] = IF i <= Len(text) THEN text[i] ELSE chunk[i - Len(text)]
  OBVIOUS
<1>3. whole # <<>>
  BY <1>1
<1> HIDE DEF whole
<1>4. Starts(whole)
  <2>1. CASE text = <<>>
    BY <1>1, <1>2, <2>1 DEF Starts, Follows, RankOf
  <2>2. CASE text # <<>>
    BY <1>1, <1>2, <2>2 DEF Starts
  <2> QED BY <2>1, <2>2
<1>5. ASSUME NEW i \in 1 .. Len(whole) - 1
      PROVE  whole[i + 1] <= Rank(whole[i]) + 1
  <2>1. CASE i < Len(text)
    <3>1. whole[i] = text[i] /\ whole[i + 1] = text[i + 1]
      BY <1>1, <1>2, <2>1
    <3>2. i \in 1 .. Len(text) - 1
      BY <1>1, <2>1
    <3> QED BY <3>1, <3>2 DEF Unbroken
  <2>2. CASE i = Len(text)
    <3>0. i \in 1 .. Len(whole) /\ i + 1 \in 1 .. Len(whole) /\ i <= Len(text) /\ ~(i + 1 <= Len(text)) /\ i + 1 - Len(text) = 1
      BY <1>1, <2>2
    <3>1. whole[i] = text[Len(text)] /\ whole[i + 1] = chunk[1] /\ text # <<>>
      BY <1>1, <1>2, <2>2, <3>0
    <3> QED BY <3>1 DEF Follows, RankOf
  <2>3. CASE i > Len(text)
    <3> DEFINE j == i - Len(text)
    <3>0. j \in 1 .. Len(chunk) - 1
      BY <1>1, <2>3
    <3>2. whole[i] = chunk[j] /\ whole[i + 1] = chunk[j + 1]
      BY <1>1, <1>2, <2>3, <3>0
    <3> QED BY <3>0, <3>2 DEF Follows, Unbroken
  <2> QED BY <1>1, <2>1, <2>2, <2>3
<1>6. RankOf(whole) = RankOf(chunk)
  BY <1>1, <1>2, <1>3 DEF RankOf, Follows
<1> QED BY <1>1, <1>3, <1>4, <1>5, <1>6 DEF Unbroken, whole

\* So does what the page keeps of it: the cut leaves a notice.
LEMMA PageKeeps ==
  ASSUME NEW text \in Seq(Text), NEW chunk \in Seq(Text),
         Starts(text), Unbroken(text), Follows(chunk, RankOf(text))
  PROVE  LET kept == AppendLiveLog(text, chunk)
         IN  /\ kept \in Seq(Text) /\ Starts(kept) /\ Unbroken(kept)
             /\ RankOf(kept) = RankOf(chunk)
<1> DEFINE next == text \o chunk
           cut == SubSeq(next, Len(next) - PageSize + 1, Len(next))
           kept == <<Notice>> \o cut
<1>1. next \in Seq(Text) /\ next # <<>> /\ Starts(next) /\ Unbroken(next) /\ RankOf(next) = RankOf(chunk)
  BY Extends
<1>2. CASE Len(next) <= PageSize
  BY <1>1, <1>2 DEF AppendLiveLog
<1>3. CASE Len(next) > PageSize
  <2>0. PageSize \in Nat \ {0} /\ Len(next) \in Nat
    BY <1>1, LogAssumption
  <2>1. /\ cut \in Seq(Text) /\ Len(cut) = PageSize
        /\ \A i \in 1 .. PageSize : cut[i] = next[Len(next) - PageSize + i]
    <3> HIDE DEF next
    <3>1. \A i \in Len(next) - PageSize + 1 .. Len(next) : next[i] \in Text
      BY <1>1, <1>3, <2>0
    <3> QED BY <1>3, <2>0, <3>1, SubSeqProperties
  <2>2. <<Notice>> \in Seq(Text) /\ Len(<<Notice>>) = 1 /\ <<Notice>>[1] = Notice
    BY DEF Text
  <2> HIDE DEF next, cut
  <2>3. /\ kept \in Seq(Text) /\ Len(kept) = 1 + PageSize
        /\ \A i \in 1 .. 1 + PageSize : kept[i] = IF i <= 1 THEN <<Notice>>[i] ELSE cut[i - 1]
    BY <2>1, <2>2, ConcatProperties
  <2> HIDE DEF kept
  <2>4. /\ kept[1] = Notice /\ kept # <<>>
        /\ \A i \in 2 .. 1 + PageSize : kept[i] = next[Len(next) - PageSize + i - 1]
    <3>1. ASSUME NEW i \in 2 .. 1 + PageSize PROVE kept[i] = next[Len(next) - PageSize + i - 1]
      <4>1. i - 1 \in 1 .. PageSize /\ kept[i] = cut[i - 1]
        BY <2>0, <2>3
      <4>2. cut[i - 1] = next[Len(next) - PageSize + (i - 1)]
        BY <2>1, <4>1
      <4>3. Len(next) - PageSize + (i - 1) = Len(next) - PageSize + i - 1
        BY <2>0
      <4> QED BY <4>1, <4>2, <4>3
    <3> QED BY <2>0, <2>2, <2>3, <3>1
  <2>5. Starts(kept)
    BY <2>4 DEF Starts, Notice
  <2>6. ASSUME NEW i \in 1 .. Len(kept) - 1
        PROVE  kept[i + 1] <= Rank(kept[i]) + 1
    <3>1. i \in 1 .. PageSize
      BY <2>0, <2>3
    <3>2. CASE i = 1
      <4>1. kept[2] \in Text /\ Rank(kept[1]) = Beyond
        BY <2>0, <2>3, <2>4 DEF Rank
      <4>2. \A x \in Text : x <= Beyond + 1
        BY LogAssumption DEF Text, Pieces, Notice, Beyond
      <4>3. kept[2] <= Beyond + 1
        BY <4>1, <4>2
      <4> HIDE DEF kept, cut
      <4> QED BY <3>2, <4>1, <4>3
    <3>3. CASE i > 1
      <4> DEFINE j == Len(next) - PageSize + i - 1
      <4>2. j \in 1 .. Len(next) - 1
        BY <1>3, <2>0, <3>1, <3>3
      <4>3. kept[i] = next[j]
        BY <2>0, <2>4, <3>1, <3>3
      <4>4. kept[i + 1] = next[j + 1]
        <5>1. i + 1 \in 2 .. 1 + PageSize /\ Len(next) - PageSize + (i + 1) - 1 = j + 1
          BY <2>0, <3>1
        <5> QED BY <2>4, <5>1
      <4> QED BY <1>1, <4>2, <4>3, <4>4 DEF Unbroken
    <3> QED BY <3>1, <3>2, <3>3
  <2>7. RankOf(kept) = RankOf(next)
    <3>1. kept[1 + PageSize] = next[Len(next)]
      <4>1. 1 + PageSize \in 2 .. 1 + PageSize /\ Len(next) - PageSize + (1 + PageSize) - 1 = Len(next)
        BY <2>0
      <4> QED BY <2>4, <4>1
    <3> QED BY <1>1, <2>3, <2>4, <3>1 DEF RankOf
  <2>8. AppendLiveLog(text, chunk) = kept
    BY <1>3, <2>0 DEF AppendLiveLog, kept, cut, next
  <2> QED BY <1>1, <2>3, <2>5, <2>6, <2>7, <2>8 DEF Unbroken
<1> QED BY <1>1, <1>2, <1>3, LogAssumption

\* What a read returns: pieces in order, up to the new offset.
LEMMA ChunkOfLog ==
  ASSUME log \in Seq(Pieces), offset \in Nat, offset < Len(log),
         \A i \in 1 .. Len(log) : log[i] = i, NEW r \in Nat, offset <= r \/ offset = 0
  PROVE  LET next == ChunkEnd(offset)
             chunk == SubSeq(log, offset + 1, next)
         IN  /\ next \in offset + 1 .. Len(log)
             /\ Follows(chunk, r) /\ RankOf(chunk) = next
<1> DEFINE next == ChunkEnd(offset)
           chunk == SubSeq(log, offset + 1, next)
<1>1. next \in offset + 1 .. Len(log)
  BY LogAssumption DEF ChunkEnd
<1>2. /\ chunk \in Seq(Pieces) /\ Len(chunk) = next - offset
      /\ \A i \in 1 .. Len(chunk) : chunk[i] = log[offset + i]
  BY <1>1
<1>3. \A i \in 1 .. Len(chunk) : chunk[i] = offset + i
  BY <1>1, <1>2
<1> HIDE DEF chunk, next
<1>4. Len(chunk) \in Nat \ {0} /\ chunk # <<>>
  BY <1>1, <1>2 DEF chunk
<1>5. Rank(offset + 1) = offset + 1 /\ \A i \in 1 .. Len(chunk) : Rank(chunk[i]) = chunk[i]
  BY <1>3, <1>4 DEF Rank, Notice
<1>6. Unbroken(chunk)
  BY <1>3, <1>4, <1>5 DEF Unbroken
<1>7. chunk[1] <= r + 1
  BY <1>3, <1>4
<1>8. RankOf(chunk) = next
  BY <1>1, <1>2, <1>3, <1>4, <1>5 DEF RankOf
<1> QED BY <1>1, <1>4, <1>6, <1>7, <1>8 DEF Follows, chunk, next

-----------------------------------------------------------------------------
(* Types, and the worker's part.                                           *)

\* The sizes one by one.
LEMMA Sizes ==
  /\ TailSize \in Nat \ {0} /\ EventSize \in Nat \ {0} /\ PageSize \in Nat \ {0}
  /\ MaxPieces \in Nat /\ MaxCleanup \in Nat /\ MaxDrops \in Nat
BY LogAssumption

\* What a poll reads of the log is text.
LEMMA ChunkTyped ==
  ASSUME NEW n \in Nat, log \in Seq(Pieces), offset \in Nat, n = Len(log), offset < n
  PROVE  /\ ChunkEnd(offset) \in offset + 1 .. n
         /\ SubSeq(log, offset + 1, ChunkEnd(offset)) \in Seq(Text)
<1> DEFINE next == ChunkEnd(offset)
<1>1. next \in offset + 1 .. n
  BY Sizes DEF ChunkEnd
<1>2. log \in Seq(Text)
  BY DEF Text
<1> HIDE DEF next
<1>3. SubSeq(log, offset + 1, next) \in Seq(Text)
  BY <1>1, <1>2
<1> QED BY <1>1, <1>3 DEF next

\* Messages are well-formed.
LEMMA Messages ==
  /\ \A chunk \in Seq(Text) : Log(chunk) \in Events
  /\ \A status \in Rows : Run(status) \in Events /\ Complete(status) \in Events
  /\ Log(<<Notice>>) \in Events
<1>1. \A chunk \in Seq(Text) : Log(chunk) \in Events
  BY DEF Log, Events, Text
<1>2. \A status \in Rows : Run(status) \in Events /\ Complete(status) \in Events
  BY DEF Run, Complete, Events
<1>3. <<Notice>> \in Seq(Text)
  BY DEF Text
<1> QED BY <1>1, <1>2, <1>3

LEMMA InitHolds == Init => IInv
<1> SUFFICES ASSUME Init PROVE IInv
  OBVIOUS
<1>1. TypeOK
  <2>1. exists \in BOOLEAN /\ initialized \in BOOLEAN
    BY DEF Init
  <2>2. log \in Seq(Pieces) /\ wire \in Seq(Events) /\ shown \in Seq(Pieces \cup {Notice})
    BY EmptySeq DEF Init
  <2>3. written \in 0 .. (MaxPieces + MaxCleanup) /\ atEnd \in 0 .. MaxPieces /\ drops \in 0 .. MaxDrops
    BY LogAssumption DEF Init
  <2>4. /\ worker \in Workers /\ row \in Rows /\ pc \in Polls /\ page \in Pages
        /\ offset \in Nat /\ previous = "none" /\ ticks \in 0 .. 2 /\ size \in Nat /\ shownRun = "none"
    BY DEF Init, Workers, Rows, Polls, Pages
  <2> QED BY <2>1, <2>2, <2>3, <2>4 DEF TypeOK
<1>2. WorkerOK /\ LogOK /\ Terminal
  BY LogAssumption DEF Init, WorkerOK, LogOK, Terminal, Gone
<1>3. Told /\ Shown /\ Carried
  BY DEF Init, Told, Shown, Carried, Starts, Unbroken
<1> QED BY <1>1, <1>2, <1>3 DEF IInv

\* The worker, the row and the file.
LEMMA WorkerKept ==
  ASSUME TypeOK, WorkerOK, [Next]_vars
  PROVE  /\ WorkerOK'
         /\ (worker \in Workers /\ row \in Rows \cup Gone /\ exists \in BOOLEAN)'
         /\ (written \in 0 .. (MaxPieces + MaxCleanup) /\ atEnd \in 0 .. MaxPieces)'
         /\ (log \in Seq(Pieces))'
<1> USE LogAssumption DEF TypeOK, WorkerOK, Workers, Rows, Gone
<1>1. CASE Claim
  BY <1>1 DEF Claim, fileVars
<1>2. CASE OpenLog
  BY <1>2 DEF OpenLog
<1>3. CASE WriteLog
  <2>1. /\ worker = "running" => written < MaxPieces
        /\ worker = "cleanup" => written < atEnd + MaxCleanup
        /\ worker \in {"running", "cleanup"} /\ exists' = TRUE
        /\ written' = written + 1 /\ log' = Append(log, written + 1)
        /\ UNCHANGED <<worker, row, atEnd>>
    BY <1>3 DEF WriteLog
  <2>2. written \in Nat /\ atEnd \in 0 .. MaxPieces /\ log \in Seq(Pieces)
    BY Sizes
  <2>3. written' \in 1 .. MaxPieces + MaxCleanup
    <3> HIDE DEF TypeOK, WorkerOK
    <3> QED BY <2>1, <2>2, Sizes
  <2>4. log' \in Seq(Pieces)
    <3>1. log' = Append(log, written')
      BY <2>1
    <3> DEFINE last == written'
    <3>2. log' = Append(log, last) /\ last \in Pieces
      BY <2>3, <3>1 DEF Pieces
    <3> HIDE DEF last, TypeOK, WorkerOK
    <3> QED BY <2>2, <3>2
  <2>5. WorkerOK'
    <3>1. worker' = "running" => row' = "running" /\ written' <= MaxPieces
      BY <2>1, <2>2, <2>3, Sizes
    <3>2. worker' = "cleanup" => row' \notin {"queued", "running"}
      BY <2>1
    <3>3. row' = "queued" => worker' = "away"
      BY <2>1
    <3>4. row' = "ended" => atEnd' <= written' /\ written' <= atEnd' + MaxCleanup
      <4>1. row = "ended" => worker = "cleanup" /\ atEnd <= written
        BY <2>1
      <4> HIDE DEF TypeOK, WorkerOK
      <4> QED BY <2>1, <2>2, <4>1, Sizes
    <3>5. row' = "running" => written' <= MaxPieces
      BY <2>1, <3>1, <3>2
    <3> QED BY <2>1, <3>1, <3>2, <3>3, <3>4, <3>5
  <2>6. (worker \in Workers /\ row \in Rows \cup Gone /\ exists \in BOOLEAN)'
    BY <2>1
  <2>7. (atEnd \in 0 .. MaxPieces)' /\ (written \in 0 .. (MaxPieces + MaxCleanup))'
    BY <2>1, <2>2, <2>3
  <2> HIDE DEF WorkerOK, TypeOK, Workers, Rows, Gone
  <2> QED BY <2>4, <2>5, <2>6, <2>7
<1>4. CASE EndRun \/ EndCleanup \/ Crash
  <2>1. CASE EndRun
    BY <2>1 DEF EndRun, fileVars
  <2>2. CASE EndCleanup
    BY <2>2 DEF EndCleanup, fileVars
  <2>3. CASE Crash
    BY <2>3 DEF Crash, fileVars
  <2> QED BY <1>4, <2>1, <2>2, <2>3
<1>5. CASE MarkInterrupted
  BY <1>5 DEF MarkInterrupted, fileVars
<1>6. CASE PruneRow
  BY <1>6 DEF PruneRow, fileVars
<1>7. CASE PruneLog
  BY <1>7, EmptySeq DEF PruneLog
<1>8. CASE CancelQueued
  BY <1>8 DEF CancelQueued, fileVars
<1>9. CASE DeleteRepository
  BY <1>9, EmptySeq DEF DeleteRepository
<1>10. CASE UNCHANGED workerVars
  BY <1>10 DEF workerVars, fileVars
<1>11. Poll \/ Load \/ Connect \/ Drop \/ Receive \/ StreamClosed \/ vars' = vars => UNCHANGED workerVars
  BY DEF Poll, Look, Throw, Stat, InitialOffset, ReadChunk, ReadRun, ReadRunUntil, PollStep,
         Load, Connect, Drop, Receive, StreamClosed, vars
<1> QED
  BY <1>1, <1>2, <1>3, <1>4, <1>5, <1>6, <1>7, <1>8, <1>9, <1>10, <1>11 DEF Next, Worker

\* The handler's locals.
LEMMA HandlerType ==
  ASSUME TypeOK, Terminal, [Next]_vars
  PROVE  (/\ pc \in Polls /\ offset \in Nat /\ initialized \in BOOLEAN
          /\ previous \in Rows \cup {"none"} /\ ticks \in 0 .. 2 /\ size \in Nat)'
<1>0. /\ pc \in Polls /\ offset \in Nat /\ initialized \in BOOLEAN
      /\ previous \in Rows \cup {"none"} /\ ticks \in 0 .. 2 /\ size \in Nat
      /\ Len(log) \in Nat /\ row \in Rows \cup Gone
  BY DEF TypeOK
<1>1. CASE Look
  BY <1>0, <1>1 DEF Look, Polls
<1>2. CASE Throw
  BY <1>0, <1>2 DEF Throw, Polls
<1>3. CASE Stat
  BY <1>0, <1>3 DEF Stat, Polls
<1>4. CASE InitialOffset
  BY <1>0, <1>4, Sizes DEF InitialOffset, Polls, Tailed
<1>5. CASE ReadChunk
  BY <1>0, <1>5, Sizes DEF ReadChunk, Polls, ChunkEnd
<1>6. CASE ReadRun
  <2>1. pc \in {"row", "read"}
    BY <1>6 DEF ReadRun, ReadRunUntil
  <2>2. ticks \in 0 .. 1
    BY <1>0, <2>1 DEF Terminal
  <2> QED BY <1>0, <1>6, <2>2 DEF ReadRun, ReadRunUntil, Polls, Rows
<1>7. CASE Connect
  <2>1. /\ pc' \in {"off", "idle"} /\ offset' = 0 /\ initialized' = FALSE
        /\ previous' = "none" /\ ticks' = 0 /\ size' = 0
    BY <1>7 DEF Connect
  <2>2. initialized' \in BOOLEAN
    BY <2>1
  <2> QED BY <2>1, <2>2 DEF Polls
<1>8. CASE Drop
  BY <1>0, <1>8 DEF Drop, Polls
<1>9. CASE UNCHANGED serverVars
  BY <1>0, <1>9 DEF serverVars
<1>10. Worker \/ CancelQueued \/ DeleteRepository \/ Load \/ Receive \/ StreamClosed \/ vars' = vars
         => UNCHANGED serverVars
  BY DEF Worker, Claim, OpenLog, WriteLog, EndRun, EndCleanup, Crash, MarkInterrupted, PruneRow,
         PruneLog, CancelQueued, DeleteRepository, WorkerStep, Load, Receive, StreamClosed, vars
<1> QED
  BY <1>1, <1>2, <1>3, <1>4, <1>5, <1>6, <1>7, <1>8, <1>9, <1>10 DEF Next, Poll

\* What is sent.
LEMMA WireType ==
  ASSUME TypeOK, [Next]_vars
  PROVE  wire' \in Seq(Events)
<1> USE DEF TypeOK
<1>1. CASE Stat
  <2>1. <<Log(<<Notice>>)>> \in Seq(Events)
    BY Messages
  <2>2. wire' = wire \/ wire' = wire \o <<Log(<<Notice>>)>>
    BY <1>1 DEF Stat, Send
  <2> QED BY <2>1, <2>2, ConcatProperties
<1>2. CASE InitialOffset
  <2>1. <<Log(<<Notice>>)>> \in Seq(Events) /\ <<>> \in Seq(Events)
    BY Messages
  <2>2. wire' = wire \o <<>> \/ wire' = wire \o <<Log(<<Notice>>)>>
    BY <1>2 DEF InitialOffset, Send
  <2> QED BY <2>1, <2>2, ConcatProperties
<1>3. CASE ReadChunk
  <2> DEFINE chunk == SubSeq(log, offset + 1, ChunkEnd(offset))
  <2>1. offset < Len(log) => chunk \in Seq(Text)
    <3>1. log \in Seq(Pieces) /\ offset \in Nat /\ Len(log) \in Nat
      BY DEF TypeOK
    <3> QED BY <3>1, ChunkTyped
  <2>2. offset < Len(log) => <<Log(chunk)>> \in Seq(Events)
    <3> HIDE DEF chunk
    <3> QED BY <2>1, Messages
  <2>3. wire' = wire \/ (offset < Len(log) /\ wire' = wire \o <<Log(chunk)>>)
    BY <1>3 DEF ReadChunk, Send
  <2> HIDE DEF chunk
  <2> QED BY <2>2, <2>3, ConcatProperties
<1>4. CASE ReadRun
  <2> DEFINE told == IF row # previous THEN <<Run(row)>> ELSE <<>>
             last == IF ticks' >= 2 THEN <<Complete(row)>> ELSE <<>>
  <2>1. row \in Rows => told \in Seq(Events) /\ last \in Seq(Events)
    <3>1. <<>> \in Seq(Events)
      BY EmptySeq
    <3> QED BY <3>1, Messages
  <2>2. wire' = wire \/ (row \in Rows /\ wire' = wire \o (told \o last))
    BY <1>4 DEF ReadRun, ReadRunUntil, Send
  <2> HIDE DEF told, last
  <2> QED BY <2>1, <2>2, ConcatProperties
<1>5. CASE Receive
  BY <1>5 DEF Receive
<1>6. CASE Connect \/ Drop
  BY <1>6, EmptySeq DEF Connect, Drop
<1>7. Worker \/ CancelQueued \/ DeleteRepository \/ Load \/ StreamClosed \/ Look \/ Throw \/ vars' = vars
         => UNCHANGED wire
  BY DEF Worker, Claim, OpenLog, WriteLog, EndRun, EndCleanup, Crash, MarkInterrupted, PruneRow,
         PruneLog, CancelQueued, DeleteRepository, WorkerStep, Load, StreamClosed, Look, Throw, vars
<1> QED
  BY <1>1, <1>2, <1>3, <1>4, <1>5, <1>6, <1>7 DEF Next, Poll

\* What the page shows.
LEMMA LiveLogType ==
  ASSUME NEW text \in Seq(Text), NEW chunk \in Seq(Text)
  PROVE  AppendLiveLog(text, chunk) \in Seq(Text)
<1> DEFINE next == text \o chunk
           cut == SubSeq(next, Len(next) - PageSize + 1, Len(next))
<1>1. next \in Seq(Text) /\ <<Notice>> \in Seq(Text)
  BY ConcatProperties DEF Text
<1> HIDE DEF next
<1>2. CASE Len(next) <= PageSize
  BY <1>1, <1>2 DEF AppendLiveLog, next
<1>3. CASE Len(next) > PageSize
  <2>1. cut \in Seq(Text)
    BY <1>1, <1>3, LogAssumption
  <2>2. <<Notice>> \o cut \in Seq(Text)
    BY <1>1, <2>1, ConcatProperties
  <2>3. ~(Len(next) <= PageSize)
    BY <1>1, <1>3, LogAssumption
  <2>4. AppendLiveLog(text, chunk) = <<Notice>> \o cut
    BY <2>3, Zenon DEF AppendLiveLog, next
  <2> QED BY <2>2, <2>4
<1> QED BY <1>1, <1>2, <1>3, LogAssumption

LEMMA PageType ==
  ASSUME TypeOK, [Next]_vars
  PROVE  (/\ page \in Pages /\ shown \in Seq(Text)
          /\ shownRun \in Rows \cup {"none"} /\ drops \in 0 .. MaxDrops)'
<1> USE LogAssumption DEF TypeOK, Text
<1>1. CASE Load
  BY <1>1 DEF Load, Pages
<1>2. CASE Connect
  BY <1>2 DEF Connect, Pages
<1>3. CASE Drop
  BY <1>3 DEF Drop, Pages
<1>4. CASE Receive
  <2>1. Head(wire) \in Events
    BY <1>4 DEF Receive
  <2>2. CASE Head(wire).event = "log"
    <3>1. Head(wire).chunk \in Seq(Text)
      BY <2>1, <2>2 DEF Events
    <3>2. AppendLiveLog(shown, Head(wire).chunk) \in Seq(Text)
      BY <3>1, LiveLogType
    <3> QED BY <1>4, <2>2, <3>2 DEF Receive
  <2>3. CASE Head(wire).event # "log"
    <3>1. Head(wire).run \in Rows
      BY <2>1, <2>3 DEF Events
    <3> QED BY <1>4, <2>3, <3>1 DEF Receive, Pages
  <2> QED BY <2>2, <2>3
<1>5. CASE StreamClosed
  BY <1>5 DEF StreamClosed, Pages
<1>6. CASE UNCHANGED pageVars
  BY <1>6 DEF pageVars
<1>7. Worker \/ CancelQueued \/ DeleteRepository \/ Poll \/ vars' = vars => UNCHANGED pageVars
  BY DEF Worker, Claim, OpenLog, WriteLog, EndRun, EndCleanup, Crash, MarkInterrupted, PruneRow,
         PruneLog, CancelQueued, DeleteRepository, WorkerStep, Poll, Look, Throw, Stat,
         InitialOffset, ReadChunk, ReadRun, ReadRunUntil, PollStep, vars
<1> QED
  BY <1>1, <1>2, <1>3, <1>4, <1>5, <1>6, <1>7 DEF Next

LEMMA TypeStep == TypeOK /\ WorkerOK /\ Terminal /\ [Next]_vars => TypeOK' /\ WorkerOK'
BY WorkerKept, HandlerType, WireType, PageType DEF TypeOK, Text

-----------------------------------------------------------------------------
(* The file and the handler.                                               *)

LEMMA EndIsFinal ==
  ASSUME WorkerOK, [Next]_vars
  PROVE  /\ row \in Gone => row' \in Gone
         /\ row \in {"ended"} \cup Gone => row' \in {"ended"} \cup Gone /\ atEnd' = atEnd
<1>1. CASE Claim \/ EndRun \/ MarkInterrupted \/ CancelQueued
  BY <1>1 DEF WorkerOK, Gone, Claim, EndRun, MarkInterrupted, CancelQueued
<1>2. CASE PruneRow \/ DeleteRepository
  BY <1>2 DEF Gone, PruneRow, DeleteRepository
<1>3. CASE UNCHANGED <<row, atEnd>>
  BY <1>3
<1>4. Claim \/ EndRun \/ MarkInterrupted \/ CancelQueued \/ PruneRow \/ DeleteRepository \/ UNCHANGED <<row, atEnd>>
  BY DEF Next, Worker, OpenLog, WriteLog, EndCleanup, Crash, PruneLog, Poll, Look, Throw, Stat,
         InitialOffset, ReadChunk, ReadRun, ReadRunUntil, PollStep, Load, Connect, Drop, Receive,
         StreamClosed, vars, workerVars
<1> QED BY <1>1, <1>2, <1>3, <1>4

\* As long as the run has a row, its log only grows.
LEMMA LogKept ==
  ASSUME TypeOK, WorkerOK, LogOK, [Next]_vars, row' \notin Gone
  PROVE  /\ row \notin Gone
         /\ Len(log') = written' /\ (\A i \in 1 .. Len(log') : log'[i] = i) /\ (written' > 0 => exists')
         /\ Len(log) <= Len(log')
<1>0. row \notin Gone /\ Len(log) = written /\ written \in Nat /\ log \in Seq(Pieces)
  BY EndIsFinal DEF LogOK, TypeOK
<1>1. CASE OpenLog
  BY <1>0, <1>1 DEF OpenLog, WorkerOK
<1>2. CASE WriteLog
  <2>1. written + 1 \in Pieces
    <3>1. written + 1 <= MaxPieces + MaxCleanup
      <4>1. CASE worker = "running"
        BY <1>0, <1>2, <4>1, Sizes DEF WriteLog
      <4>2. CASE worker = "cleanup"
        <5>1. written < atEnd + MaxCleanup /\ atEnd \in 0 .. MaxPieces
          BY <1>2, <4>2 DEF WriteLog, TypeOK
        <5> QED BY <1>0, <5>1, Sizes
      <4> QED BY <1>2, <4>1, <4>2 DEF WriteLog
    <3> QED BY <1>0, <3>1, Sizes DEF Pieces
  <2>2. /\ Len(log') = written + 1 /\ log'[written + 1] = written + 1
        /\ \A i \in 1 .. Len(log) : log'[i] = log[i]
    BY <1>0, <1>2, <2>1 DEF WriteLog
  <2> QED BY <1>0, <1>2, <2>2 DEF WriteLog, LogOK
<1>3. CASE UNCHANGED fileVars
  BY <1>0, <1>3 DEF fileVars, LogOK
<1>4. ~PruneLog /\ ~DeleteRepository
  BY DEF PruneLog, DeleteRepository, Gone
<1>5. OpenLog \/ WriteLog \/ UNCHANGED fileVars
  BY <1>4 DEF Next, Worker, Claim, EndRun, EndCleanup, Crash,
       MarkInterrupted, PruneRow, CancelQueued, Poll, Look, Throw, Stat,
       InitialOffset, ReadChunk, ReadRun, ReadRunUntil, PollStep, Load, Connect, Drop, Receive,
       StreamClosed, vars, workerVars
<1> QED BY <1>1, <1>2, <1>3, <1>5

\* Every step is one of the worker or of another request, of a poll, or of the page.
LEMMA Steps ==
  ASSUME [Next]_vars
  PROVE  \/ UNCHANGED <<serverVars, wire, pageVars>>
         \/ UNCHANGED workerVars /\ (Poll \/ Load \/ Connect \/ Drop \/ Receive \/ StreamClosed)
BY DEF Next, Worker, Claim, OpenLog, WriteLog, EndRun, EndCleanup, Crash, MarkInterrupted, PruneRow,
       PruneLog, CancelQueued, DeleteRepository, WorkerStep, Poll, Look, Throw, Stat, InitialOffset,
       ReadChunk, ReadRun, ReadRunUntil, PollStep, Load, Connect, Drop, Receive, StreamClosed, vars

LEMMA TerminalKept ==
  ASSUME TypeOK, WorkerOK, LogOK, Terminal, [Next]_vars
  PROVE  Terminal'
<1>1. CASE UNCHANGED <<serverVars, wire, pageVars>>
  <2>1. /\ (pc # "ended" => ticks <= 1)' /\ (ticks >= 1 => row \in {"ended"} \cup Gone)'
    BY <1>1, EndIsFinal DEF Terminal, serverVars
  <2>2. ASSUME row' \notin Gone
        PROVE  /\ offset' <= Len(log') /\ size' <= Len(log')
               /\ ticks' = 1 /\ pc' \in {"start", "read"} => atEnd' <= size'
               /\ ticks' = 1 /\ pc' = "row" => atEnd' = 0
    <3>1. row \notin Gone /\ Len(log) <= Len(log') /\ Len(log) \in Nat /\ Len(log') \in Nat
      BY <2>2, LogKept, WorkerKept DEF TypeOK
    <3>2. UNCHANGED <<offset, size, ticks, pc>> /\ offset \in Nat /\ size \in Nat
      BY <1>1 DEF serverVars, TypeOK
    <3>3. ticks = 1 => atEnd' = atEnd
      BY <2>2, EndIsFinal DEF Terminal, WorkerOK, Gone
    <3> QED BY <3>1, <3>2, <3>3 DEF Terminal
  <2> QED BY <2>1, <2>2 DEF Terminal
<1>2. CASE UNCHANGED workerVars /\ (Load \/ Receive \/ StreamClosed)
  BY <1>2 DEF Load, Receive, StreamClosed, serverVars, workerVars, fileVars, Terminal
<1>3. CASE UNCHANGED workerVars /\ Connect
  BY <1>3, LogAssumption DEF Connect, workerVars, fileVars, Terminal, TypeOK
<1>4. CASE UNCHANGED workerVars /\ Drop
  BY <1>4 DEF Drop, workerVars, fileVars, Terminal
<1>5. CASE UNCHANGED workerVars /\ Poll
  <2> USE DEF Terminal, workerVars, fileVars
  <2>0. Len(log) \in Nat /\ offset \in Nat /\ size \in Nat /\ ticks \in Nat /\ atEnd \in Nat /\ written \in Nat
    BY DEF TypeOK
  <2>1. CASE Look
    <3>1. row \notin Gone /\ ticks = 1 /\ ~exists => atEnd = 0
      BY <2>0 DEF LogOK, WorkerOK
    <3> QED BY <1>5, <2>1, <3>1 DEF Look
  <2>2. CASE Throw
    BY <1>5, <2>2 DEF Throw
  <2>3. CASE Stat
    <3>1. row \notin Gone /\ ticks = 1 => atEnd <= Len(log)
      BY <2>0 DEF LogOK, WorkerOK
    <3> QED BY <1>5, <2>0, <2>3, <3>1 DEF Stat
  <2>4. CASE InitialOffset
    BY <1>5, <2>0, <2>4, LogAssumption DEF InitialOffset, Tailed
  <2>5. CASE ReadChunk
    <3>1. row \notin Gone => offset < Len(log)
      BY <2>0, <2>5 DEF ReadChunk
    <3>2. offset < Len(log) => ChunkEnd(offset) <= Len(log) /\ pc' = pc
      BY <2>0, <2>5, LogAssumption DEF ReadChunk, ChunkEnd
    <3>3. offset < Len(log) => offset' = ChunkEnd(offset)
      BY <2>5 DEF ReadChunk
    <3>4. UNCHANGED <<ticks, size, row, log, atEnd>> /\ pc = "read" /\ pc' \in {"read", "row"}
      BY <1>5, <2>5 DEF ReadChunk
    <3> QED BY <3>1, <3>2, <3>3, <3>4
  <2>6. CASE ReadRun
    BY <1>5, <2>0, <2>6 DEF ReadRun, ReadRunUntil
  <2> QED BY <1>5, <2>1, <2>2, <2>3, <2>4, <2>5, <2>6 DEF Poll
<1> QED BY <1>1, <1>2, <1>3, <1>4, <1>5, Steps

-----------------------------------------------------------------------------
(* The messages under way.                                                 *)

\* A message more.
LEMMA Sends ==
  ASSUME NEW w \in Seq(Events), NEW m \in Events, NEW g, NEW r \in Nat,
         Carries(w, g), Moves(m, g[Len(w)], r)
  PROVE  \E h : Carries(w \o <<m>>, h) /\ h[Len(w \o <<m>>)] = r
<1> DEFINE n == Len(w)
           v == w \o <<m>>
           h == [i \in 0 .. n + 1 |-> IF i <= n THEN g[i] ELSE r]
<1>1. n \in Nat /\ <<m>> \in Seq(Events) /\ Len(<<m>>) = 1 /\ <<m>>[1] = m
  OBVIOUS
<1>2. Len(v) = n + 1 /\ \A i \in 1 .. n + 1 : v[i] = IF i <= n THEN w[i] ELSE <<m>>[i - n]
  BY <1>1, ConcatProperties
<1>3. g \in [0 .. n -> Nat] /\ g[0] = RankOf(shown) /\ \A i \in 1 .. n : Moves(w[i], g[i - 1], g[i])
  BY DEF Carries
<1> HIDE DEF n, v
<1>4. h \in [0 .. n + 1 -> Nat] /\ h[0] = RankOf(shown) /\ h[n + 1] = r
  BY <1>1, <1>3
<1>5. ASSUME NEW i \in 1 .. n + 1 PROVE Moves(v[i], h[i - 1], h[i])
  <2>1. CASE i <= n
    <3>1. i \in 1 .. n /\ v[i] = w[i] /\ h[i - 1] = g[i - 1] /\ h[i] = g[i]
      BY <1>1, <1>2, <2>1
    <3> QED BY <1>3, <3>1
  <2>2. CASE i = n + 1
    <3>1. v[i] = m /\ h[i - 1] = g[n] /\ h[i] = r
      BY <1>1, <1>2, <2>2
    <3> QED BY <3>1 DEF n
  <2> QED BY <1>1, <2>1, <2>2
<1> HIDE DEF h
<1>6. Carries(v, h) /\ h[Len(v)] = r
  BY <1>2, <1>4, <1>5 DEF Carries
<1> QED BY <1>6 DEF v

\* The fields of the messages.
LEMMA Chunks ==
  /\ \A chunk : Log(chunk).event = "log" /\ Log(chunk).chunk = chunk
  /\ \A status : Run(status).event = "run" /\ Run(status).run = status
  /\ \A status : Complete(status).event = "complete" /\ Complete(status).run = status
BY DEF Log, Run, Complete

LEMMA NoticeFollows ==
  ASSUME NEW r \in Nat
  PROVE  Follows(<<Notice>>, r) /\ RankOf(<<Notice>>) = Beyond /\ Beyond \in Nat
BY LogAssumption DEF Follows, Unbroken, RankOf, Rank, Notice, Beyond

\* What a poll sends, and which step of it.
LEMMA PollSends ==
  ASSUME TypeOK, Poll
  PROVE  \/ wire' = wire
         \/ Stat /\ wire' = wire \o <<Log(<<Notice>>)>>
         \/ InitialOffset /\ offset' > 0 /\ wire' = wire \o <<Log(<<Notice>>)>>
         \/ /\ ReadChunk /\ offset < Len(log)
            /\ wire' = wire \o <<Log(SubSeq(log, offset + 1, ChunkEnd(offset)))>>
         \/ ReadRun /\ row \in Rows /\ wire' = wire \o <<Run(row)>>
         \/ /\ ReadRun /\ row = "ended" /\ ticks' >= 2
            /\ wire' = wire \o <<Complete(row)>> \/ wire' = (wire \o <<Run(row)>>) \o <<Complete(row)>>
<1>0. wire \in Seq(Events) /\ wire \o <<>> = wire
  BY ConcatEmptySeq DEF TypeOK
<1>1. CASE Look \/ Throw
  BY <1>1 DEF Look, Throw
<1>2. CASE Stat
  BY <1>2 DEF Stat, Send
<1>3. CASE InitialOffset
  BY <1>0, <1>3 DEF InitialOffset, Send
<1>4. CASE ReadChunk
  BY <1>4 DEF ReadChunk, Send
<1>5. CASE ReadRun
  <2>1. CASE row \in Gone
    BY <1>5, <2>1 DEF ReadRun, ReadRunUntil
  <2>2. CASE row \notin Gone
    <3> DEFINE told == IF row # previous THEN <<Run(row)>> ELSE <<>>
               last == IF ticks' >= 2 THEN <<Complete(row)>> ELSE <<>>
    <3>1. row \in Rows /\ ticks \in Nat
      BY <2>2 DEF TypeOK
    <3>2. wire' = wire \o (told \o last) /\ (ticks' >= 2 => row = "ended")
      BY <1>5, <2>2, <3>1 DEF ReadRun, ReadRunUntil, Send
    <3>3. <<Run(row)>> \in Seq(Events) /\ <<Complete(row)>> \in Seq(Events) /\ <<>> \in Seq(Events)
      BY <3>1, Messages, EmptySeq
    <3>4. told \in Seq(Events) /\ last \in Seq(Events)
      BY <3>3
    <3>5. wire' = (wire \o told) \o last
      <4> HIDE DEF told, last
      <4>1. wire \in Seq(Events)
        BY <1>0
      <4>2. wire \o (told \o last) = (wire \o told) \o last
        <5>1. \A u, v \in Seq(Events) : wire \o (u \o v) = (wire \o u) \o v
          BY <4>1, ConcatAssociative
        <5> QED BY ONLY <3>4, <5>1
      <4> QED BY <3>2, <4>2
    <3>6. wire \o <<Run(row)>> \in Seq(Events)
      BY <1>0, <3>3, ConcatProperties
    <3>7. (wire \o <<Run(row)>>) \o <<>> = wire \o <<Run(row)>>
      BY <3>6, ConcatEmptySeq
    <3>8. CASE ticks' >= 2
      <4>1. last = <<Complete(row)>> /\ row = "ended"
        BY <3>2, <3>8
      <4> QED BY <1>0, <1>5, <3>5, <3>8, <4>1
    <3>9. CASE ~(ticks' >= 2)
      <4>1. last = <<>>
        BY <3>9
      <4> QED BY <1>0, <1>5, <3>1, <3>5, <3>7, <4>1
    <3> QED BY <3>8, <3>9
  <2> QED BY <2>1, <2>2
<1> QED BY <1>1, <1>2, <1>3, <1>4, <1>5 DEF Poll

\* Nobody is told of an end that has not come.
LEMMA ToldKept ==
  ASSUME TypeOK, WorkerOK, Told, [Next]_vars
  PROVE  Told'
<1>0. \A status : Said(status) => Said(status)'
  BY EndIsFinal DEF Said
<1>1. CASE UNCHANGED <<wire, page, shownRun>>
  BY <1>0, <1>1 DEF Told
<1>2. CASE Poll
  <2>1. UNCHANGED <<row, page, shownRun>> /\ wire \in Seq(Events)
    BY <1>2 DEF Poll, Look, Throw, Stat, InitialOffset, ReadChunk, ReadRun, ReadRunUntil, PollStep,
                workerVars, pageVars, TypeOK
  <2>2. ASSUME NEW w \in Seq(Events), NEW m \in Events, m.event = "complete" => Said(m.run),
               \A i \in 1 .. Len(w) : w[i].event = "complete" => Said(w[i].run)
        PROVE  /\ \A i \in 1 .. Len(w \o <<m>>) :
                    (w \o <<m>>)[i].event = "complete" => Said((w \o <<m>>)[i].run)
               /\ w \o <<m>> \in Seq(Events)
    <3>1. <<m>> \in Seq(Events) /\ Len(<<m>>) = 1 /\ <<m>>[1] = m /\ Len(w) \in Nat
      OBVIOUS
    <3>2. /\ Len(w \o <<m>>) = Len(w) + 1 /\ w \o <<m>> \in Seq(Events)
          /\ \A i \in 1 .. Len(w) + 1 : (w \o <<m>>)[i] = IF i <= Len(w) THEN w[i] ELSE <<m>>[i - Len(w)]
      BY <3>1, ConcatProperties
    <3>3. ASSUME NEW i \in 1 .. Len(w) + 1
          PROVE  (w \o <<m>>)[i] = m \/ \E j \in 1 .. Len(w) : (w \o <<m>>)[i] = w[j]
      <4>1. CASE i <= Len(w)
        BY <3>1, <3>2, <4>1
      <4>2. CASE i = Len(w) + 1
        BY <3>1, <3>2, <4>2
      <4> QED BY <3>1, <4>1, <4>2
    <3> QED BY <2>2, <3>2, <3>3
  <2>3. \A i \in 1 .. Len(wire) : wire[i].event = "complete" => Said(wire[i].run)
    BY DEF Told
  <2>4. \A i \in 1 .. Len(wire') : wire'[i].event = "complete" => Said(wire'[i].run)
    <3>1. CASE wire' = wire
      BY <2>3, <3>1
    <3>2. ASSUME NEW m \in Events, m.event # "complete", wire' = wire \o <<m>>
          PROVE  \A i \in 1 .. Len(wire') : wire'[i].event = "complete" => Said(wire'[i].run)
      BY <2>1, <2>2, <2>3, <3>2
    <3>3. CASE wire' = wire \o <<Log(<<Notice>>)>>
      BY <3>2, <3>3, Messages, Chunks
    <3>4. CASE offset < Len(log) /\ wire' = wire \o <<Log(SubSeq(log, offset + 1, ChunkEnd(offset)))>>
      <4> DEFINE chunk == SubSeq(log, offset + 1, ChunkEnd(offset))
      <4>1. chunk \in Seq(Text)
        <5>1. log \in Seq(Pieces) /\ offset \in Nat /\ Len(log) \in Nat
          BY DEF TypeOK
        <5> QED BY <3>4, <5>1, ChunkTyped
      <4> HIDE DEF chunk
      <4>2. Log(chunk) \in Events /\ Log(chunk).event # "complete"
        BY <4>1, Messages, Chunks
      <4> QED BY <3>2, <3>4, <4>2 DEF chunk
    <3>5. CASE row \in Rows /\ wire' = wire \o <<Run(row)>>
      BY <3>2, <3>5, Messages, Chunks
    <3>6. CASE /\ row = "ended"
               /\ wire' = wire \o <<Complete(row)>> \/ wire' = (wire \o <<Run(row)>>) \o <<Complete(row)>>
      <4>1. /\ Run(row) \in Events /\ Run(row).event # "complete"
            /\ Complete(row) \in Events /\ Said(Complete(row).run)
        BY <3>6, Messages, Chunks DEF Rows, Said
      <4>2. CASE wire' = wire \o <<Complete(row)>>
        BY <2>1, <2>2, <2>3, <4>1, <4>2
      <4>3. CASE wire' = (wire \o <<Run(row)>>) \o <<Complete(row)>>
        <5> DEFINE w == wire \o <<Run(row)>>
        <5>1. w \in Seq(Events) /\ \A i \in 1 .. Len(w) : w[i].event = "complete" => Said(w[i].run)
          BY <2>1, <2>2, <2>3, <4>1
        <5> HIDE DEF w
        <5>2. \A i \in 1 .. Len(w \o <<Complete(row)>>) :
                 (w \o <<Complete(row)>>)[i].event = "complete" => Said((w \o <<Complete(row)>>)[i].run)
          BY <2>2, <4>1, <5>1
        <5> QED BY <4>3, <5>2 DEF w
      <4> QED BY <3>6, <4>2, <4>3
    <3> QED BY <1>2, <3>1, <3>3, <3>4, <3>5, <3>6, PollSends
  <2> QED BY <1>0, <2>1, <2>4 DEF Told
<1>3. CASE Receive
  <2>1. /\ wire \in Seq(Events) /\ wire # <<>> /\ wire' = Tail(wire) /\ Head(wire) = wire[1]
        /\ Len(wire) \in Nat \ {0}
    BY <1>3 DEF Receive, TypeOK
  <2>2. Len(wire') = Len(wire) - 1 /\ \A i \in 1 .. Len(wire') : wire'[i] = wire[i + 1]
    BY <2>1, HeadTailProperties
  <2>3. \A i \in 1 .. Len(wire') : wire'[i].event = "complete" => Said(wire'[i].run)
    BY <2>1, <2>2 DEF Told
  <2>4. page' = "complete" => Said(shownRun')
    <3>1. page' = "complete" => wire[1].event = "complete" /\ shownRun' = wire[1].run
      BY <1>3, <2>1 DEF Receive
    <3> QED BY <2>1, <3>1 DEF Told
  <2> QED BY <1>0, <2>3, <2>4 DEF Told
<1>4. CASE Connect \/ Drop
  BY <1>0, <1>4 DEF Connect, Drop, Told
<1>5. CASE Load \/ StreamClosed
  BY <1>0, <1>5 DEF Load, StreamClosed, Told
<1> QED BY <1>1, <1>2, <1>3, <1>4, <1>5, Steps DEF pageVars

-----------------------------------------------------------------------------
(* The text on its way and on the page.                                    *)

\* A step that sends nothing and leaves the page alone.
LEMMA Quiet ==
  ASSUME Carried, Told, TypeOK, row \notin Gone, page = "following",
         UNCHANGED <<wire, shown>>, atEnd' = atEnd \/ row \notin {"ended"} \cup Gone,
         \A r \in Nat : Agree(r) => Agree(r)'
  PROVE  Carried'
<1>1. PICK g \in [0 .. Len(wire) -> Nat] : Carries(wire, g) /\ Agree(g[Len(wire)])
  BY DEF Carried
<1>2. Len(wire) \in Nat /\ g[Len(wire)] \in Nat
  <2>1. Len(wire) \in Nat
    BY DEF TypeOK
  <2> DEFINE n == Len(wire)
  <2>2. n \in 0 .. n /\ g \in [0 .. n -> Nat]
    BY <2>1
  <2> HIDE DEF n
  <2>3. g[n] \in Nat
    BY <2>2
  <2> QED BY <2>1, <2>3 DEF n
<1>3. \A i \in 1 .. Len(wire) : Moves(wire[i], g[i - 1], g[i])'
  <2>1. ASSUME NEW i \in 1 .. Len(wire), wire[i].event = "complete" PROVE atEnd' = atEnd
    BY <2>1 DEF Told, Said
  <2>2. ASSUME NEW i \in 1 .. Len(wire) PROVE Moves(wire[i], g[i - 1], g[i])'
    BY <1>1, <2>1 DEF Carries, Moves
  <2> QED BY <2>2
<1>4. Carries(wire, g)'
  BY <1>1, <1>3 DEF Carries
<1>5. Agree(g[Len(wire)])'
  BY <1>1, <1>2
<1> QED BY <1>1, <1>4, <1>5 DEF Carried

\* A poll.
LEMMA CarriedByPoll ==
  ASSUME IInv, Poll, page = "following", row \notin Gone
  PROVE  Carried'
<1> USE DEF IInv
<1>0. UNCHANGED <<worker, row, exists, log, written, atEnd, page, shown>>
  BY DEF Poll, Look, Throw, Stat, InitialOffset, ReadChunk, ReadRun, ReadRunUntil, PollStep,
         workerVars, fileVars, pageVars
<1>1. /\ wire \in Seq(Events) /\ Len(wire) \in Nat
      /\ Len(log) \in Nat /\ offset \in Nat /\ size \in Nat /\ atEnd \in Nat /\ ticks \in Nat
      /\ offset <= Len(log) /\ size <= Len(log) /\ Len(log) = written /\ log \in Seq(Pieces)
  BY DEF TypeOK, Terminal, LogOK
<1>2. PICK g \in [0 .. Len(wire) -> Nat] : Carries(wire, g) /\ Agree(g[Len(wire)])
  BY DEF Carried
<1>3. g[Len(wire)] \in Nat
  BY <1>1
<1>4. ASSUME NEW w \in Seq(Events), NEW h, NEW r \in Nat, wire' = w,
             Carries(w, h), h[Len(w)] = r, Agree(r)'
      PROVE  Carried'
  <2>1. Carries(w, h)'
    BY <1>0, <1>4 DEF Carries, Moves
  <2>2. h \in [0 .. Len(wire') -> Nat] /\ Carries(wire, h)' /\ Agree(h[Len(wire)])'
    BY <1>4, <2>1 DEF Carries
  <2> QED BY <2>2 DEF Carried
<1>5. ASSUME NEW m \in Events, NEW r \in Nat, wire' = wire \o <<m>>,
             Moves(m, g[Len(wire)], r), Agree(r)'
      PROVE  Carried'
  <2>1. <<m>> \in Seq(Events) /\ wire \o <<m>> \in Seq(Events)
    BY <1>1, ConcatProperties
  <2>2. PICK h : Carries(wire \o <<m>>, h) /\ h[Len(wire \o <<m>>)] = r
    BY <1>1, <1>2, <1>5, Sends
  <2> QED BY <1>4, <1>5, <2>1, <2>2
<1>6. CASE Look \/ Throw
  <2>1. wire' = wire /\ offset' = offset /\ pc' \in {"stat", "row", "idle"}
    BY <1>6 DEF Look, Throw
  <2>2. \A r \in Nat : Agree(r) => Agree(r)'
    BY <1>0, <2>1 DEF Agree
  <2> QED BY <1>0, <2>1, <2>2, Quiet
<1>7. CASE Stat
  <2>1. ~(Len(log) < offset)
    BY <1>1
  <2>2. wire' = wire /\ offset' = offset /\ size' = Len(log)
    BY <1>7, <2>1 DEF Stat
  <2>3. \A r \in Nat : Agree(r) => Agree(r)'
    BY <1>0, <2>2 DEF Agree
  <2> QED BY <1>0, <2>2, <2>3, Quiet
<1>8. CASE InitialOffset
  <2>1. offset' = Tailed(Len(log)) /\ size' = size /\ ticks' = ticks /\ pc = "start" /\ pc' = "read"
    BY <1>8 DEF InitialOffset
  <2>2. CASE offset' = 0
    <3>1. wire' = wire
      BY <1>1, <1>8, <2>2, ConcatEmptySeq DEF InitialOffset, Send
    <3>2. \A r \in Nat : Agree(r)'
      BY <2>2 DEF Agree
    <3> QED BY <1>0, <3>1, <3>2, Quiet
  <2>3. CASE offset' # 0
    <3>1. offset' \in Nat /\ offset' > 0 /\ offset' = Len(log) - TailSize /\ offset' < Len(log)
      BY <1>1, <2>1, <2>3, LogAssumption DEF Tailed
    <3>2. wire' = wire \o <<Log(<<Notice>>)>>
      BY <1>8, <3>1 DEF InitialOffset, Send
    <3>3. ticks = 1 => offset' < size'
      <4>1. SUFFICES ASSUME ticks = 1 PROVE offset' < size'
        OBVIOUS
      <4>2. row = "ended" /\ atEnd <= size /\ written <= atEnd + MaxCleanup
        BY <2>1, <4>1 DEF Terminal, WorkerOK
      <4>3. TailSize \in Nat /\ MaxCleanup \in Nat /\ MaxCleanup < TailSize
        BY Sizes, CleanupIsShort
      <4>4. Len(log) = written /\ Len(log) \in Nat /\ size' = size /\ size \in Nat /\ atEnd \in Nat
        BY <1>1, <2>1, <1>8 DEF InitialOffset
      <4> QED BY <3>1, <4>2, <4>3, <4>4
    <3>4. Agree(Beyond)'
      BY <1>0, <2>1, <3>1, <3>3 DEF Agree
    <3>5. Log(<<Notice>>) \in Events /\ Moves(Log(<<Notice>>), g[Len(wire)], Beyond)
      BY <1>3, Messages, Chunks, NoticeFollows DEF Moves
    <3> QED BY <1>5, <3>2, <3>4, <3>5, NoticeFollows
  <2> QED BY <2>2, <2>3
<1>9. CASE ReadChunk
  <2> DEFINE chunk == SubSeq(log, offset + 1, ChunkEnd(offset))
  <2>1. offset < Len(log)
    BY <1>1, <1>9 DEF ReadChunk
  <2>2. wire' = wire \o <<Log(chunk)>> /\ offset' = ChunkEnd(offset)
    BY <1>9, <2>1 DEF ReadChunk, Send
  <2>3. offset <= g[Len(wire)] \/ offset = 0
    BY <1>1, <1>2, LogAssumption DEF Agree, Beyond, TypeOK
  <2>4. \A i \in 1 .. Len(log) : log[i] = i
    BY DEF LogOK
  <2>5. /\ ChunkEnd(offset) \in offset + 1 .. Len(log)
        /\ Follows(chunk, g[Len(wire)]) /\ RankOf(chunk) = ChunkEnd(offset)
    BY <1>1, <1>3, <2>1, <2>3, <2>4, ChunkOfLog
  <2>6. chunk \in Seq(Text)
    BY <1>1, <2>1, <2>5 DEF Text
  <2> HIDE DEF chunk
  <2>7. Log(chunk) \in Events /\ Moves(Log(chunk), g[Len(wire)], ChunkEnd(offset))
    BY <2>5, <2>6, Messages, Chunks DEF Moves
  <2>8. PICK r \in Nat : r = ChunkEnd(offset)
    BY <1>1, <2>5
  <2>9. Agree(r)'
    BY <2>2, <2>8 DEF Agree
  <2> QED BY <1>5, <2>2, <2>7, <2>8, <2>9
<1>10. CASE ReadRun
  <2>0. PICK r \in Nat : r = g[Len(wire)]
    BY <1>3
  <2>1. offset' = offset /\ size' = size /\ pc' \in {"ended", "idle"}
    BY <1>10 DEF ReadRun, ReadRunUntil
  <2>2. \A k \in Nat : Agree(k) => Agree(k)'
    BY <1>0, <2>1 DEF Agree
  <2>3. r \in Nat /\ Agree(r)' /\ Agree(r)
    BY <1>2, <2>2, <2>0
  <2>4. row \in Rows => Run(row) \in Events /\ Moves(Run(row), r, r)
    BY Messages, Chunks DEF Moves
  <2>5. row = "ended" /\ ticks' >= 2 => Complete(row) \in Events /\ Moves(Complete(row), r, r)
    <3>1. SUFFICES ASSUME row = "ended", ticks' >= 2, atEnd > 0 PROVE r \in atEnd .. Beyond - 1
      BY Messages, Chunks DEF Moves, Rows
    <3>2. ticks = 1
      BY <1>1, <1>10, <3>1 DEF ReadRun, ReadRunUntil, Terminal
    <3>3. pc = "read" /\ size <= offset /\ atEnd <= size
      BY <1>1, <1>10, <3>1, <3>2 DEF ReadRun, ReadRunUntil, Terminal
    <3>4. r = offset
      BY <1>1, <2>3, <3>1, <3>2, <3>3 DEF Agree
    <3>5. offset <= MaxPieces + MaxCleanup
      BY <1>1, LogAssumption DEF TypeOK
    <3> QED BY <1>1, <3>3, <3>4, <3>5, LogAssumption DEF Beyond
  <2>6. CASE wire' = wire
    BY <1>0, <2>2, <2>6, Quiet
  <2>7. CASE row \in Rows /\ wire' = wire \o <<Run(row)>>
    BY <1>5, <2>3, <2>4, <2>7, <2>0
  <2>8. CASE row = "ended" /\ ticks' >= 2 /\ wire' = wire \o <<Complete(row)>>
    BY <1>5, <2>3, <2>5, <2>8, <2>0
  <2>9. CASE row = "ended" /\ ticks' >= 2 /\ wire' = (wire \o <<Run(row)>>) \o <<Complete(row)>>
    <3> DEFINE w == wire \o <<Run(row)>>
    <3>1. row \in Rows
      BY <2>9 DEF Rows
    <3>2. PICK h : Carries(w, h) /\ h[Len(w)] = r
      BY <1>1, <1>2, <2>3, <2>4, <3>1, <2>0, Sends
    <3>3. <<Run(row)>> \in Seq(Events) /\ <<Complete(row)>> \in Seq(Events)
      BY <2>4, <2>5, <2>9, <3>1
    <3>4. w \in Seq(Events) /\ w \o <<Complete(row)>> \in Seq(Events)
      BY <1>1, <3>3, ConcatProperties
    <3> HIDE DEF w
    <3>5. PICK k : Carries(w \o <<Complete(row)>>, k) /\ k[Len(w \o <<Complete(row)>>)] = r
      BY <2>3, <2>5, <2>9, <3>2, <3>4, Sends
    <3> QED BY <1>4, <2>3, <2>9, <3>4, <3>5 DEF w
  <2> QED BY <1>10, <2>6, <2>7, <2>8, <2>9, PollSends DEF Stat, InitialOffset, ReadChunk, ReadRun, ReadRunUntil
<1> QED BY <1>6, <1>7, <1>8, <1>9, <1>10 DEF Poll

\* The page takes the first message.
LEMMA Received ==
  ASSUME IInv, Receive, row \notin Gone
  PROVE  Carried' /\ Shown'
<1> USE DEF IInv
<1>1. /\ page = "following" /\ wire \in Seq(Events) /\ wire # <<>> /\ wire' = Tail(wire)
      /\ Head(wire) = wire[1] /\ Len(wire) \in Nat \ {0}
      /\ UNCHANGED <<row, log, atEnd, offset, pc, ticks, size>>
  BY DEF Receive, TypeOK, workerVars, fileVars, serverVars
<1>2. /\ Tail(wire) \in Seq(Events) /\ Len(Tail(wire)) = Len(wire) - 1
      /\ \A i \in 1 .. Len(Tail(wire)) : Tail(wire)[i] = wire[i + 1]
  BY <1>1, HeadTailProperties
<1>3. PICK g \in [0 .. Len(wire) -> Nat] : Carries(wire, g) /\ Agree(g[Len(wire)])
  BY <1>1 DEF Carried
<1>4. g[0] = RankOf(shown) /\ Moves(wire[1], g[0], g[1]) /\ g[0] \in Nat /\ g[1] \in Nat
  <2>1. /\ g \in [0 .. Len(wire) -> Nat] /\ g[0] = RankOf(shown)
        /\ \A i \in 1 .. Len(wire) : Moves(wire[i], g[i - 1], g[i])
    BY <1>3 DEF Carries
  <2> DEFINE n == Len(wire)
  <2>2. n \in Nat \ {0} /\ g \in [0 .. n -> Nat] /\ \A i \in 1 .. n : Moves(wire[i], g[i - 1], g[i])
    BY <1>1, <2>1
  <2> HIDE DEF n
  <2>3. 1 \in 1 .. n /\ 1 - 1 = 0 /\ 0 \in 0 .. n /\ 1 \in 0 .. n
    BY <2>2
  <2>4. Moves(wire[1], g[1 - 1], g[1])
    BY <2>2, <2>3
  <2>5. g[0] \in Nat /\ g[1] \in Nat
    BY <2>2, <2>3
  <2> QED BY <2>1, <2>3, <2>4, <2>5
<1>5. Starts(shown) /\ Unbroken(shown) /\ shown \in Seq(Text) /\ wire[1] \in Events
  BY <1>1 DEF Shown, TypeOK, Text
<1>6. RankOf(shown') = g[1] /\ Starts(shown') /\ Unbroken(shown')
  <2>1. CASE wire[1].event = "log"
    <3>1. /\ wire[1].chunk \in Seq(Text) /\ Follows(wire[1].chunk, RankOf(shown))
          /\ g[1] = RankOf(wire[1].chunk)
      BY <1>4, <1>5, <2>1 DEF Moves, Events, Text
    <3>2. shown' = AppendLiveLog(shown, wire[1].chunk)
      BY <1>1, <2>1 DEF Receive
    <3> QED BY <1>5, <3>1, <3>2, PageKeeps
  <2>2. CASE wire[1].event # "log"
    <3>1. shown' = shown
      BY <1>1, <2>2 DEF Receive
    <3> QED BY <1>4, <1>5, <2>2, <3>1 DEF Moves
  <2> QED BY <2>1, <2>2
<1>7. Shown'
  <2>1. ASSUME page' = "complete", atEnd > 0 PROVE RankOf(shown') \in atEnd .. Beyond - 1
    <3>1. wire[1].event = "complete"
      BY <1>1, <2>1 DEF Receive
    <3> QED BY <1>4, <1>6, <2>1, <3>1 DEF Moves
  <2> QED BY <1>1, <1>6, <2>1 DEF Shown
<1>8. Carried'
  <2>1. PICK n \in Nat : n = Len(wire) - 1
    BY <1>1
  <2>2. PICK h \in [0 .. n -> Nat] : \A i \in 0 .. n : h[i] = g[i + 1]
    <3> DEFINE rest == [i \in 0 .. n |-> g[i + 1]]
    <3>1. \A i \in 0 .. n : i + 1 \in 0 .. Len(wire)
      BY <1>1, <2>1
    <3>2. rest \in [0 .. n -> Nat] /\ \A i \in 0 .. n : rest[i] = g[i + 1]
      BY <3>1
    <3> QED BY <3>2
  <2>3. h[0] = g[1] /\ h[n] = g[Len(wire)]
    BY <1>1, <2>1, <2>2
  <2>4. ASSUME NEW i \in 1 .. n PROVE Moves(Tail(wire)[i], h[i - 1], h[i])
    <3>1. i + 1 \in 1 .. Len(wire) /\ Tail(wire)[i] = wire[i + 1] /\ h[i - 1] = g[i] /\ h[i] = g[i + 1]
      BY <1>1, <1>2, <2>1, <2>2
    <3>2. Moves(wire[i + 1], g[(i + 1) - 1], g[i + 1])
      BY <1>3, <3>1 DEF Carries
    <3>3. (i + 1) - 1 = i
      OBVIOUS
    <3> QED BY <3>1, <3>2, <3>3
  <2>5. \A i \in 1 .. n : Moves(wire[i], h[i - 1], h[i])'
    BY <1>1, <2>4 DEF Moves
  <2>6. Len(wire') = n
    BY <1>1, <1>2, <2>1
  <2>7. Carries(wire, h)'
    BY <1>6, <2>2, <2>3, <2>5, <2>6 DEF Carries
  <2>8. Agree(h[Len(wire)])'
    BY <1>1, <1>3, <2>3, <2>6 DEF Agree
  <2> QED BY <2>2, <2>6, <2>7, <2>8 DEF Carried
<1> QED BY <1>7, <1>8

LEMMA CarriedKept ==
  ASSUME IInv, [Next]_vars
  PROVE  Carried'
<1> SUFFICES ASSUME page' = "following", row' \notin Gone PROVE Carried'
  BY DEF Carried
<1> USE DEF IInv
<1>0. row \notin Gone
  BY EndIsFinal
<1>1. CASE UNCHANGED <<serverVars, wire, pageVars>>
  <2>1. /\ Len(log) <= Len(log') /\ Len(log) \in Nat /\ Len(log') \in Nat
        /\ offset \in Nat /\ UNCHANGED <<offset, pc, ticks, size, wire, page, shown>>
    BY <1>1, LogKept, WorkerKept DEF TypeOK, serverVars, pageVars
  <2>2. \A r \in Nat : Agree(r) => Agree(r)'
    BY <2>1 DEF Agree
  <2>3. atEnd' = atEnd \/ row \notin {"ended"} \cup Gone
    BY EndIsFinal
  <2> QED BY <1>0, <2>1, <2>2, <2>3, Quiet
<1>2. CASE Poll
  <2>1. page' = page
    BY <1>2 DEF Poll, Look, Throw, Stat, InitialOffset, ReadChunk, ReadRun, ReadRunUntil, PollStep, pageVars
  <2> QED BY <1>0, <1>2, <2>1, CarriedByPoll
<1>3. CASE Receive
  BY <1>0, <1>3, Received
<1>4. CASE Connect
  <2>1. wire' = <<>> /\ Len(wire') = 0 /\ offset' = 0 /\ shown' = shown
    BY <1>4 DEF Connect
  <2>2. PICK r \in Nat : r = RankOf(shown)
    <3>1. shown \in Seq(Text)
      BY DEF TypeOK, Text
    <3>2. RankOf(shown) \in 0 .. Beyond /\ Beyond \in Nat
      BY <3>1, RankType, Sizes DEF Beyond
    <3> QED BY <3>2
  <2>3. PICK g \in [0 .. 0 -> Nat] : g[0] = r
    <3> WITNESS [i \in 0 .. 0 |-> r] \in [0 .. 0 -> Nat]
    <3> QED OBVIOUS
  <2>4. Carries(wire, g)'
    BY <2>1, <2>2, <2>3 DEF Carries
  <2>5. Agree(g[Len(wire)])'
    BY <2>1 DEF Agree
  <2> QED BY <2>1, <2>3, <2>4, <2>5 DEF Carried
<1>5. ~Load /\ ~Drop /\ ~StreamClosed
  BY DEF Load, Drop, StreamClosed
<1> QED BY <1>1, <1>2, <1>3, <1>4, <1>5, Steps

LEMMA ShownKept ==
  ASSUME IInv, [Next]_vars
  PROVE  Shown'
<1> SUFFICES ASSUME row' \notin Gone PROVE Shown'
  BY DEF Shown
<1> USE DEF IInv
<1>0. row \notin Gone
  BY EndIsFinal
<1>1. CASE Receive
  BY <1>0, <1>1, Received
<1>2. CASE shown' = shown /\ (page' = "complete" => page = "complete")
  <2>1. page = "complete" => atEnd' = atEnd
    BY EndIsFinal DEF Told, Said
  <2> QED BY <1>0, <1>2, <2>1 DEF Shown
<1>3. Receive \/ (shown' = shown /\ (page' = "complete" => page = "complete"))
  BY Steps DEF Poll, Look, Throw, Stat, InitialOffset, ReadChunk, ReadRun, ReadRunUntil, PollStep,
               Load, Connect, Drop, StreamClosed, pageVars
<1> QED BY <1>1, <1>2, <1>3

-----------------------------------------------------------------------------
(* Theorems.                                                               *)

LEMMA NextHolds == IInv /\ [Next]_vars => IInv'
<1> SUFFICES ASSUME IInv, [Next]_vars PROVE IInv'
  OBVIOUS
<1>1. TypeOK' /\ WorkerOK'
  BY TypeStep DEF IInv
<1>2. LogOK'
  BY LogKept DEF IInv, LogOK
<1>3. Terminal' /\ Told'
  BY TerminalKept, ToldKept DEF IInv
<1>4. Carried' /\ Shown'
  BY CarriedKept, ShownKept
<1> QED BY <1>1, <1>2, <1>3, <1>4 DEF IInv

\* IInv is an invariant, for any sizes, lengths and numbers of dropped
\* connections.
THEOREM Invariance == Spec => []IInv
BY InitHolds, NextHolds, PTL DEF Spec

\* Every variable has its type, and no poll looks past the second tick.
THEOREM TypeCorrect == Spec => []TypeOK
<1>1. IInv => TypeOK
  BY DEF IInv
<1> QED BY <1>1, Invariance, PTL

\* Whatever the tail, the chunks and the page's own cut, and however often the
\* connection breaks, the page leaves no text out without a notice in its
\* place: appendLiveLog and the /events poll.
THEOREM GapsAreMarked == Spec => []NoSilentGap
<1>1. IInv => NoSilentGap
  <2> SUFFICES ASSUME IInv, row \notin Gone
               PROVE  /\ shown # <<>> => shown[1] \in {Notice, 1}
                      /\ \A i \in 1 .. Len(shown) - 1 :
                           {shown[i], shown[i + 1]} \cap {Notice} = {} => shown[i + 1] <= shown[i] + 1
    BY DEF NoSilentGap
  <2>1. Starts(shown) /\ Unbroken(shown) /\ shown \in Seq(Text)
    BY DEF IInv, Shown, TypeOK, Text
  <2>2. shown # <<>> => shown[1] \in {Notice, 1}
    <3>1. shown # <<>> => shown[1] \in Text
      BY <2>1
    <3> QED BY <2>1, <3>1, LogAssumption DEF Starts, Text, Pieces, Notice
  <2>3. ASSUME NEW i \in 1 .. Len(shown) - 1, {shown[i], shown[i + 1]} \cap {Notice} = {}
        PROVE  shown[i + 1] <= shown[i] + 1
    <3>1. shown[i] # Notice
      BY <2>3
    <3> QED BY <2>1, <3>1 DEF Unbroken, Rank
  <2> QED BY <2>2, <2>3
<1> QED BY <1>1, Invariance, PTL

\* A page that is told "complete" shows the run as ended and the log to the
\* end, though each poll reads the log before it reads the status: the second
\* terminal tick of the /events poll.
THEOREM EndIsShown == Spec => []ShowsTheEnd
<1>1. IInv => ShowsTheEnd
  <2> SUFFICES ASSUME IInv, page = "complete"
               PROVE  /\ shownRun = "ended"
                      /\ row \notin Gone /\ atEnd > 0 => shown # <<>> /\ shown[Len(shown)] >= atEnd
    BY DEF ShowsTheEnd
  <2>1. shownRun = "ended"
    BY DEF IInv, Told, Said
  <2>2. ASSUME row \notin Gone, atEnd > 0
        PROVE  shown # <<>> /\ shown[Len(shown)] >= atEnd
    <3>1. RankOf(shown) \in atEnd .. Beyond - 1 /\ atEnd \in Nat
      BY <2>2 DEF IInv, Shown, TypeOK
    <3>2. shown # <<>>
      BY <2>2, <3>1 DEF RankOf
    <3>3. Rank(shown[Len(shown)]) \in atEnd .. Beyond - 1
      BY <3>1, <3>2 DEF RankOf
    <3>4. Rank(shown[Len(shown)]) = shown[Len(shown)]
      BY <3>1, <3>3, LogAssumption DEF Rank, Beyond
    <3> QED BY <3>1, <3>2, <3>3, <3>4, LogAssumption DEF Beyond
  <2> QED BY <2>1, <2>2
<1> QED BY <1>1, Invariance, PTL
=============================================================================
