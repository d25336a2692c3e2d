-------------------------- MODULE Sprint4RunProofs ---------------------------
(***************************************************************************)
(* Proofs about the correctness suite of sprint 4 and the run around it,   *)
(* for any number of batches, of entries in a batch and of tamper tests:   *)
(* the unlocked records, the snapshots, and that the suite fails nothing   *)
(* over a log that can be read; then that inside the run the suite behaves *)
(* as CorrectnessSuite says, that the exit code and the table agree, and   *)
(* that what a successful run leaves on disk is all its own.               *)
(***************************************************************************)
EXTENDS Sprint4Run, SequenceTheorems, TLAPS

-----------------------------------------------------------------------------
(* The suite. *)

\* The leaves of the first n submissions, in order: what every tree of the
\* suite commits to.
FirstLeaves(n) == [i \in 1..n |-> i - 1]

IsHead(c) ==
  /\ c \in Checkpoints /\ c.size <= Len(entries)
  /\ c.root = RootAt(entries, c.size)

\* No Add up to submission n was refused.
InOrder(n) == \A f \in refused : n < f

\* Position p of the log may hold submission n: they are equal, or both are
\* behind a refused entry.
Fits(p, n) ==
  \/ p = n
  \/ ~InOrder(p) /\ ~InOrder(n) /\ p < n

\* One goroutine calls Add, so the log and then the queue hold the submissions
\* in their order, without the refused ones, and each future resolves to the
\* position its entry has got.
LogInv ==
  /\ added \in 0..Total
  /\ refused \subseteq Requests /\ \A f \in refused : f < added
  /\ queue \in Seq([request : Requests, leaf : Leaves])
  /\ entries \in Seq(Leaves)
  /\ Fits(Len(entries) + Len(queue), added)
  /\ \A i \in 1..Len(entries) : Fits(i - 1, entries[i])
  /\ \A i \in 1..Len(queue) :
       /\ Fits(Len(entries) + i - 1, queue[i].request)
       /\ queue[i].leaf = queue[i].request
       /\ queue[i].request < added /\ queue[i].request \notin refused
  /\ index \in [Requests -> Requests \cup {Unresolved}]
  /\ \A r \in Requests :
       index[r] # Unresolved =>
         /\ index[r] < Len(entries) /\ Fits(index[r], r)
         /\ r < added /\ r \notin refused

HeadsInv ==
  /\ IsHead(checkpoint)
  /\ awaited \in [Awaiters -> Checkpoints]
  /\ \A a \in Awaiters : awaited[a].size <= checkpoint.size

\* The goroutines that have ended have written one record each, of an entry
\* that the checkpoint covers.
Recorded(i) == i < added /\ i \notin pending

RecordsInv ==
  /\ \A i \in pending : i \in Requests /\ i < added
  /\ refused \subseteq pending
  /\ records \in [Requests -> [index : Requests, leaf : Leaves \cup {NoToken}]]
  /\ \A i \in Requests :
       /\ records[i] # NoRecord => records[i].index = i /\ Fits(i, records[i].leaf)
       /\ Recorded(i) /\ InOrder(i) =>
            records[i] = [index |-> i, leaf |-> i] /\ i < checkpoint.size

\* The batches before the current one are complete.
SnapshotsInv ==
  /\ snapshots \in Seq(Checkpoints) /\ Len(snapshots) <= Batches
  /\ Len(snapshots) * BatchEntries <= added
  /\ added <= (Len(snapshots) + 1) * BatchEntries
  /\ \A b \in 1..Len(snapshots) :
       /\ snapshots[b].size = b * BatchEntries
       /\ snapshots[b].root = FirstLeaves(b * BatchEntries)
  /\ \A i \in pending : Len(snapshots) * BatchEntries <= i

CheckInv ==
  /\ phase \in {"append", "check", "returned", "fatal"}
  /\ phase \in {"check", "returned"} => Len(snapshots) = Batches /\ refused = {}
  /\ res \in [1..3 -> Counts] /\ unread \in Nat
  /\ OnlyUnreadFails

SInv == LogInv /\ HeadsInv /\ RecordsInv /\ SnapshotsInv /\ CheckInv

-----------------------------------------------------------------------------
(* The constants. *)

\* They are positive, and the submissions are numbered from 0.
LEMMA Sizes ==
  /\ Batches \in Nat /\ Batches > 0 /\ BatchEntries \in Nat /\ BatchEntries > 0
  /\ Total \in Nat /\ Total > 0
  /\ Requests = 0..(Total - 1) /\ Leaves = 0..(Total - 1)
<1>1. Batches \in Nat /\ Batches > 0 /\ BatchEntries \in Nat /\ BatchEntries > 0
  BY BatchesAssumption, BatchEntriesAssumption
<1>2. Batches * BatchEntries \in Nat /\ Batches * BatchEntries > 0
  BY <1>1
<1> QED BY <1>1, <1>2, SubmissionsAssumption DEF Total

\* n whole batches are within the total, and all of them are the total.
LEMMA BatchesWithinTotal ==
  ASSUME NEW n \in Nat, n <= Batches
  PROVE  /\ n * BatchEntries \in Nat /\ n * BatchEntries <= Total
         /\ (n + 1) * BatchEntries = n * BatchEntries + BatchEntries
         /\ n < Batches => n * BatchEntries + BatchEntries <= Total
         /\ n = Batches => n * BatchEntries = Total
<1>1. /\ n * BatchEntries \in Nat
      /\ (n + 1) * BatchEntries = n * BatchEntries + BatchEntries
  BY Sizes
<1>2. PICK k \in Nat : Batches = n + k
  <2>1. Batches - n \in Nat /\ Batches = n + (Batches - n)
    BY Sizes
  <2> QED BY <2>1
<1>3. Total = n * BatchEntries + k * BatchEntries /\ k * BatchEntries \in Nat
  BY <1>2, Sizes DEF Total
<1>4. k > 0 => k * BatchEntries >= BatchEntries
  BY Sizes
<1> QED BY <1>1, <1>2, <1>3, <1>4, Sizes

\* A prefix of the log up to the first refused entry is the first leaves
\* submitted.
LEMMA FirstLeavesRoot ==
  ASSUME LogInv, NEW n \in Nat, n <= Len(entries), \A f \in refused : n <= f
  PROVE  RootAt(entries, n) = FirstLeaves(n)
<1>1. RootAt(entries, n) = [i \in 1..n |-> entries[i]]
  BY DEF LogInv, RootAt
<1>2. ASSUME NEW i \in 1..n PROVE entries[i] = i - 1
  <2>1. i \in 1..Len(entries) /\ i - 1 < n
    BY DEF LogInv
  <2>2. InOrder(i - 1)
    BY <2>1, Sizes DEF InOrder, LogInv
  <2>3. Fits(i - 1, entries[i])
    BY <2>1 DEF LogInv
  <2> QED BY <2>2, <2>3 DEF Fits
<1> QED BY <1>1, <1>2 DEF FirstLeaves

\* The heads are of any length up to that of the log.
LEMMA HeadOfLog ==
  ASSUME LogInv, NEW n \in Nat, n <= Len(entries)
  PROVE  CheckpointAt(entries, n) \in Checkpoints
<1>1. RootAt(entries, n) \in Seq(Leaves)
  BY DEF LogInv, RootAt
<1> QED BY <1>1 DEF CheckpointAt, Checkpoints
-----------------------------------------------------------------------------
(* The steps. *)

\* Nothing is submitted yet.
LEMMA InitSInv == Init => SInv
<1> SUFFICES ASSUME Init PROVE SInv
  OBVIOUS
<1>1. entries = <<>> /\ queue = <<>> /\ Len(entries) = 0 /\ Len(queue) = 0
  BY DEF Init, TesseraInit
<1>2. LogInv
  BY <1>1, Sizes DEF Init, TesseraInit, LogInv, Unresolved, Fits
<1>3. CheckpointAt(entries, 0) \in Checkpoints
  BY <1>1, <1>2, HeadOfLog
<1>4. HeadsInv
  <2>1. checkpoint = CheckpointAt(entries, 0) /\ awaited = [a \in Awaiters |-> checkpoint]
    BY <1>1 DEF Init, TesseraInit, NothingPolled
  <2> QED BY <1>1, <1>3, <2>1 DEF HeadsInv, IsHead, CheckpointAt
<1>5. RecordsInv
  BY Sizes DEF Init, RecordsInv, Recorded, NoRecord, NoToken
<1>6. SnapshotsInv
  BY Sizes DEF Init, SnapshotsInv
<1>7. CheckInv
  BY DEF Init, CheckInv, Counts, OnlyUnreadFails
<1> QED BY <1>2, <1>4, <1>5, <1>6, <1>7 DEF SInv

\* What a step does not touch stays as it was.
LEMMA LogStays ==
  LogInv /\ UNCHANGED <<queue, entries, index, added, refused>> => LogInv'
BY DEF LogInv, Fits, InOrder

\* The same of the heads.
LEMMA HeadsStay ==
  HeadsInv /\ UNCHANGED <<entries, checkpoint, awaited>> => HeadsInv'
BY DEF HeadsInv, IsHead

\* The same of the records.
LEMMA RecordsStay ==
  RecordsInv /\ UNCHANGED <<records, pending, added, refused, checkpoint>> => RecordsInv'
BY DEF RecordsInv, Recorded, Fits, InOrder

\* The same of the snapshots.
LEMMA SnapshotsStay ==
  SnapshotsInv /\ UNCHANGED <<snapshots, added, pending>> => SnapshotsInv'
BY DEF SnapshotsInv

\* The same of the checks.
LEMMA CheckStays ==
  CheckInv /\ UNCHANGED <<phase, snapshots, refused, res, unread>> => CheckInv'
BY DEF CheckInv, OnlyUnreadFails

\* A refusal takes no place in the order of what is already there.
LEMMA FitsLonger ==
  ASSUME NEW p, NEW n, Fits(p, n), refused \subseteq refused'
  PROVE  Fits(p, n)'
BY DEF Fits, InOrder

\* The next entry is queued behind all earlier ones, or it is refused.
LEMMA AddStep == SInv /\ (AddEntry \/ AddRefused) => SInv'
<1> SUFFICES ASSUME SInv, AddEntry \/ AddRefused PROVE SInv'
  OBVIOUS
<1> USE DEF SInv
<1>1. /\ \/ /\ queue' = Append(queue, [request |-> added, leaf |-> added])
            /\ refused' = refused
         \/ queue' = queue /\ refused' = refused \cup {added}
      /\ pending' = pending \cup {added} /\ added' = added + 1 /\ added < Total
      /\ phase = "append" /\ ~BatchAdded
      /\ UNCHANGED <<entries, index, checkpoint, awaited, phase, records,
                     snapshots, res, unread>>
  BY DEF AddEntry, AddRefused, Add, tesseraVars
<1>2. /\ added \in Nat /\ added \in Requests /\ added \in Leaves
      /\ Len(entries) \in Nat /\ Len(queue) \in Nat
      /\ Fits(Len(entries) + Len(queue), added)
      /\ refused \subseteq Requests /\ \A f \in refused : f \in Nat /\ f < added
  BY <1>1, Sizes DEF LogInv
<1>3. LogInv'
  <2>1. /\ refused \subseteq refused' /\ refused' \subseteq Requests
        /\ \A f \in refused' : f < added'
    <3>1. refused' = refused \/ refused' = refused \cup {added}
      BY <1>1
    <3>2. \A f \in refused : f < added + 1
      BY <1>2
    <3>3. added < added + 1 /\ added' = added + 1
      BY <1>1, <1>2
    <3> QED BY <1>2, <3>1, <3>2, <3>3
  <2>T. /\ \A r \in Nat : r < added => r < added' /\ (r \notin refused => r \notin refused')
        /\ \A i \in 1..Len(queue) : queue[i].request \in Nat
    <3>1. refused' = refused \/ refused' = refused \cup {added}
      BY <1>1
    <3>2. \A r \in Nat : r < added => r < added' /\ r # added
      BY <1>1, <1>2
    <3>3. \A i \in 1..Len(queue) : queue[i] \in [request : Requests, leaf : Leaves]
      BY ElementOfSeq DEF LogInv
    <3> QED BY <3>1, <3>2, <3>3, Sizes
  <2>2. /\ \A i \in 1..Len(entries') : Fits(i - 1, entries[i])'
        /\ \A r \in Requests :
             index'[r] # Unresolved =>
               /\ index'[r] < Len(entries') /\ Fits(index[r], r)'
               /\ r < added' /\ r \notin refused'
    <3>1. \A i \in 1..Len(entries') : Fits(i - 1, entries[i])'
      BY <1>1, <2>1, FitsLonger DEF LogInv
    <3>2. ASSUME NEW r \in Requests, index'[r] # Unresolved
          PROVE  /\ index'[r] < Len(entries') /\ Fits(index[r], r)'
                 /\ r < added' /\ r \notin refused'
      <4>1. /\ index[r] < Len(entries) /\ Fits(index[r], r)
            /\ r < added /\ r \notin refused
        BY <1>1, <3>2 DEF LogInv
      <4>2. Fits(index[r], r)'
        BY <1>1, <2>1, <4>1 DEF Fits, InOrder
      <4> QED BY <1>1, <2>T, <4>1, <4>2, Sizes
    <3> QED BY <3>1, <3>2
  <2>3. CASE refused' = refused /\ queue' = Append(queue, [request |-> added, leaf |-> added])
    <3>1. /\ queue' \in Seq([request : Requests, leaf : Leaves])
          /\ Len(queue') = Len(queue) + 1
          /\ \A i \in 1..Len(queue) : queue'[i] = queue[i]
          /\ queue'[Len(queue) + 1] = [request |-> added, leaf |-> added]
      BY <1>2, <2>3 DEF LogInv
    <3>2. Fits(Len(entries') + Len(queue'), added')
      BY <1>1, <1>2, <3>1 DEF Fits, InOrder
    <3>3. ASSUME NEW i \in 1..Len(queue')
          PROVE  /\ Fits(Len(entries') + i - 1, queue'[i].request)
                 /\ queue'[i].leaf = queue'[i].request
                 /\ queue'[i].request < added' /\ queue'[i].request \notin refused'
      <4>1. CASE i \in 1..Len(queue)
        BY <1>1, <2>3, <2>T, <3>1, <4>1 DEF LogInv
      <4>2. CASE i = Len(queue) + 1
        BY <1>1, <1>2, <3>1, <4>2
      <4> QED BY <1>2, <3>1, <4>1, <4>2
    <3>4. Fits(Len(entries') + Len(queue'), added') = Fits(Len(entries) + Len(queue), added)'
      BY <2>3 DEF Fits, InOrder
    <3>5. \A i \in 1..Len(queue') : /\ Fits(Len(entries) + i - 1, queue[i].request)'
                                    /\ queue'[i].leaf = queue'[i].request
                                    /\ queue'[i].request < added'
                                    /\ queue'[i].request \notin refused'
      BY <2>3, <3>3 DEF Fits, InOrder
    <3>6. added' \in 0..Total /\ entries' \in Seq(Leaves)
          /\ index' \in [Requests -> Requests \cup {Unresolved}]
      BY <1>1, <1>2, Sizes DEF LogInv
    <3> QED BY <2>1, <2>2, <3>1, <3>2, <3>4, <3>5, <3>6 DEF LogInv
  <2>4. CASE refused' = refused \cup {added} /\ queue' = queue
    <3>1. Fits(Len(entries) + Len(queue), added)'
      <4>1. Len(entries) + Len(queue) <= added
        BY <1>2 DEF Fits
      <4>2. CASE Len(entries) + Len(queue) = added
        BY <1>1, <1>2, <2>4, <4>2 DEF Fits, InOrder
      <4>3. CASE Len(entries) + Len(queue) < added
        <5>1. PICK f \in refused : ~(Len(entries) + Len(queue) < f)
          BY <1>2, <4>3 DEF Fits, InOrder
        <5> QED BY <1>1, <1>2, <2>4, <4>3, <5>1 DEF Fits, InOrder
      <4> QED BY <1>2, <4>1, <4>2, <4>3
    <3>2. \A i \in 1..Len(queue') : /\ Fits(Len(entries) + i - 1, queue[i].request)'
                                    /\ queue'[i].leaf = queue'[i].request
                                    /\ queue'[i].request < added'
                                    /\ queue'[i].request \notin refused'
      <4> SUFFICES ASSUME NEW i \in 1..Len(queue)
                   PROVE  /\ Fits(Len(entries) + i - 1, queue[i].request)'
                          /\ queue'[i].leaf = queue'[i].request
                          /\ queue'[i].request < added'
                          /\ queue'[i].request \notin refused'
        BY <2>4
      <4>1. /\ Fits(Len(entries) + i - 1, queue[i].request)
            /\ queue[i].leaf = queue[i].request
            /\ queue[i].request < added /\ queue[i].request \notin refused
        BY DEF LogInv
      <4>2. Fits(Len(entries) + i - 1, queue[i].request)'
        <5> DEFINE p == Len(entries) + i - 1
                   r == queue[i].request
        <5>1. p' = p /\ r' = r
          BY <1>1, <2>4
        <5>2. p = r \/ (~InOrder(p) /\ ~InOrder(r) /\ p < r)
          BY <4>1 DEF Fits
        <5> HIDE DEF p, r
        <5>3. Fits(p, r)'
          BY <2>1, <5>1, <5>2 DEF Fits, InOrder
        <5> QED BY <5>3 DEF p, r
      <4> QED BY <2>4, <2>T, <4>1, <4>2
    <3>3. added' \in 0..Total /\ entries' \in Seq(Leaves)
          /\ index' \in [Requests -> Requests \cup {Unresolved}]
          /\ queue' \in Seq([request : Requests, leaf : Leaves])
      BY <1>1, <1>2, <2>4, Sizes DEF LogInv
    <3> QED BY <2>1, <2>2, <3>1, <3>2, <3>3 DEF LogInv
  <2> QED BY <1>1, <2>3, <2>4
<1>4. HeadsInv'
  BY <1>1, HeadsStay
<1>5. RecordsInv'
  <2>1. \A i \in Requests : Recorded(i)' <=> Recorded(i)
    BY <1>1, <1>2, Sizes DEF Recorded
  <2>2. \A i \in pending' : i \in Requests /\ i < added'
    BY <1>1, <1>2, Sizes DEF RecordsInv
  <2>3. UNCHANGED <<records, checkpoint>> /\ refused \subseteq refused'
        /\ refused' \subseteq pending'
    BY <1>1 DEF RecordsInv
  <2>4. \A i \in Requests : InOrder(i)' => InOrder(i)
    BY <2>3 DEF InOrder
  <2>5. \A i \in Requests :
          /\ records'[i] # NoRecord => records'[i].index = i /\ Fits(i, records[i].leaf)'
          /\ (Recorded(i) /\ InOrder(i))' =>
               records'[i] = [index |-> i, leaf |-> i] /\ i < checkpoint'.size
    BY <2>1, <2>3, <2>4, FitsLonger DEF RecordsInv
  <2>6. records' \in [Requests -> [index : Requests, leaf : Leaves \cup {NoToken}]]
    BY <2>3 DEF RecordsInv
  <2> QED BY <2>2, <2>3, <2>5, <2>6 DEF RecordsInv
<1>6. SnapshotsInv'
  <2>1. Len(snapshots) \in Nat /\ added # (Len(snapshots) + 1) * BatchEntries
    BY <1>1 DEF BatchAdded, SnapshotsInv
  <2>2. (Len(snapshots) + 1) * BatchEntries \in Nat /\ Len(snapshots) * BatchEntries \in Nat
    BY <2>1, Sizes
  <2> QED BY <1>1, <1>2, <2>1, <2>2 DEF SnapshotsInv
<1>7. CheckInv'
  BY <1>1 DEF CheckInv, OnlyUnreadFails
<1> QED BY <1>3, <1>4, <1>5, <1>6, <1>7

\* An entry whose Await has returned goes where the log says, and that is where
\* its submission number says unless an earlier entry was refused.
LEMMA RecordStep ==
  ASSUME SInv, NEW r \in Requests, Record(r)
  PROVE  SInv'
<1> USE DEF SInv
<1>1. /\ r \in pending /\ pending' = pending \ {r} /\ phase = "append"
      /\ records' = [records EXCEPT ![index[r]] = [index |-> index[r], leaf |-> r]]
      /\ UNCHANGED <<tesseraVars, phase, added, refused, snapshots, res, unread>>
  BY DEF Record
<1>2. PICK a \in Awaiters : index[r] # Unresolved /\ index[r] < awaited[a].size
  BY DEF Record, AwaitReturns
<1>3. /\ index[r] \in Requests /\ Fits(index[r], r) /\ r \in Leaves
      /\ index[r] < checkpoint.size
  <2>1. index[r] \in Requests /\ Fits(index[r], r) /\ r \in Leaves
    BY <1>2, Sizes DEF LogInv
  <2>2. /\ awaited[a].size \in Nat /\ checkpoint.size \in Nat
        /\ awaited[a].size <= checkpoint.size
    BY DEF HeadsInv, IsHead, Checkpoints
  <2> QED BY <1>2, <2>1, <2>2, Sizes
<1>4. LogInv' /\ HeadsInv' /\ CheckInv'
  BY <1>1, LogStays, HeadsStay, CheckStays DEF tesseraVars
<1>5. SnapshotsInv'
  BY <1>1 DEF SnapshotsInv
<1>6. RecordsInv'
  <2>1. /\ \A i \in Requests : Recorded(i)' => Recorded(i) \/ i = r
        /\ \A i \in Requests : InOrder(i)' <=> InOrder(i)
        /\ \A p, n : Fits(p, n)' <=> Fits(p, n)
        /\ checkpoint' = checkpoint /\ added' = added
    BY <1>1 DEF Recorded, InOrder, Fits, tesseraVars
  <2>2. refused' \subseteq pending' /\ \A i \in pending' : i \in Requests /\ i < added'
    BY <1>1, <1>2 DEF RecordsInv, LogInv
  <2>3. records' \in [Requests -> [index : Requests, leaf : Leaves \cup {NoToken}]]
    BY <1>1, <1>3 DEF RecordsInv
  <2>4. ASSUME NEW i \in Requests
        PROVE  /\ records'[i] # NoRecord =>
                    records'[i].index = i /\ Fits(i, records'[i].leaf)
               /\ Recorded(i)' /\ InOrder(i) =>
                    records'[i] = [index |-> i, leaf |-> i] /\ i < checkpoint.size
    <3>1. CASE i = index[r]
      <4>1. records'[i] = [index |-> i, leaf |-> r] /\ Fits(i, r)
        BY <1>1, <1>3, <3>1 DEF RecordsInv
      <4>2. InOrder(i) => i = r
        BY <4>1 DEF Fits
      <4> QED BY <1>3, <3>1, <4>1, <4>2
    <3>2. CASE i # index[r]
      <4>1. records'[i] = records[i]
        BY <1>1, <1>3, <3>2 DEF RecordsInv
      <4>2. InOrder(i) => i # r
        BY <1>3, <3>2 DEF Fits
      <4> QED BY <2>1, <4>1, <4>2 DEF RecordsInv
    <3> QED BY <3>1, <3>2
  <2>5. \A i \in Requests :
          /\ (records[i] # NoRecord => records[i].index = i /\ Fits(i, records[i].leaf))'
          /\ (Recorded(i) /\ InOrder(i) =>
               records[i] = [index |-> i, leaf |-> i] /\ i < checkpoint.size)'
    BY <2>1, <2>4
  <2> QED BY <2>2, <2>3, <2>5 DEF RecordsInv
<1> QED BY <1>4, <1>5, <1>6

\* Once all goroutines of the batch have ended the checkpoint covers exactly
\* what was added.
LEMMA SnapshotStep == SInv /\ Snapshot => SInv'
<1> SUFFICES ASSUME SInv, Snapshot PROVE SInv'
  OBVIOUS
<1> USE DEF SInv
<1>1. /\ pending = {} /\ added = (Len(snapshots) + 1) * BatchEntries
      /\ phase = "append"
      /\ snapshots' = Append(snapshots, checkpoint)
      /\ UNCHANGED <<tesseraVars, phase, added, pending, refused, records, res,
                     unread>>
  BY DEF Snapshot, BatchAdded
<1>0. refused = {}
  BY <1>1 DEF RecordsInv
<1>2. Len(snapshots) \in Nat /\ checkpoint \in Checkpoints /\ snapshots \in Seq(Checkpoints)
      /\ Len(snapshots) <= Batches
  BY DEF SnapshotsInv, HeadsInv, IsHead
<1>3. added \in Nat /\ added > 0 /\ added <= Total /\ added - 1 \in Requests
  BY <1>1, <1>2, BatchesWithinTotal, Sizes DEF LogInv
<1>4. added - 1 < checkpoint.size
  <2>1. Recorded(added - 1) /\ InOrder(added - 1)
    BY <1>0, <1>1, <1>3 DEF Recorded, InOrder
  <2> QED BY <1>3, <2>1 DEF RecordsInv
<1>5. checkpoint.size = added /\ checkpoint.root = FirstLeaves(added)
  <2>1. /\ checkpoint.size \in Nat /\ checkpoint.size <= Len(entries)
        /\ checkpoint.root = RootAt(entries, checkpoint.size)
    BY DEF HeadsInv, IsHead, Checkpoints
  <2>2. Len(entries) \in Nat /\ Len(queue) \in Nat /\ Len(entries) + Len(queue) <= added
    BY <1>3 DEF LogInv, Fits
  <2>3. RootAt(entries, checkpoint.size) = FirstLeaves(checkpoint.size)
    BY <1>0, <2>1, FirstLeavesRoot
  <2> QED BY <1>3, <1>4, <2>1, <2>2, <2>3
<1>6. Len(snapshots) < Batches
  BY <1>1, <1>2, <1>3, BatchesWithinTotal, Sizes
<1>7. SnapshotsInv'
  <2>1. /\ Len(snapshots') = Len(snapshots) + 1 /\ snapshots' \in Seq(Checkpoints)
        /\ \A b \in 1..Len(snapshots) : snapshots'[b] = snapshots[b]
        /\ snapshots'[Len(snapshots) + 1] = checkpoint
    BY <1>1, <1>2
  <2>2. Len(snapshots) + 1 \in Nat /\ Len(snapshots) + 1 <= Batches
    BY <1>2, <1>6, Sizes
  <2>3. (Len(snapshots) + 1 + 1) * BatchEntries = added + BatchEntries
    BY <1>1, <2>2, BatchesWithinTotal
  <2>4. \A b \in 1..(Len(snapshots) + 1) :
          /\ snapshots'[b].size = b * BatchEntries
          /\ snapshots'[b].root = FirstLeaves(b * BatchEntries)
    <3> TAKE b \in 1..(Len(snapshots) + 1)
    <3>1. CASE b = Len(snapshots) + 1
      BY <1>1, <1>5, <2>1, <3>1
    <3>2. CASE b # Len(snapshots) + 1
      <4>1. b \in 1..Len(snapshots)
        BY <1>2, <3>2
      <4> QED BY <2>1, <4>1 DEF SnapshotsInv
    <3> QED BY <3>1, <3>2
  <2>5. added' = added /\ pending' = {}
    BY <1>1
  <2> QED BY <1>1, <1>3, <2>1, <2>2, <2>3, <2>4, <2>5, Sizes DEF SnapshotsInv
<1>8. LogInv' /\ HeadsInv' /\ RecordsInv'
  BY <1>1, LogStays, HeadsStay, RecordsStay DEF tesseraVars
<1>9. CheckInv'
  BY <1>0, <1>1 DEF CheckInv, OnlyUnreadFails
<1> QED BY <1>7, <1>8, <1>9
\* What remains of a queue when its first n members are taken.
LEMMA RestOfQueue ==
  ASSUME NEW S, NEW q \in Seq(S), NEW n \in 1..Len(q)
  PROVE  /\ SubSeq(q, n + 1, Len(q)) \in Seq(S)
         /\ Len(SubSeq(q, n + 1, Len(q))) = Len(q) - n
         /\ \A i \in 1..(Len(q) - n) : SubSeq(q, n + 1, Len(q))[i] = q[n + i]
<1>1. /\ n + 1 \in Int /\ Len(q) \in Int
      /\ \A i \in (n + 1)..Len(q) : q[i] \in S
  BY ElementOfSeq
<1>2. /\ SubSeq(q, n + 1, Len(q)) \in Seq(S)
      /\ Len(SubSeq(q, n + 1, Len(q))) =
           (IF n + 1 <= Len(q) THEN Len(q) - (n + 1) + 1 ELSE 0)
      /\ \A i \in 1..(Len(q) - (n + 1) + 1) :
           SubSeq(q, n + 1, Len(q))[i] = q[(n + 1) + i - 1]
  BY <1>1, SubSeqProperties
<1> QED BY <1>1, <1>2

\* A batch of the library takes the oldest of the queue, so the log goes on
\* with the next submission numbers and the futures resolve to them.
LEMMA IntegrateStep == SInv /\ Background /\ IntegrateBatch => SInv'
<1> SUFFICES ASSUME SInv, Background, IntegrateBatch PROVE SInv'
  OBVIOUS
<1> USE DEF SInv
<1>1. PICK n \in 1..Len(queue) :
        /\ entries' = entries \o [i \in 1..n |-> queue[i].leaf]
        /\ index' = [r \in Requests |->
             IF \E i \in 1..n : queue[i].request = r
             THEN Len(entries) + Position(r, n) - 1
             ELSE index[r]]
        /\ queue' = SubSeq(queue, n + 1, Len(queue))
  BY DEF IntegrateBatch
<1>2. UNCHANGED <<checkpoint, awaited, phase, added, pending, refused, records,
                  snapshots, res, unread>>
  BY DEF IntegrateBatch, Background, suiteVars
<1>3. /\ Len(entries) \in Nat /\ Len(queue) \in Nat /\ n \in Nat /\ n <= Len(queue)
      /\ added \in 0..Total /\ Len(entries) + Len(queue) <= added
  BY <1>1 DEF LogInv, Fits
<1>4. \A i \in 1..Len(queue) : /\ Fits(Len(entries) + i - 1, queue[i].request)
                               /\ queue[i].leaf = queue[i].request
                               /\ queue[i].leaf \in Leaves
                               /\ queue[i].request < added
                               /\ queue[i].request \notin refused
  <2> TAKE i \in 1..Len(queue)
  <2>1. queue[i] \in [request : Requests, leaf : Leaves]
    BY ElementOfSeq DEF LogInv
  <2> QED BY <2>1 DEF LogInv
<1>F. \A p, r : Fits(p, r)' <=> Fits(p, r)
  BY <1>2 DEF Fits, InOrder
<1>5. /\ [i \in 1..n |-> queue[i].leaf] \in Seq(Leaves)
      /\ Len([i \in 1..n |-> queue[i].leaf]) = n
  BY <1>3, <1>4
<1>6. /\ entries' \in Seq(Leaves) /\ Len(entries') = Len(entries) + n
      /\ \A i \in 1..Len(entries') : Fits(i - 1, entries'[i])
  <2>1. entries' \in Seq(Leaves) /\ Len(entries') = Len(entries) + n
    BY <1>1, <1>5 DEF LogInv
  <2>2. ASSUME NEW i \in 1..(Len(entries) + n)
        PROVE  Fits(i - 1, entries'[i])
    <3>1. CASE i <= Len(entries)
      <4>1. entries'[i] = entries[i]
        BY <1>1, <1>3, <1>5, <3>1 DEF LogInv
      <4> QED BY <1>3, <3>1, <4>1 DEF LogInv
    <3>2. CASE ~(i <= Len(entries))
      <4>1. i - Len(entries) \in 1..n
        BY <1>3, <3>2
      <4>2. entries'[i] = queue[i - Len(entries)].leaf
        BY <1>1, <1>3, <1>5, <3>2, <4>1 DEF LogInv
      <4>3. /\ i - Len(entries) \in 1..Len(queue)
            /\ Len(entries) + (i - Len(entries)) - 1 = i - 1
        BY <1>3, <4>1
      <4>4. Fits(Len(entries) + (i - Len(entries)) - 1, queue[i - Len(entries)].request)
            /\ queue[i - Len(entries)].leaf = queue[i - Len(entries)].request
        BY <1>4, <4>3
      <4> QED BY <4>2, <4>3, <4>4
    <3> QED BY <3>1, <3>2
  <2> QED BY <2>1, <2>2
<1>7. /\ queue' \in Seq([request : Requests, leaf : Leaves])
      /\ Len(queue') = Len(queue) - n
      /\ \A i \in 1..(Len(queue) - n) : queue'[i] = queue[n + i]
  BY <1>1, RestOfQueue DEF LogInv
<1>8. \A i \in 1..Len(queue') :
        /\ Fits(Len(entries') + i - 1, queue'[i].request)
        /\ queue'[i].leaf = queue'[i].request
        /\ queue'[i].request < added /\ queue'[i].request \notin refused
  <2> TAKE i \in 1..Len(queue')
  <2>1. n + i \in 1..Len(queue) /\ queue'[i] = queue[n + i]
    BY <1>3, <1>7
  <2>2. Len(entries) + (n + i) - 1 = Len(entries') + i - 1
    BY <1>3, <1>6, <1>7
  <2> QED BY <1>4, <2>1, <2>2
<1>9. ASSUME NEW r \in Requests, index'[r] # Unresolved
      PROVE  /\ index'[r] \in Nat /\ index'[r] < Len(entries') /\ Fits(index'[r], r)
             /\ r < added /\ r \notin refused
  <2>1. CASE \E i \in 1..n : queue[i].request = r
    <3>1. Position(r, n) \in 1..n /\ queue[Position(r, n)].request = r
      BY <2>1 DEF Position
    <3>2. Position(r, n) \in 1..Len(queue)
      BY <1>3, <3>1
    <3>3. Fits(Len(entries) + Position(r, n) - 1, r) /\ r < added /\ r \notin refused
      BY <1>4, <3>1, <3>2
    <3>4. index'[r] = Len(entries) + Position(r, n) - 1
      BY <1>1, <2>1
    <3> QED BY <1>3, <1>6, <3>1, <3>3, <3>4
  <2>2. CASE ~ \E i \in 1..n : queue[i].request = r
    <3>1. index'[r] = index[r]
      BY <1>1, <2>2
    <3>2. index[r] \in Nat /\ index[r] < Len(entries) /\ Fits(index[r], r)
          /\ r < added /\ r \notin refused
      BY <1>9, <3>1, Sizes DEF LogInv
    <3> QED BY <1>3, <1>6, <3>1, <3>2
  <2> QED BY <2>1, <2>2
<1>10. index' \in [Requests -> Requests \cup {Unresolved}]
  <2>1. ASSUME NEW r \in Requests PROVE index'[r] \in Requests \cup {Unresolved}
    BY <1>3, <1>6, <1>9, Sizes
  <2>2. index' = [r \in Requests |-> index'[r]]
    BY <1>1
  <2> QED BY <2>1, <2>2
<1>11. LogInv'
  <2>1. Fits(Len(entries) + Len(queue), added)'
    <3>1. Len(entries') + Len(queue') = Len(entries) + Len(queue) /\ added' = added
      BY <1>2, <1>3, <1>6, <1>7
    <3>2. Fits(Len(entries') + Len(queue'), added')
      BY <3>1 DEF LogInv
    <3> QED BY <1>2, <3>2 DEF Fits, InOrder
  <2>2. \A i \in 1..Len(entries') : Fits(i - 1, entries[i])'
    BY <1>2, <1>6 DEF Fits, InOrder
  <2>3. \A i \in 1..Len(queue') :
          /\ Fits(Len(entries) + i - 1, queue[i].request)'
          /\ queue'[i].leaf = queue'[i].request
          /\ queue'[i].request < added' /\ queue'[i].request \notin refused'
    BY <1>2, <1>8 DEF Fits, InOrder
  <2>4. \A r \in Requests :
          index'[r] # Unresolved =>
            /\ index'[r] < Len(entries') /\ Fits(index[r], r)'
            /\ r < added' /\ r \notin refused'
    BY <1>2, <1>9 DEF Fits, InOrder
  <2>5. /\ added' \in 0..Total /\ refused' \subseteq Requests
        /\ \A f \in refused' : f < added'
    BY <1>2 DEF LogInv
  <2> QED BY <1>6, <1>7, <1>10, <2>1, <2>2, <2>3, <2>4, <2>5 DEF LogInv
<1>12. HeadsInv'
  <2>1. /\ checkpoint.size \in Nat /\ checkpoint.size <= Len(entries)
        /\ checkpoint.root = RootAt(entries, checkpoint.size)
    BY DEF HeadsInv, IsHead, Checkpoints
  <2>2. RootAt(entries', checkpoint.size) = RootAt(entries, checkpoint.size)
    <3>1. \A i \in 1..checkpoint.size : entries'[i] = entries[i]
      BY <1>1, <1>3, <1>5, <2>1 DEF LogInv
    <3>2. /\ RootAt(entries, checkpoint.size) = [i \in 1..checkpoint.size |-> entries[i]]
          /\ RootAt(entries', checkpoint.size) = [i \in 1..checkpoint.size |-> entries'[i]]
      BY <1>3, <1>6, <2>1 DEF RootAt, LogInv
    <3> QED BY <3>1, <3>2
  <2> QED BY <1>2, <1>3, <1>6, <2>1, <2>2 DEF HeadsInv, IsHead
<1>13. RecordsInv' /\ SnapshotsInv' /\ CheckInv'
  BY <1>2, RecordsStay, SnapshotsStay, CheckStays
<1> QED BY <1>11, <1>12, <1>13

\* Heads are heads of the log, and cover ever more of it.
LEMMA PublishStep ==
  ASSUME SInv, Background,
         PublishCheckpoint \/ \E a \in Awaiters : PollCheckpoint(a)
  PROVE  SInv'
<1> USE DEF SInv
<1>1. /\ UNCHANGED <<queue, entries, index, phase, added, pending, refused, records,
                     snapshots, res, unread>>
      /\ \/ /\ checkpoint.size < Len(entries) /\ awaited' = awaited
            /\ checkpoint' = CheckpointAt(entries, Len(entries))
         \/ /\ \E a \in Awaiters : awaited' = [awaited EXCEPT ![a] = checkpoint]
            /\ checkpoint' = checkpoint
  BY DEF PublishCheckpoint, PollCheckpoint, Background, suiteVars
<1>2. /\ checkpoint.size \in Nat /\ Len(entries) \in Nat
      /\ checkpoint \in Checkpoints /\ checkpoint.size <= Len(entries)
      /\ \A a \in Awaiters : awaited[a].size \in Nat /\ awaited[a].size <= checkpoint.size
  BY DEF HeadsInv, IsHead, Checkpoints, LogInv
<1>3. IsHead(checkpoint)' /\ checkpoint'.size \in Nat /\ checkpoint.size <= checkpoint'.size
  <2>1. CASE checkpoint' = checkpoint
    BY <1>1, <1>2, <2>1 DEF HeadsInv, IsHead
  <2>2. CASE checkpoint.size < Len(entries) /\ checkpoint' = CheckpointAt(entries, Len(entries))
    <3>1. checkpoint' \in Checkpoints
      BY <1>2, <2>2, HeadOfLog
    <3> QED BY <1>1, <1>2, <2>2, <3>1 DEF IsHead, CheckpointAt
  <2> QED BY <1>1, <2>1, <2>2
<1>4. /\ awaited' \in [Awaiters -> Checkpoints]
      /\ \A a \in Awaiters : awaited'[a] = awaited[a] \/ awaited'[a] = checkpoint
  BY <1>1, <1>2 DEF HeadsInv
<1>5. HeadsInv'
  BY <1>2, <1>3, <1>4 DEF HeadsInv
<1>6. RecordsInv'
  <2>1. /\ \A i \in Requests : Recorded(i)' <=> Recorded(i)
        /\ \A i \in Requests : InOrder(i)' <=> InOrder(i)
        /\ \A p, r : Fits(p, r)' <=> Fits(p, r)
    BY <1>1 DEF Recorded, InOrder, Fits
  <2>2. \A i \in Requests : i < checkpoint.size => i < checkpoint'.size
    BY <1>2, <1>3, Sizes
  <2> QED BY <1>1, <2>1, <2>2 DEF RecordsInv
<1>7. LogInv' /\ SnapshotsInv' /\ CheckInv'
  BY <1>1, LogStays, SnapshotsStay, CheckStays
<1> QED BY <1>5, <1>6, <1>7
-----------------------------------------------------------------------------
(* The checks. *)

\* When checking begins every record and every leaf is there, and the last
\* snapshot is the head of all of them.
LEMMA Complete ==
  ASSUME SInv, phase = "check"
  PROVE  /\ Len(entries) = Total /\ RootAt(entries, Total) = FirstLeaves(Total)
         /\ FinalCheckpoint.size = Total /\ FinalCheckpoint.root = FirstLeaves(Total)
         /\ \A i \in Requests : records[i] = [index |-> i, leaf |-> i]
<1> USE DEF SInv
<1>1. Len(snapshots) = Batches /\ refused = {}
  BY DEF CheckInv
<1>2. Len(snapshots) * BatchEntries = Total
  BY <1>1, BatchesWithinTotal, Sizes
<1>3. added = Total /\ pending = {}
  <2>1. added = Total
    BY <1>2, Sizes DEF SnapshotsInv, LogInv
  <2>2. \A i \in pending : i \in Requests /\ Total <= i
    BY <1>2 DEF SnapshotsInv, RecordsInv
  <2> QED BY <2>1, <2>2, Sizes
<1>4. \A i \in Requests :
        records[i] = [index |-> i, leaf |-> i] /\ i < checkpoint.size
  BY <1>1, <1>3, Sizes DEF RecordsInv, Recorded, InOrder
<1>5. Len(entries) = Total
  <2>0. Total - 1 \in Requests
    BY Sizes
  <2>1. Total - 1 < checkpoint.size
    BY <1>4, <2>0
  <2>2. checkpoint.size \in Nat /\ checkpoint.size <= Len(entries)
    BY DEF HeadsInv, IsHead, Checkpoints
  <2>3. Len(entries) \in Nat /\ Len(queue) \in Nat /\ Len(entries) + Len(queue) <= Total
    BY <1>3, Sizes DEF LogInv, Fits
  <2> QED BY <2>1, <2>2, <2>3, Sizes
<1>6. FinalCheckpoint.size = Total /\ FinalCheckpoint.root = FirstLeaves(Total)
  <2>1. Batches \in 1..Len(snapshots) /\ Batches * BatchEntries = Total
    BY <1>1, Sizes DEF Total
  <2> QED BY <2>1 DEF FinalCheckpoint, SnapshotsInv
<1>7. RootAt(entries, Total) = FirstLeaves(Total)
  BY <1>1, <1>5, FirstLeavesRoot, Sizes
<1> QED BY <1>4, <1>5, <1>6, <1>7

\* The proof of a record verifies its own leaf and no other.
LEMMA RecordVerifies ==
  ASSUME SInv, phase = "check", NEW i \in Requests, NEW leaf
  PROVE  Verifies(records[i], leaf) <=> leaf = i
<1>1. /\ records[i].index = i
      /\ FinalCheckpoint.size = Total /\ FinalCheckpoint.root = FirstLeaves(Total)
      /\ RootAt(entries, Total) = FirstLeaves(Total)
  <2>1. records[i] = [index |-> i, leaf |-> i]
    BY Complete
  <2> QED BY <2>1, Complete
<1>2. Verifies(records[i], leaf) <=>
        i < Total /\ FirstLeaves(Total) = [FirstLeaves(Total) EXCEPT ![i + 1] = leaf]
  BY <1>1 DEF Verifies, VerifyInclusion, InclusionProof
<1>3. i < Total /\ i + 1 \in 1..Total
  BY Sizes
<1>4. FirstLeaves(Total) = [FirstLeaves(Total) EXCEPT ![i + 1] = leaf] <=> leaf = i
  <2>1. FirstLeaves(Total)[i + 1] = i /\ DOMAIN FirstLeaves(Total) = 1..Total
    BY <1>3, Sizes DEF FirstLeaves
  <2>2. [FirstLeaves(Total) EXCEPT ![i + 1] = leaf][i + 1] = leaf
    BY <1>3, <2>1
  <2>3. ASSUME leaf = i
        PROVE  FirstLeaves(Total) = [FirstLeaves(Total) EXCEPT ![i + 1] = leaf]
    BY <1>3, <2>1, <2>3 DEF FirstLeaves
  <2> QED BY <2>1, <2>2, <2>3
<1> QED BY <1>2, <1>3, <1>4

\* The proof from one snapshot to the next verifies.
LEMMA SnapshotsExtend ==
  ASSUME SInv, phase = "check", NEW b \in Nat, 1 <= b, b + 1 <= Batches
  PROVE  LET from == snapshots[b]
             to == snapshots[b + 1]
         IN  VerifyConsistency(from.size, to.size,
                               ConsistencyProof(entries, from.size, to.size),
                               from.root, to.root)
<1> DEFINE m == b * BatchEntries
           n == (b + 1) * BatchEntries
<1>1. b <= Batches /\ b < Batches /\ b + 1 \in Nat
  BY Sizes
<1>2. /\ m \in Nat /\ n \in Nat /\ 0 < m /\ m < n /\ n <= Total
  <2>1. n = m + BatchEntries /\ m \in Nat /\ m + BatchEntries <= Total
    BY <1>1, BatchesWithinTotal
  <2>2. 0 < m
    BY Sizes
  <2> QED BY <2>1, <2>2, Sizes
<1>3. /\ snapshots[b].size = m /\ snapshots[b].root = FirstLeaves(m)
      /\ snapshots[b + 1].size = n /\ snapshots[b + 1].root = FirstLeaves(n)
  <2>1. b \in 1..Len(snapshots) /\ b + 1 \in 1..Len(snapshots)
    BY <1>1, Sizes DEF SInv, CheckInv
  <2> QED BY <2>1 DEF SInv, SnapshotsInv
<1>4. RootAt(entries, n) = FirstLeaves(n)
  <2>1. refused = {} /\ n <= Len(entries)
    BY <1>2, Complete DEF SInv, CheckInv
  <2> QED BY <1>2, <2>1, FirstLeavesRoot DEF SInv
<1>5. RootAt(FirstLeaves(n), m) = FirstLeaves(m)
  <2>1. FirstLeaves(n) \in Seq(Int) /\ Len(FirstLeaves(n)) = n
    BY <1>2 DEF FirstLeaves
  <2>2. \A i \in 1..m : FirstLeaves(n)[i] = i - 1
    BY <1>2 DEF FirstLeaves
  <2>3. SubSeq(FirstLeaves(n), 1, m) = [i \in 1..m |-> FirstLeaves(n)[i]]
    BY <1>2, <2>1
  <2> QED BY <2>2, <2>3 DEF RootAt, FirstLeaves
<1> HIDE DEF m, n
<1> QED BY <1>2, <1>3, <1>4, <1>5 DEF VerifyConsistency, ConsistencyProof
\* A check adds to what failed exactly when its outcome is bad.
LEMMA ScoreStep ==
  ASSUME SInv, NEW c \in 1..3, NEW ok \in BOOLEAN, Score(c, ok),
         unread' = IF ok THEN unread ELSE unread + 1
  PROVE  SInv'
<1> USE DEF SInv
<1>1. /\ UNCHANGED <<tesseraVars, phase, added, pending, refused, records,
                     snapshots>>
      /\ res' = IF ok THEN [res EXCEPT ![c].passed = @ + 1]
                      ELSE [res EXCEPT ![c].failed = @ + 1]
  BY DEF Score
<1>2. \A d \in 1..3 : /\ res[d].passed \in Nat /\ res[d].failed \in Nat
                      /\ res[d] = [passed |-> res[d].passed, failed |-> res[d].failed]
  BY DEF CheckInv, Counts
<1>3. CheckInv'
  <2>1. res' \in [1..3 -> Counts]
    <3>1. /\ [res[c] EXCEPT !.passed = @ + 1] \in Counts
          /\ [res[c] EXCEPT !.failed = @ + 1] \in Counts
      BY <1>2 DEF CheckInv, Counts
    <3>2. CASE ok
      BY <1>1, <3>1, <3>2 DEF CheckInv
    <3>3. CASE ~ok
      BY <1>1, <3>1, <3>3 DEF CheckInv
    <3> QED BY <3>2, <3>3
  <2>2. ASSUME ok PROVE unread' = unread /\ \A d \in 1..3 : res'[d].failed = res[d].failed
    BY <1>1, <1>2, <2>2 DEF CheckInv, Counts
  <2>3. ASSUME ~ok
        PROVE  /\ unread' = unread + 1
               /\ \A d \in 1..3 : res'[d].failed = (IF d = c THEN res[d].failed + 1
                                                             ELSE res[d].failed)
    BY <1>1, <1>2, <2>3 DEF CheckInv, Counts
  <2>4. OnlyUnreadFails'
    <3>1. CASE ok
      BY <2>2, <3>1 DEF CheckInv, OnlyUnreadFails
    <3>2. CASE ~ok
      BY <1>2, <2>3, <3>2 DEF CheckInv, OnlyUnreadFails
    <3> QED BY <3>1, <3>2
  <2>5. unread' \in Nat
    BY DEF CheckInv
  <2> QED BY <1>1, <2>1, <2>4, <2>5 DEF CheckInv
<1>4. LogInv' /\ HeadsInv' /\ RecordsInv' /\ SnapshotsInv'
  BY <1>1, LogStays, HeadsStay, RecordsStay, SnapshotsStay DEF tesseraVars
<1> QED BY <1>3, <1>4

\* A passed check is no failed one.
LEMMA PassedStep ==
  ASSUME SInv, NEW c \in 1..3, Score(c, TRUE), unread' = unread
  PROVE  SInv'
<1>1. unread' = IF TRUE THEN unread ELSE unread + 1
  OBVIOUS
<1>2. TRUE \in BOOLEAN
  OBVIOUS
<1> QED BY <1>1, <1>2, ScoreStep, Zenon

\* Every kind of check passes, unless a read fails.
LEMMA ChecksStep ==
  SInv /\ (CheckInclusion \/ CheckConsistency \/ CheckNegative \/ CheckUnread) => SInv'
<1> SUFFICES ASSUME SInv,
                    CheckInclusion \/ CheckConsistency \/ CheckNegative \/ CheckUnread
             PROVE  SInv'
  OBVIOUS
<1>0. \A c \in 1..3 : Counted(c) \in Nat
  BY DEF SInv, CheckInv, Counts, Counted
<1>1. CASE CheckInclusion
  <2>1. /\ phase = "check" /\ Counted(1) < Total /\ unread' = unread
        /\ Score(1, records[Counted(1)].leaf # NoToken
                      /\ Verifies(records[Counted(1)], records[Counted(1)].leaf))
    BY <1>1 DEF CheckInclusion, Running, Planned
  <2>2. Counted(1) \in Requests
    BY <1>0, <2>1, Sizes
  <2>3. records[Counted(1)].leaf = Counted(1) /\ Counted(1) # NoToken
    <3>1. records[Counted(1)] = [index |-> Counted(1), leaf |-> Counted(1)]
      BY <2>1, <2>2, Complete
    <3> QED BY <1>0, <3>1 DEF NoToken
  <2>4. Verifies(records[Counted(1)], records[Counted(1)].leaf)
    BY <2>1, <2>2, <2>3, RecordVerifies
  <2>5. Score(1, TRUE)
    BY <2>1, <2>3, <2>4 DEF Score
  <2> QED BY <2>1, <2>5, PassedStep
<1>2. CASE CheckConsistency
  <2> DEFINE b == Counted(2) + 1
  <2>1. /\ phase = "check" /\ Counted(2) < Batches - 1 /\ unread' = unread
        /\ Score(2, \/ snapshots[b].size = snapshots[b + 1].size
                    \/ VerifyConsistency(snapshots[b].size, snapshots[b + 1].size,
                         ConsistencyProof(entries, snapshots[b].size, snapshots[b + 1].size),
                         snapshots[b].root, snapshots[b + 1].root))
    <3>1. Counted(2) + 2 = b + 1
      BY <1>0
    <3> QED BY <1>2, <3>1 DEF CheckConsistency, Running, Planned
  <2>2. b \in Nat /\ 1 <= b /\ b + 1 <= Batches
    BY <1>0, <2>1, Sizes
  <2>3. VerifyConsistency(snapshots[b].size, snapshots[b + 1].size,
          ConsistencyProof(entries, snapshots[b].size, snapshots[b + 1].size),
          snapshots[b].root, snapshots[b + 1].root)
    BY <2>1, <2>2, SnapshotsExtend
  <2>4. Score(2, TRUE)
    BY <2>1, <2>3 DEF Score
  <2> QED BY <2>1, <2>4, PassedStep
<1>3. CASE CheckNegative
  <2>1. PICK i \in Requests :
          Score(3, records[i].leaf # NoToken
                     /\ ~Verifies(records[i], Tampered(records[i].leaf)))
    BY <1>3 DEF CheckNegative
  <2>2. phase = "check" /\ unread' = unread
    BY <1>3 DEF CheckNegative, Running
  <2>3. records[i].leaf = i /\ i \in Nat /\ i # NoToken /\ Tampered(i) # i
    <3>1. records[i] = [index |-> i, leaf |-> i] /\ i \in Nat
      BY <2>2, Complete, Sizes
    <3> QED BY <3>1 DEF NoToken, Tampered
  <2>4. ~Verifies(records[i], Tampered(records[i].leaf))
    BY <2>2, <2>3, RecordVerifies
  <2>5. Score(3, TRUE)
    BY <2>1, <2>3, <2>4 DEF Score
  <2> QED BY <2>2, <2>5, PassedStep
<1>4. CASE CheckUnread
  <2>1. PICK c \in 1..3 : Score(c, FALSE)
    BY <1>4 DEF CheckUnread
  <2> QED BY <1>4, <2>1, ScoreStep DEF CheckUnread
<1> QED BY <1>1, <1>2, <1>3, <1>4

\* The main goroutine goes on to check, returns, or ends the process.
LEMMA PhaseStep == SInv /\ (Shutdown \/ Return \/ AwaitRefused \/ Fatal) => SInv'
<1> SUFFICES ASSUME SInv, Shutdown \/ Return \/ AwaitRefused \/ Fatal PROVE SInv'
  OBVIOUS
<1>1. /\ UNCHANGED <<tesseraVars, added, pending, refused, records, snapshots, res,
                     unread>>
      /\ \/ phase' = "check" /\ Len(snapshots) = Batches
         \/ phase' = "returned" /\ phase = "check"
         \/ phase' = "fatal"
  BY DEF Shutdown, Return, AwaitRefused, Fatal
<1>2. Len(snapshots) = Batches => refused = {}
  <2>1. Batches * BatchEntries = Total
    BY DEF Total
  <2> QED BY <2>1, Sizes DEF SInv, SnapshotsInv, RecordsInv
<1>3. CheckInv'
  BY <1>1, <1>2 DEF SInv, CheckInv, OnlyUnreadFails
<1> QED
  BY <1>1, <1>3, LogStays, HeadsStay, RecordsStay, SnapshotsStay DEF SInv, tesseraVars

\* Every step of the suite preserves its invariant.
LEMMA SInvStep == SInv /\ [Next]_vars => SInv'
<1> SUFFICES ASSUME SInv, [Next]_vars PROVE SInv'
  OBVIOUS
<1>1. CASE UNCHANGED vars
  BY <1>1, LogStays, HeadsStay, RecordsStay, SnapshotsStay, CheckStays
  DEF SInv, vars, tesseraVars, suiteVars
<1>2. CASE Next
  BY <1>2, AddStep, RecordStep, SnapshotStep, IntegrateStep, PublishStep,
     ChecksStep, PhaseStep DEF Next, Main, Background
<1> QED BY <1>1, <1>2

\* The inductive invariant holds throughout.
THEOREM SuiteInvariance == Spec => []SInv
BY InitSInv, SInvStep, PTL DEF Spec

\* No index is outside the records slice, and every variable keeps its type.
THEOREM SuiteTypeCorrect == Spec => []TypeOK
<1>1. SInv => TypeOK
  BY DEF SInv, LogInv, HeadsInv, IsHead, RecordsInv, SnapshotsInv, CheckInv, TypeOK
<1> QED BY <1>1, SuiteInvariance, PTL

\* The unlocked record at an index is that of the entry with that submission
\* number, in whatever order the goroutines end.
THEOREM RecordsAreInOrder == Spec => []LogIndexIsSubmissionIndex
<1>1. SInv => LogIndexIsSubmissionIndex
  <2> SUFFICES ASSUME SInv PROVE LogIndexIsSubmissionIndex
    OBVIOUS
  <2> USE DEF SInv
  <2>1. ASSUME NEW i \in Requests, records[i] # NoRecord
        PROVE  /\ records[i].index = i
               /\ \/ records[i].leaf = i
                  \/ \E f \in refused : f <= i /\ f < records[i].leaf
    <3>1. records[i].index = i /\ Fits(i, records[i].leaf)
      BY <2>1 DEF RecordsInv
    <3>2. CASE records[i].leaf # i
      <4>1. i < records[i].leaf /\ ~InOrder(i)
        BY <3>1, <3>2 DEF Fits
      <4>2. PICK f \in refused : ~(i < f)
        BY <4>1 DEF InOrder
      <4>3. i \in Int /\ f \in Int /\ records[i].leaf \in Int
        BY Sizes DEF RecordsInv, LogInv, NoToken
      <4> QED BY <3>1, <4>1, <4>2, <4>3
    <3> QED BY <3>1, <3>2
  <2>2. refused # {} => phase \in {"append", "fatal"}
    BY DEF CheckInv
  <2> QED BY <2>1, <2>2 DEF LogIndexIsSubmissionIndex
<1> QED BY <1>1, SuiteInvariance, PTL

\* What the snapshot of a batch commits to is in the log and recorded.
LEMMA SnapshotContents ==
  ASSUME SInv, NEW b \in 1..Len(snapshots)
  PROVE  /\ snapshots[b].size = b * BatchEntries
         /\ snapshots[b].root = RootAt(entries, b * BatchEntries)
         /\ \A i \in 0..(b * BatchEntries - 1) : records[i].leaf = i
<1> USE DEF SInv
<1>1. /\ b \in Nat /\ b <= Batches /\ Len(snapshots) \in Nat
      /\ Len(snapshots) <= Batches /\ b <= Len(snapshots)
  BY Sizes DEF SnapshotsInv
<1>2. b * BatchEntries \in Nat /\ b * BatchEntries <= Len(snapshots) * BatchEntries
  <2>1. PICK k \in Nat : Len(snapshots) = b + k
    <3>1. Len(snapshots) - b \in Nat /\ Len(snapshots) = b + (Len(snapshots) - b)
      BY <1>1
    <3> QED BY <3>1
  <2>2. Len(snapshots) * BatchEntries = b * BatchEntries + k * BatchEntries
    BY <1>1, <2>1, Sizes
  <2>3. k * BatchEntries \in Nat /\ b * BatchEntries \in Nat
    BY <1>1, Sizes
  <2> QED BY <2>2, <2>3
<1>3. Len(snapshots) * BatchEntries \in Nat /\ Len(snapshots) * BatchEntries <= added
      /\ added \in Nat /\ added <= Total
  BY <1>1, Sizes DEF SnapshotsInv, LogInv
<1>4. ASSUME NEW i \in 0..(b * BatchEntries - 1)
      PROVE  records[i] = [index |-> i, leaf |-> i] /\ i < checkpoint.size
  <2>1. i \in Requests /\ i < added /\ ~(Len(snapshots) * BatchEntries <= i)
    BY <1>2, <1>3, Sizes
  <2>2. Recorded(i) /\ InOrder(i)
    <3>1. \A f \in refused : Len(snapshots) * BatchEntries <= f /\ f \in Nat
      BY Sizes DEF RecordsInv, SnapshotsInv
    <3> QED BY <1>2, <1>3, <2>1, <3>1, Sizes DEF Recorded, InOrder, SnapshotsInv
  <2> QED BY <2>1, <2>2 DEF RecordsInv
<1>5. b * BatchEntries <= Len(entries)
  <2>1. b * BatchEntries - 1 \in 0..(b * BatchEntries - 1)
    <3>1. b * BatchEntries > 0
      BY <1>1, Sizes
    <3> QED BY <1>2, <3>1
  <2>2. b * BatchEntries - 1 < checkpoint.size
    BY <1>4, <2>1
  <2>3. checkpoint.size \in Nat /\ checkpoint.size <= Len(entries) /\ Len(entries) \in Nat
    BY DEF HeadsInv, IsHead, Checkpoints, LogInv
  <2> QED BY <1>2, <2>2, <2>3
<1>6. RootAt(entries, b * BatchEntries) = FirstLeaves(b * BatchEntries)
  <2>1. \A f \in refused : Len(snapshots) * BatchEntries <= f /\ f \in Nat
    BY Sizes DEF RecordsInv, SnapshotsInv
  <2>2. \A f \in refused : b * BatchEntries <= f
    BY <1>2, <1>3, <2>1
  <2> QED BY <1>2, <1>5, <2>2, FirstLeavesRoot
<1>7. snapshots[b].size = b * BatchEntries /\ snapshots[b].root = FirstLeaves(b * BatchEntries)
  BY DEF SnapshotsInv
<1>8. \A i \in 0..(b * BatchEntries - 1) : records[i].leaf = i
  <2> TAKE i \in 0..(b * BatchEntries - 1)
  <2>1. records[i] = [index |-> i, leaf |-> i]
    BY <1>4
  <2> QED BY <2>1
<1> QED BY <1>6, <1>7, <1>8

\* A snapshot commits to the batches so far and to nothing else, and their
\* records are written.
THEOREM SnapshotsAreOfBatches == Spec => []SnapshotsEndBatches
<1>1. SInv => SnapshotsEndBatches
  BY SnapshotContents DEF SnapshotsEndBatches
<1> QED BY <1>1, SuiteInvariance, PTL

\* Each proof that can be built passes and each tampered token is refused.
THEOREM SuiteFailsOnlyUnread == Spec => []OnlyUnreadFails
<1>1. SInv => OnlyUnreadFails
  BY DEF SInv, CheckInv
<1> QED BY <1>1, SuiteInvariance, PTL

-----------------------------------------------------------------------------
(* The run. *)

Early == {"begin", "runA", "runB", "latency"}

\* The counters of the checks, and what the return of the suite means.
CountInv ==
  /\ res \in [1..3 -> Counts]
  /\ phase = "returned" => \A c \in 1..3 : Counted(c) = Planned[c]

\* The report is only written, the table only printed, and success only
\* reported, after the suite has returned.
StageInv ==
  /\ stage \in Early \cup {"suite", "report"}
  /\ fresh \in BOOLEAN /\ latency \in BOOLEAN /\ confirmed \in {0, 1}
  /\ exit \in {Running4, 0, 1}
  /\ stage = "report" => phase = "returned"
  /\ stage # "report" => written = 0 /\ summary = <<>> /\ exit # 0
  /\ summary = <<>> => exit # 0
  /\ summary # <<>> =>
       /\ summary = [c \in 1..3 |-> PassOrFail(c)]
       /\ exit = Verdict /\ written = Len(ToWrite)

\* The phases that have returned, by stage.
FinishedInv ==
  /\ stage \in {"begin", "runA", "runB"} => latency = FALSE
  /\ stage \in {"runA", "runB", "latency"} => fresh
  /\ stage = "begin" => finished = {}
  /\ stage = "runA" => finished = {}
  /\ stage = "runB" => finished = {"storage"}
  /\ stage = "latency" => finished = {"storage", "throughput"} /\ latency = FALSE
  /\ stage \in {"suite", "report"} =>
       /\ latency = (fresh /\ confirmed > 0)
       /\ finished = (IF fresh THEN {"storage", "throughput"} ELSE {})
                     \cup (IF latency THEN {"latency"} ELSE {})
                     \cup (IF stage = "report" THEN {"correctness"} ELSE {})

Flushed == {ToWrite[i] : i \in 1..written}

\* What is on disk: the reports flushed so far are whole, and after --fresh
\* nothing is left of earlier runs.
FilesInv ==
  /\ files \in [Reports -> {"absent", "earlier", "part", "whole"}]
  /\ written \in 0..Len(ToWrite)
  /\ \A r \in Reports : files[r] = "whole" <=> r \in Flushed
  /\ fresh /\ stage # "begin" => \A r \in Reports : files[r] # "earlier"

RInv == CountInv /\ StageInv /\ FinishedInv /\ FilesInv

-----------------------------------------------------------------------------

\* Steps of the suite score checks only while it is checking.
LEMMA SuiteKeepsCounts == CountInv /\ Next => CountInv' /\ phase # "returned"
<1> SUFFICES ASSUME CountInv, Next PROVE CountInv' /\ phase # "returned"
  OBVIOUS
<1>1. ASSUME NEW c \in 1..3, phase = "check", \E ok : Score(c, ok)
      PROVE  CountInv' /\ phase # "returned"
  <2>1. PICK ok : Score(c, ok)
    BY <1>1
  <2>2. /\ phase' = "check"
        /\ \/ res' = [res EXCEPT ![c].passed = @ + 1]
           \/ res' = [res EXCEPT ![c].failed = @ + 1]
    BY <2>1, <1>1 DEF Score
  <2> QED BY <2>2, <1>1 DEF CountInv, Counts
<1>2. CASE CheckInclusion
  <2>1. phase = "check" /\ \E ok : Score(1, ok)
    BY <1>2 DEF CheckInclusion, Running
  <2> QED BY <1>1, <2>1
<1>3. CASE CheckConsistency
  <2>1. phase = "check" /\ \E ok : Score(2, ok)
    BY <1>3 DEF CheckConsistency, Running
  <2> QED BY <1>1, <2>1
<1>4. CASE CheckNegative
  <2>1. phase = "check" /\ \E ok : Score(3, ok)
    BY <1>4 DEF CheckNegative, Running
  <2> QED BY <1>1, <2>1
<1>5. CASE CheckUnread
  BY <1>1, <1>5 DEF CheckUnread, Running
<1>6. CASE Return
  BY <1>6 DEF Return, CountInv, Counted
<1>7. CASE AddEntry \/ AddRefused \/ Snapshot \/ Shutdown \/ AwaitRefused \/ Fatal
  BY <1>7 DEF AddEntry, AddRefused, Snapshot, Shutdown, AwaitRefused, Fatal, CountInv, Counted
<1>8. ASSUME NEW i \in Requests, Record(i)
      PROVE  CountInv' /\ phase # "returned"
  BY <1>8 DEF Record, CountInv, Counted
<1>9. CASE Background
  BY <1>9 DEF Background, suiteVars, CountInv, Counted
<1> QED
  BY <1>2, <1>3, <1>4, <1>5, <1>6, <1>7, <1>8, <1>9 DEF Next, Main

\* The planned numbers of checks are numbers.
LEMMA PlannedCounts == Planned[1] \in Int /\ Planned[2] \in Int /\ Planned[3] \in Int
BY BatchesAssumption, BatchEntriesAssumption, NegativeTestsAssumption
DEF Planned, Total

\* The list of reports, in its three forms.
LEMMA ToWriteForms ==
  ASSUME fresh \in BOOLEAN, latency \in BOOLEAN
  PROVE  ToWrite = IF fresh
                   THEN IF latency
                        THEN <<"throughput", "storage", "latency", "correctness">>
                        ELSE <<"throughput", "storage", "correctness">>
                   ELSE <<"correctness">>
BY DEF ToWrite

\* Each report is listed once; the list is of the phases that the flags call for.
LEMMA ToWriteFacts ==
  ASSUME fresh \in BOOLEAN, latency \in BOOLEAN
  PROVE  /\ Len(ToWrite) \in Nat
         /\ \A i \in 1..Len(ToWrite) : ToWrite[i] \in Reports
         /\ \A i, j \in 1..Len(ToWrite) : ToWrite[i] = ToWrite[j] => i = j
         /\ {ToWrite[i] : i \in 1..Len(ToWrite)} =
              {"correctness"} \cup (IF fresh THEN {"throughput", "storage"} ELSE {})
                              \cup (IF fresh /\ latency THEN {"latency"} ELSE {})
<1>1. CASE ~fresh
  <2>1. ToWrite = <<"correctness">>
    BY <1>1, ToWriteForms
  <2> QED BY <1>1, <2>1 DEF Reports, Benchmarks
<1>2. CASE fresh /\ latency
  <2>1. ToWrite = <<"throughput", "storage", "latency", "correctness">>
    BY <1>2, ToWriteForms
  <2>2. Len(ToWrite) = 4 /\ 1..4 = {1, 2, 3, 4}
    BY <2>1
  <2> QED BY <1>2, <2>1, <2>2 DEF Reports, Benchmarks
<1>3. CASE fresh /\ ~latency
  <2>1. ToWrite = <<"throughput", "storage", "correctness">>
    BY <1>3, ToWriteForms
  <2>2. Len(ToWrite) = 3 /\ 1..3 = {1, 2, 3}
    BY <2>1
  <2> QED BY <1>3, <2>1, <2>2 DEF Reports, Benchmarks
<1> QED BY <1>1, <1>2, <1>3

\* The run starts with nothing written.
LEMMA RunStarts == RunInit => RInv
<1> SUFFICES ASSUME RunInit PROVE RInv
  OBVIOUS
<1>1. CountInv
  BY DEF RunInit, Init, CountInv, Counts
<1>2. StageInv
  <2>1. stage = "begin" /\ fresh \in BOOLEAN /\ latency = FALSE /\ confirmed = 0
        /\ written = 0 /\ summary = <<>> /\ exit = -1
    BY DEF RunInit, Running4
  <2>2. stage \in Early \cup {"suite", "report"} /\ stage # "report" /\ exit # 0
        /\ exit \in {Running4, 0, 1}
    BY <2>1 DEF Early, Running4
  <2> QED BY <2>1, <2>2, Zenon DEF StageInv
<1>4. FinishedInv
  BY DEF RunInit, FinishedInv
<1>3. files \in [Reports -> {"earlier", "absent"}]
  BY DEF RunInit, Leftovers
<1>6. Len(ToWrite) \in Nat
  BY ToWriteForms DEF RunInit
<1>5. FilesInv
  BY <1>3, <1>6 DEF RunInit, FilesInv, Flushed
<1> QED BY <1>1, <1>2, <1>4, <1>5 DEF RInv

\* A step of the suite is a step of its specification; the other steps of the
\* run leave the suite alone.
LEMMA RunStepIsSuiteStep ==
  RunNext => \/ Next /\ At("suite")
                /\ stage' = (IF phase' = "returned" THEN "report" ELSE "suite")
                /\ finished' = (IF phase' = "returned"
                                THEN finished \cup {"correctness"} ELSE finished)
                /\ exit' = (IF phase' = "fatal" THEN 1 ELSE exit)
                /\ UNCHANGED <<fresh, confirmed, latency, files, written, summary>>
             \/ UNCHANGED vars
<1>1. Suite(Main) \/ Suite(Next) =>
        /\ Next /\ At("suite")
        /\ stage' = (IF phase' = "returned" THEN "report" ELSE "suite")
        /\ finished' = (IF phase' = "returned"
                        THEN finished \cup {"correctness"} ELSE finished)
        /\ exit' = (IF phase' = "fatal" THEN 1 ELSE exit)
        /\ UNCHANGED <<fresh, confirmed, latency, files, written, summary>>
  BY DEF Suite, Next
<1>2. Begin \/ RunA \/ RunB \/ Latency \/ CreateReport \/ FlushReport \/ Finish
        \/ PhaseFails \/ ReportFails => UNCHANGED vars
  BY DEF Begin, RunA, RunB, Latency, CreateReport, FlushReport, Finish,
         PhaseFails, ReportFails
<1> QED BY <1>1, <1>2 DEF RunNext, Run

\* Inside a run of the program the suite behaves as CorrectnessSuite says.
THEOREM SuiteOfTheRun == RunSpec => Spec
<1>1. RunInit => Init
  BY DEF RunInit
<1>2. [RunNext]_<<vars, runVars>> => [Next]_vars
  BY RunStepIsSuiteStep
<1> QED BY <1>1, <1>2, PTL DEF RunSpec, Spec

\* RInv is inductive.
LEMMA RunSteps == RInv /\ [RunNext]_<<vars, runVars>> => RInv'
<1> SUFFICES ASSUME RInv, [RunNext]_<<vars, runVars>> PROVE RInv'
  OBVIOUS
<1> USE DEF RInv
<1>typ. /\ fresh \in BOOLEAN /\ latency \in BOOLEAN
        /\ written \in 0..Len(ToWrite)
        /\ files \in [Reports -> {"absent", "earlier", "part", "whole"}]
  BY DEF StageInv, FilesInv
<1>len. Len(ToWrite) \in Nat
  BY <1>typ, ToWriteFacts
<1>1. CASE UNCHANGED <<vars, runVars>>
  BY <1>1 DEF vars, suiteVars, runVars, CountInv, Counted, StageInv, FinishedInv,
       FilesInv, Flushed, ToWrite, PassOrFail, Verdict
<1>2. ASSUME RunNext, UNCHANGED vars, exit = Running4
      PROVE  RInv'
  <2>res. UNCHANGED <<phase, res>>
    BY <1>2 DEF vars, suiteVars
  <2>cnt. CountInv'
    BY <2>res DEF CountInv, Counted
  <2>sum. summary = <<>>
    BY <1>2 DEF StageInv, Verdict, Running4
  <2>1. CASE Begin
    <3>1. UNCHANGED <<fresh, latency, written>> /\ written = 0
      BY <2>1 DEF Begin, At, StageInv
    <3>2. ToWrite' = ToWrite /\ Flushed = {} /\ Flushed' = {}
      BY <3>1 DEF ToWrite, Flushed
    <3>3. StageInv'
      BY <2>1, <2>res, <2>sum DEF Begin, At, StageInv, Early
    <3>4. FinishedInv'
      BY <2>1 DEF Begin, At, StageInv, FinishedInv
    <3>5. FilesInv'
      BY <2>1, <3>1, <3>2, <1>typ DEF Begin, FilesInv
    <3> QED BY <2>cnt, <3>3, <3>4, <3>5
  <2>2. CASE RunA \/ RunB \/ Latency
    <3>1. UNCHANGED <<fresh, files, written, summary, exit>> /\ written = 0
      BY <2>2 DEF RunA, RunB, Latency, At, StageInv
    <3>7. stage' \in {"runB", "latency", "suite"} /\ confirmed' \in {0, 1}
      BY <2>2 DEF RunA, RunB, Latency, StageInv
    <3>8. latency' \in BOOLEAN
      <4>1. CASE Latency
        <5>1. CASE confirmed > 0
          BY <4>1, <5>1 DEF Latency
        <5>2. CASE ~(confirmed > 0)
          BY <4>1, <5>2 DEF Latency
        <5> QED BY <5>1, <5>2
      <4>2. CASE RunA \/ RunB
        BY <4>2, <1>typ DEF RunA, RunB
      <4> QED BY <2>2, <4>1, <4>2
    <3>2. Len(ToWrite') \in Nat
      <4>1. fresh' \in BOOLEAN /\ latency' \in BOOLEAN
        BY <3>1, <3>8, <1>typ
      <4> QED BY <4>1 DEF ToWrite
    <3>3. Flushed = {} /\ Flushed' = {}
      BY <3>1 DEF Flushed
    <3>4. StageInv'
      BY <1>2, <3>1, <3>7, <3>8, <1>typ, <2>res, <2>sum DEF StageInv, Early, Running4
    <3>5. FinishedInv'
      BY <2>2 DEF RunA, RunB, Latency, At, StageInv, FinishedInv
    <3>6. FilesInv'
      BY <2>2, <3>1, <3>2, <3>3, <1>typ DEF RunA, RunB, Latency, At, FilesInv
    <3> QED BY <2>cnt, <3>4, <3>5, <3>6
  <2>3. CASE PhaseFails \/ ReportFails
    <3>1. UNCHANGED <<stage, fresh, confirmed, latency, finished, files, written, summary>>
          /\ exit' = 1
      BY <2>3 DEF PhaseFails, ReportFails
    <3>2. ToWrite' = ToWrite /\ Flushed' = Flushed
      BY <3>1 DEF ToWrite, Flushed
    <3>3. StageInv'
      BY <3>1, <2>res, <2>sum DEF StageInv
    <3>4. FinishedInv'
      BY <3>1 DEF FinishedInv
    <3>5. FilesInv'
      BY <3>1, <3>2 DEF FilesInv
    <3> QED BY <2>cnt, <3>3, <3>4, <3>5
  <2>4. CASE CreateReport \/ FlushReport
    <3>1. /\ UNCHANGED <<stage, fresh, confirmed, latency, finished, summary, exit>>
          /\ stage = "report" /\ written < Len(ToWrite)
      BY <2>4 DEF CreateReport, FlushReport, At
    <3>2. ToWrite' = ToWrite
      BY <3>1 DEF ToWrite
    <3>3. written \in Nat /\ written + 1 \in 1..Len(ToWrite)
      BY <3>1, <1>typ, <1>len
    <3>4. NextReport \in Reports /\ NextReport \notin Flushed
      BY <3>3, <1>typ, <1>len, ToWriteFacts DEF NextReport, Flushed
    <3>5. StageInv'
      BY <3>1, <2>res, <2>sum DEF StageInv
    <3>6. FinishedInv'
      BY <3>1 DEF FinishedInv
    <3>7. CASE CreateReport
      <4>1. Flushed' = Flushed
        BY <3>2, <3>7 DEF CreateReport, Flushed
      <4> QED BY <2>cnt, <3>1, <3>2, <3>4, <3>5, <3>6, <3>7, <4>1 DEF CreateReport, FilesInv
    <3>8. CASE FlushReport
      <4>1. 1..(written + 1) = (1..written) \cup {written + 1}
        BY <3>3
      <4>2. Flushed' = Flushed \cup {NextReport}
        BY <3>2, <3>8, <4>1 DEF FlushReport, Flushed, NextReport
      <4>3. written' \in 0..Len(ToWrite)
        BY <3>3, <3>8 DEF FlushReport
      <4> QED BY <2>cnt, <3>1, <3>2, <3>4, <3>5, <3>6, <3>8, <4>2, <4>3 DEF FlushReport, FilesInv
    <3> QED BY <2>4, <3>7, <3>8
  <2>5. CASE Finish
    <3>1. /\ UNCHANGED <<stage, fresh, confirmed, latency, finished, files, written>>
          /\ stage = "report" /\ written = Len(ToWrite)
          /\ summary' = [c \in 1..3 |-> PassOrFail(c)] /\ exit' = Verdict
      BY <2>5 DEF Finish, At
    <3>2. ToWrite' = ToWrite /\ Flushed' = Flushed
      BY <3>1 DEF ToWrite, Flushed
    <3>3. Verdict' = Verdict /\ [c \in 1..3 |-> PassOrFail(c)]' = [c \in 1..3 |-> PassOrFail(c)]
      BY <2>res DEF Verdict, PassOrFail
    <3>4. summary' # <<>>
      <4>1. DOMAIN summary' = 1..3 /\ 1 \in 1..3 /\ DOMAIN <<>> = {}
        BY <3>1
      <4> QED BY <4>1
    <3>5. StageInv'
      <4>1. exit' \in {Running4, 0, 1}
        BY <3>1 DEF Verdict
      <4> QED BY <3>1, <3>2, <3>3, <3>4, <2>res, <4>1 DEF StageInv
    <3>6. FinishedInv'
      BY <3>1 DEF FinishedInv
    <3>7. FilesInv'
      BY <3>1, <3>2 DEF FilesInv
    <3> QED BY <2>cnt, <3>5, <3>6, <3>7
  <2>6. CASE Suite(Main) \/ Suite(Next)
    <3>1. Next
      BY <2>6 DEF Suite, Next
    <3>2. phase # "returned"
      BY <3>1, SuiteKeepsCounts
    <3>3. phase' # "returned"
      BY <3>2, <2>res
    <3>4. UNCHANGED <<stage, fresh, confirmed, latency, finished, files, written, summary>>
          /\ stage = "suite" /\ (exit' = 1 \/ exit' = exit)
      BY <2>6, <3>3 DEF Suite, At
    <3>5. ToWrite' = ToWrite /\ Flushed' = Flushed
      BY <3>4 DEF ToWrite, Flushed
    <3>6. StageInv'
      BY <3>4, <2>res, <2>sum DEF StageInv
    <3>7. FinishedInv'
      BY <3>4 DEF FinishedInv
    <3>8. FilesInv'
      BY <3>4, <3>5 DEF FilesInv
    <3> QED BY <2>cnt, <3>6, <3>7, <3>8
  <2> QED BY <1>2, <2>1, <2>2, <2>3, <2>4, <2>5, <2>6 DEF RunNext, Run
<1>3. ASSUME RunNext PROVE exit = Running4
  BY <1>3 DEF RunNext, Run, Begin, RunA, RunB, Latency, Suite, CreateReport,
       FlushReport, Finish, PhaseFails, ReportFails, At
<1>4. ASSUME Next, At("suite"),
             stage' = (IF phase' = "returned" THEN "report" ELSE "suite"),
             finished' = (IF phase' = "returned"
                          THEN finished \cup {"correctness"} ELSE finished),
             exit' = (IF phase' = "fatal" THEN 1 ELSE exit),
             UNCHANGED <<fresh, confirmed, latency, files, written, summary>>
      PROVE  RInv'
  <2>1. CountInv'
    BY <1>4, SuiteKeepsCounts
  <2>2. ToWrite' = ToWrite /\ Flushed' = Flushed
    BY <1>4 DEF ToWrite, Flushed
  <2>3. stage = "suite" /\ summary = <<>> /\ written = 0 /\ exit # 0
    BY <1>4 DEF At, StageInv
  <2>4. StageInv'
    BY <1>4, <2>3 DEF StageInv, Early
  <2>5. FinishedInv'
    BY <1>4, <2>3 DEF FinishedInv
  <2>6. FilesInv'
    BY <1>4, <2>2, <2>3 DEF FilesInv
  <2> QED BY <2>1, <2>4, <2>5, <2>6
<1> QED BY <1>1, <1>2, <1>3, <1>4, RunStepIsSuiteStep

\* The inductive invariant holds throughout every run.
THEOREM RunInvariance == RunSpec => []RInv
BY RunStarts, RunSteps, PTL DEF RunSpec

\* Exit code 0 means that every planned check passed and that the results of
\* every phase are in their files, for any number of batches and entries.
THEOREM SuccessMeansAllPassed == RunSpec => []ZeroMeansAllPassed
<1>1. RInv => ZeroMeansAllPassed
  <2> SUFFICES ASSUME RInv, exit = 0
               PROVE  /\ \A c \in 1..3 : res[c] = [passed |-> Planned[c], failed |-> 0]
                      /\ finished = {r \in Reports : files[r] = "whole"}
                      /\ finished # {} /\ (fresh /\ confirmed > 0 => finished = Reports)
    BY DEF ZeroMeansAllPassed
  <2> USE DEF RInv
  <2>1. /\ stage = "report" /\ summary # <<>> /\ phase = "returned"
        /\ Verdict = 0 /\ written = Len(ToWrite)
        /\ fresh \in BOOLEAN /\ latency \in BOOLEAN /\ confirmed \in {0, 1}
    BY DEF StageInv
  <2>2. ASSUME NEW c \in 1..3
        PROVE  res[c] = [passed |-> Planned[c], failed |-> 0]
    <3>1. res[c] \in Counts /\ res[c].failed \in Nat /\ res[c].passed \in Nat
      BY DEF CountInv, Counts
    <3>2. res[c].failed = 0
      BY <2>1, <3>1 DEF Verdict
    <3>3. res[c].passed = Planned[c]
      BY <2>1, <3>1, <3>2 DEF CountInv, Counted
    <3> QED BY <3>1, <3>2, <3>3 DEF Counts
  <2>3. Flushed = {"correctness"} \cup (IF fresh THEN {"throughput", "storage"} ELSE {})
                                  \cup (IF fresh /\ latency THEN {"latency"} ELSE {})
    BY <2>1, ToWriteFacts DEF Flushed
  <2>4. /\ finished = Flushed
        /\ finished # {} /\ finished \subseteq Reports
        /\ fresh /\ confirmed > 0 => finished = Reports
    BY <2>1, <2>3 DEF FinishedInv, Reports, Benchmarks
  <2>5. finished = {r \in Reports : files[r] = "whole"}
    BY <2>4 DEF FilesInv
  <2> QED BY <2>2, <2>4, <2>5
<1> QED BY <1>1, RunInvariance, PTL

\* When every check has something to check, the exit code, made of what
\* failed, and the printed table, made of what passed, agree.
THEOREM TableAndExitAgree ==
  ASSUME \A c \in 1..3 : Planned[c] > 0
  PROVE  RunSpec => []TableAgreesWithExit
<1>1. RInv => TableAgreesWithExit
  <2> SUFFICES ASSUME RInv, summary # <<>>
               PROVE  exit = 0 <=> \A c \in 1..3 : summary[c] = "PASS"
    BY DEF TableAgreesWithExit
  <2> USE DEF RInv
  <2>1. /\ phase = "returned" /\ exit = Verdict
        /\ summary = [c \in 1..3 |-> PassOrFail(c)]
    BY DEF StageInv
  <2>2. ASSUME NEW c \in 1..3
        PROVE  res[c].failed > 0 <=> summary[c] # "PASS"
    <3>1. res[c].failed \in Nat /\ res[c].passed \in Nat
      BY DEF CountInv, Counts
    <3>2. Planned[c] = res[c].passed + res[c].failed
      BY <2>1 DEF CountInv, Counted
    <3>3. summary[c] = PassOrFail(c)
      BY <2>1
    <3> QED BY <3>1, <3>2, <3>3 DEF PassOrFail
  <2> QED BY <2>1, <2>2 DEF Verdict
<1> QED BY <1>1, RunInvariance, PTL

\* A --fresh run that printed its summary leaves no file of an earlier run.
THEOREM FilesAreOfOneRun == RunSpec => []FilesOfOneRun
<1>1. RInv => FilesOfOneRun
  BY DEF RInv, StageInv, FilesInv, FilesOfOneRun
<1> QED BY <1>1, RunInvariance, PTL

\* Every variable keeps its type in every run.
THEOREM RunTypeCorrect == RunSpec => []RunTypeOK
<1>1. RInv /\ TypeOK => RunTypeOK
  <2> SUFFICES ASSUME RInv, TypeOK PROVE RunTypeOK
    OBVIOUS
  <2> USE DEF RInv
  <2>1. finished \subseteq Reports
    BY DEF StageInv, FinishedInv, Early, Reports, Benchmarks
  <2>2. summary \in {<<>>} \cup [1..3 -> {"PASS", "FAIL"}]
    <3>1. CASE summary # <<>>
      <4>1. summary = [c \in 1..3 |-> PassOrFail(c)]
        BY <3>1 DEF StageInv
      <4>2. \A c \in 1..3 : PassOrFail(c) \in {"PASS", "FAIL"}
        BY DEF PassOrFail
      <4> QED BY <4>1, <4>2
    <3> QED BY <3>1
  <2> QED BY <2>1, <2>2 DEF StageInv, FilesInv, RunTypeOK, Early
<1> QED BY <1>1, RunInvariance, SuiteOfTheRun, SuiteTypeCorrect, PTL

\* The records, the snapshots and the counts of the suite are right in every
\* run of the program.
THEOREM SuiteIsRightInTheRun ==
  RunSpec => [](LogIndexIsSubmissionIndex /\ SnapshotsEndBatches /\ OnlyUnreadFails)
BY SuiteOfTheRun, RecordsAreInOrder, SnapshotsAreOfBatches, SuiteFailsOnlyUnread, PTL
=============================================================================
