-------------------------- MODULE CorrectnessSuite --------------------------
(***************************************************************************)
(* Part 3 of cmd/sprint4: the correctness suite.  The main goroutine adds  *)
(* the entries batch by batch, one goroutine for each entry awaits it and  *)
(* writes its record into a shared slice without a lock, and after a batch *)
(* the main goroutine keeps the checkpoint.  Then the appender is shut     *)
(* down and the proofs are built from the tiles.  Sprint4Run composes the  *)
(* suite with the rest of the program.                                     *)
(***************************************************************************)
EXTENDS TesseraLog

CONSTANTS Batches,       \* corrSnapshots
          BatchEntries,  \* corrBatch
          NegativeTests  \* corrNegTests

Total == Batches * BatchEntries  \* corrTotal

\* A request is the submission number of an entry, and no two of the
\* generated tokens are equal, so the number also stands for its leaf.
ASSUME BatchesAssumption == Batches \in Nat \ {0}
ASSUME BatchEntriesAssumption == BatchEntries \in Nat \ {0}
ASSUME NegativeTestsAssumption == NegativeTests \in Nat
ASSUME SubmissionsAssumption == Requests = 0..(Total - 1) /\ Leaves = Requests

VARIABLES phase,      \* where the main goroutine stands
          added,      \* how many entries were added
          pending,    \* bwg: the entries whose goroutine has not ended
          refused,    \* the entries whose Add was refused
          records,    \* records[], by log index
          snapshots,  \* the checkpoint kept after each batch
          res,        \* corrRes: what each check counted
          unread      \* history: the proofs that could not be built

suiteVars == <<phase, added, pending, refused, records, snapshots, res, unread>>
vars == <<tesseraVars, suiteVars>>

NoToken == -1
NoRecord == [index |-> 0, leaf |-> NoToken]
Tampered(leaf) == -2 - leaf

Checks == <<"inclusion", "consistency", "negative">>
Planned == <<Total, Batches - 1, NegativeTests>>

Init ==
  /\ TesseraInit
  /\ phase = "append"
  /\ added = 0
  /\ pending = {}
  /\ refused = {}
  /\ records = [i \in Requests |-> NoRecord]
  /\ snapshots = <<>>
  /\ res = [c \in 1..3 |-> [passed |-> 0, failed |-> 0]]
  /\ unread = 0

-----------------------------------------------------------------------------
(* Appending. *)

BatchAdded == added = (Len(snapshots) + 1) * BatchEntries

AddInGoroutine ==  \* mutant: Add is called by the entries' goroutines
  /\ phase = "append" /\ ~BatchAdded
  /\ \E i \in Requests :
       /\ i \div BatchEntries = Len(snapshots)
       /\ index[i] = Unresolved /\ \A j \in 1..Len(queue) : queue[j].request # i
       /\ Add(i, i)
       /\ pending' = pending \cup {i}
  /\ added' = added + 1
  /\ UNCHANGED <<phase, refused, records, snapshots, res, unread>>

AddEntry ==
  /\ phase = "append" /\ ~BatchAdded /\ added < Total
  /\ Add(added, added)
  /\ pending' = pending \cup {added}
  /\ added' = added + 1
  /\ UNCHANGED <<phase, refused, records, snapshots, res, unread>>

\* The library refuses the Add or fails its batch: the future holds the error
\* and the entries added later get smaller indices.
AddRefused ==
  /\ phase = "append" /\ ~BatchAdded /\ added < Total
  /\ pending' = pending \cup {added}
  /\ refused' = refused \cup {added}
  /\ added' = added + 1
  /\ UNCHANGED <<tesseraVars, phase, records, snapshots, res, unread>>

RecordNotDone(i) ==  \* mutant: Done is only reached when Await fails
  /\ phase = "append" /\ i \in pending
  /\ \E a \in Awaiters : AwaitReturns(a, i)
  /\ records' = [records EXCEPT ![index[i]] = [index |-> index[i], leaf |-> i]]
  /\ UNCHANGED <<tesseraVars, phase, added, pending, refused, snapshots, res,
                 unread>>

RecordOneBased(i) ==  \* mutant: indices are taken to start at one
  /\ phase = "append" /\ i \in pending
  /\ \E a \in Awaiters : AwaitReturns(a, i)
  /\ records' = [records EXCEPT
       ![index[i]] = [index |-> index[i] + 1, leaf |-> i]]
  /\ pending' = pending \ {i}
  /\ UNCHANGED <<tesseraVars, phase, added, refused, snapshots, res, unread>>

\* The goroutine of entry i writes at the index the log gave the entry.
Record(i) ==
  /\ phase = "append" /\ i \in pending
  /\ \E a \in Awaiters : AwaitReturns(a, i)
  /\ records' = [records EXCEPT ![index[i]] = [index |-> index[i], leaf |-> i]]
  /\ pending' = pending \ {i}
  /\ UNCHANGED <<tesseraVars, phase, added, refused, snapshots, res, unread>>

SnapshotNoWait ==  \* mutant: bwg.Wait is missing
  /\ phase = "append" /\ BatchAdded
  /\ snapshots' = Append(snapshots, checkpoint)
  /\ UNCHANGED <<tesseraVars, phase, added, pending, refused, records, res,
                 unread>>

Snapshot ==
  /\ phase = "append" /\ BatchAdded /\ pending = {}
  /\ snapshots' = Append(snapshots, checkpoint)
  /\ UNCHANGED <<tesseraVars, phase, added, pending, refused, records, res,
                 unread>>

\* shutdown stops the goroutines of the library; an error of it is a warning.
Shutdown ==
  /\ phase = "append" /\ Len(snapshots) = Batches
  /\ phase' = "check"
  /\ UNCHANGED <<tesseraVars, added, pending, refused, records, snapshots, res,
                 unread>>

\* Await hands the error of a refused Add to its goroutine: fatalf.
AwaitRefused ==
  /\ phase = "append" /\ refused # {}
  /\ phase' = "fatal"
  /\ UNCHANGED <<tesseraVars, added, pending, refused, records, snapshots, res,
                 unread>>

\* fatalf, from whichever goroutine: the log cannot be opened, or any other Await
\* or a read of the checkpoint fails.
Fatal ==
  /\ phase = "append"
  /\ \/ added = 0
     \/ pending # {}
     \/ BatchAdded
     \/ Len(snapshots) = Batches
  /\ phase' = "fatal"
  /\ UNCHANGED <<tesseraVars, added, pending, refused, records, snapshots, res,
                 unread>>

-----------------------------------------------------------------------------
(* Checking. *)

Counted(c) == res[c].passed + res[c].failed

\* The checks run one after the other.
Running(c) ==
  /\ phase = "check"
  /\ Counted(c) < Planned[c]
  /\ \A d \in 1..(c - 1) : Counted(d) = Planned[d]

Score(c, ok) ==
  /\ res' = IF ok THEN [res EXCEPT ![c].passed = @ + 1]
                  ELSE [res EXCEPT ![c].failed = @ + 1]
  /\ UNCHANGED <<tesseraVars, phase, added, pending, refused, records, snapshots>>

FirstCheckpoint == snapshots[1]  \* mutant: the first of the snapshots

FinalCheckpoint == snapshots[Batches]

Verifies(rec, leaf) ==
  LET n == FinalCheckpoint.size IN
    VerifyInclusion(rec.index, n, leaf, InclusionProof(entries, rec.index, n),
                    FinalCheckpoint.root)

CheckInclusion ==
  /\ Running(1)
  /\ LET rec == records[Counted(1)] IN
       Score(1, rec.leaf # NoToken /\ Verifies(rec, rec.leaf))
  /\ UNCHANGED unread

CheckConsistency ==
  /\ Running(2)
  /\ LET from == snapshots[Counted(2) + 1]
         to == snapshots[Counted(2) + 2]
         p == ConsistencyProof(entries, from.size, to.size)
     IN  Score(2, \/ from.size = to.size
                  \/ VerifyConsistency(from.size, to.size, p, from.root, to.root))
  /\ UNCHANGED unread

\* A record is drawn, one byte of its token is flipped, and the proof of the
\* record has to be refused for it.
CheckNegative ==
  /\ Running(3)
  /\ \E i \in Requests :
       LET rec == records[i] IN
         Score(3, rec.leaf # NoToken /\ ~Verifies(rec, Tampered(rec.leaf)))
  /\ UNCHANGED unread

\* A tile cannot be read, so there is no proof.
CheckUnread ==
  /\ \E c \in 1..3 : Running(c) /\ Score(c, FALSE)
  /\ unread' = unread + 1

\* runCorrectnessPhase returns the counts.
Return ==
  /\ phase = "check" /\ \A c \in 1..3 : Counted(c) = Planned[c]
  /\ phase' = "returned"
  /\ UNCHANGED <<tesseraVars, added, pending, refused, records, snapshots, res,
                 unread>>

-----------------------------------------------------------------------------
Background ==
  /\ phase = "append"
  /\ \/ IntegrateBatch
     \/ PublishCheckpoint
     \/ \E a \in Awaiters : PollCheckpoint(a)
  /\ UNCHANGED suiteVars

Main ==
  \/ AddEntry \/ AddRefused \/ Snapshot \/ Shutdown
  \/ CheckInclusion \/ CheckConsistency \/ CheckNegative \/ Return

Next ==
  \/ Main
  \/ \E i \in Requests : Record(i)
  \/ AwaitRefused
  \/ Fatal
  \/ CheckUnread
  \/ Background

Spec == Init /\ [][Next]_vars
-----------------------------------------------------------------------------
(* Properties. *)

Counts == [passed : Nat, failed : Nat]

\* Every variable stays in its set, and no index the log returns is outside
\* the records slice, which would be a panic (main.go:595).
TypeOK ==
  /\ queue \in Seq([request : Requests, leaf : Leaves])
  /\ entries \in Seq(Leaves)
  /\ index \in [Requests -> Requests \cup {Unresolved}]
  /\ checkpoint \in Checkpoints /\ awaited \in [Awaiters -> Checkpoints]
  /\ phase \in {"append", "check", "returned", "fatal"}
  /\ added \in 0..Total
  /\ pending \subseteq Requests /\ refused \subseteq Requests
  /\ records \in [Requests -> [index : Requests, leaf : Leaves \cup {NoToken}]]
  /\ snapshots \in Seq(Checkpoints) /\ Len(snapshots) <= Batches
  /\ res \in [1..3 -> Counts]
  /\ unread \in Nat

\* "log index == submission index" (main.go:570-572): whichever goroutine
\* returns first, the record at index i is that of the i-th entry added, so
\* the unlocked writes never meet in one slot.  Only behind a refused entry are
\* the indices shifted, and then the run ends before it checks a record.
LogIndexIsSubmissionIndex ==
  /\ \A i \in Requests :
       records[i] # NoRecord =>
         /\ records[i].index = i
         /\ \/ records[i].leaf = i
            \/ \E f \in refused : f <= i /\ f < records[i].leaf
  /\ refused # {} => phase \in {"append", "fatal"}

\* The checkpoint kept after a batch commits to the entries of the batches so
\* far and to nothing else, and each of those entries has its record: this is
\* what waiting for the goroutines of the batch is for.
SnapshotsEndBatches ==
  \A b \in 1..Len(snapshots) :
    /\ snapshots[b].size = b * BatchEntries
    /\ snapshots[b].root = RootAt(entries, b * BatchEntries)
    /\ \A i \in 0..(b * BatchEntries - 1) : records[i].leaf = i

\* Over a log that can be read the suite fails nothing: each proof that can be
\* built passes and each tampered token is refused.
OnlyUnreadFails == res[1].failed + res[2].failed + res[3].failed = unread
=============================================================================
