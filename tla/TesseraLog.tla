----------------------------- MODULE TesseraLog -----------------------------
(***************************************************************************)
(* The Tessera appender as the programs of this repository use it: Add     *)
(* queues a leaf and returns a future, batches (WithBatching) are written  *)
(* to the POSIX log and resolve the futures, a checkpoint is published     *)
(* every WithCheckpointInterval, and a PublicationAwaiter polls it on a    *)
(* timer of its own.  Those are three independent delays between Add and   *)
(* the answer to a client.  A program may have several awaiters over one   *)
(* log, each with a copy of the checkpoint.  The library is not part of    *)
(* the repository, so every definition here is modelled from its use.      *)
(***************************************************************************)
EXTENDS Integers, Sequences

CONSTANTS Requests,   \* one per call of Add
          Leaves,     \* the leaf contents that are submitted
          Awaiters,   \* the PublicationAwaiters over the log
          BatchMax    \* first argument of WithBatching

ASSUME BatchMaxAssumption == BatchMax \in Nat \ {0}

VARIABLES queue,       \* added, not yet sequenced (memory)
          entries,     \* sequenced and integrated leaves (disk)
          index,       \* what the future of each Add has resolved to (memory)
          checkpoint,  \* the published checkpoint (disk)
          awaited      \* the copy of the checkpoint each awaiter has (memory)

tesseraVars == <<queue, entries, index, checkpoint, awaited>>

Unresolved == -1

\* A root hash is identified with the leaves it commits to.
RootAt(log, n) == SubSeq(log, 1, n)

CheckpointAt(log, n) == [size |-> n, root |-> RootAt(log, n)]

Checkpoints == [size : Nat, root : Seq(Leaves)]

NothingPolled == [a \in Awaiters |-> CheckpointAt(<<>>, 0)]

TesseraInit ==
  /\ queue = <<>>
  /\ entries = <<>>
  /\ index = [r \in Requests |-> Unresolved]
  /\ checkpoint = CheckpointAt(<<>>, 0)
  /\ awaited = NothingPolled

Add(r, leaf) ==
  /\ queue' = Append(queue, [request |-> r, leaf |-> leaf])
  /\ UNCHANGED <<entries, index, checkpoint, awaited>>

Position(r, n) == CHOOSE i \in 1..n : queue[i].request = r

\* The oldest n queued leaves are written as one batch and their futures
\* resolve to consecutive indices.  A batch is cut by its size or by its age,
\* so it may be of any length up to BatchMax.
IntegrateBatch ==
  /\ \E n \in 1..Len(queue) :
       /\ n <= BatchMax
       /\ entries' = entries \o [i \in 1..n |-> queue[i].leaf]
       /\ index' = [r \in Requests |->
            IF \E i \in 1..n : queue[i].request = r
            THEN Len(entries) + Position(r, n) - 1
            ELSE index[r]]
       /\ queue' = SubSeq(queue, n + 1, Len(queue))
  /\ UNCHANGED <<checkpoint, awaited>>

PublishFullBatch ==  \* mutant: publishes only when a batch has filled up
  /\ checkpoint.size + BatchMax <= Len(entries)
  /\ checkpoint' = CheckpointAt(entries, Len(entries))
  /\ UNCHANGED <<queue, entries, index, awaited>>

PublishCheckpoint ==
  /\ checkpoint.size < Len(entries)
  /\ checkpoint' = CheckpointAt(entries, Len(entries))
  /\ UNCHANGED <<queue, entries, index, awaited>>

PollCheckpoint(a) ==
  /\ awaited[a] # checkpoint
  /\ awaited' = [awaited EXCEPT ![a] = checkpoint]
  /\ UNCHANGED <<queue, entries, index, checkpoint>>

\* Await returns once the future has resolved and the checkpoint its awaiter
\* has polled is large enough to include that index.
AwaitReturnsLate(a, r) ==  \* mutant: off by one, waits for a later leaf
  /\ index[r] # Unresolved
  /\ index[r] + 1 < awaited[a].size

AwaitReturns(a, r) ==
  /\ index[r] # Unresolved
  /\ index[r] < awaited[a].size

\* The process ends without shutdown and is started again on the same
\* directory: what was in memory is gone, what was on disk is read back.
Reopen ==
  /\ queue' = <<>>
  /\ index' = [r \in Requests |-> Unresolved]
  /\ awaited' = NothingPolled
  /\ UNCHANGED <<entries, checkpoint>>

-----------------------------------------------------------------------------
(***************************************************************************)
(* Proofs, by what they commit to.  A proof built for a tree of a given    *)
(* size carries exactly enough of that tree to recompute its root, so a    *)
(* proof holds the leaves of that tree, and verifying it recomputes the    *)
(* root with the claimed leaf in its place and compares.                   *)
(***************************************************************************)
InclusionProof(log, i, n) ==
  [index |-> i, size |-> n, tree |-> RootAt(log, n)]

VerifyInclusion(i, n, leaf, proof, root) ==
  /\ i < n
  /\ proof.index = i /\ proof.size = n
  /\ root = [proof.tree EXCEPT ![i + 1] = leaf]

ConsistencyProof(log, m, n) ==
  [from |-> m, to |-> n, tree |-> RootAt(log, n)]

\* The library rejects a proof from the empty tree as meaningless, and takes
\* two heads of one size as consistent when their roots are equal.
VerifyConsistency(m, n, proof, root1, root2) ==
  /\ proof.from = m /\ proof.to = n
  /\ \/ m = n /\ root1 = root2
     \/ /\ 0 < m /\ m < n
        /\ root1 = RootAt(proof.tree, m)
        /\ root2 = proof.tree
=============================================================================
