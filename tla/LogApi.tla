------------------------------- MODULE LogApi -------------------------------
(***************************************************************************)
(* The REST handlers of internal/api over one Tessera appender.  Each      *)
(* request is a goroutine of its own; between two steps of a handler any   *)
(* other handler, the batch writer, the publisher and the awaiter's poll   *)
(* may run, and the process may stop and be started again on the same log  *)
(* directory.                                                              *)
(***************************************************************************)
EXTENDS TesseraLog, FiniteSets

CONSTANTS Ops,         \* the endpoints the clients of an instance call
          NoLeaf,      \* a submitted body that does not decode, or is empty
          MaxSize,     \* sizes and indices a client asks about: 0..MaxSize
          MaxRestarts  \* bound on the number of restarts

ASSUME OpsAssumption == Ops \subseteq {"submit", "prove", "sth", "consistency"}
ASSUME NoLeafAssumption == NoLeaf \notin Leaves
ASSUME MaxSizeAssumption == MaxSize \in Nat
ASSUME MaxRestartsAssumption == MaxRestarts \in Nat

VARIABLES pc,       \* where each request's handler stands
          call,     \* what each request asks
          view,     \* the checkpoint a handler has read and builds a proof for
          reply,    \* what each request was answered
          before,   \* history: the requests answered before this one was sent
          restarts  \* how often the process was restarted

apiVars == <<pc, call, view, reply, before, restarts>>
vars == <<tesseraVars, apiVars>>

Invalid == -1  \* a query parameter that is missing or does not parse

NoCall == [op |-> "none"]

\* A query parameter is a number, or fails to parse.
Param == 0..MaxSize \cup {Invalid}

Calls ==
  {c \in [op : {"submit"}, leaf : Leaves \cup {NoLeaf}]
         \cup [op : {"prove"}, index : Param]
         \cup [op : {"sth"}]
         \cup [op : {"consistency"}, from : Param, to : Param] :
     c.op \in Ops}

Failure(status) == [status |-> status]
NoReply == Failure(0)

Init ==
  /\ TesseraInit
  /\ pc = [r \in Requests |-> "idle"]
  /\ call = [r \in Requests |-> NoCall]
  /\ view = [r \in Requests |-> CheckpointAt(<<>>, 0)]
  /\ reply = [r \in Requests |-> NoReply]
  /\ before = [r \in Requests |-> {}]
  /\ restarts = 0

-----------------------------------------------------------------------------

Goto(r, step) == pc' = [pc EXCEPT ![r] = step]

Answer(r, a) ==
  /\ Goto(r, "done")
  /\ reply' = [reply EXCEPT ![r] = a]

Handling(r, op) == pc[r] = "handling" /\ call[r].op = op

\* A client sends a request; the mux starts its handler.
Arrive(r) ==
  /\ pc[r] = "idle"
  /\ Goto(r, "handling")
  /\ \E c \in Calls : call' = [call EXCEPT ![r] = c]
  /\ before' = [before EXCEPT ![r] = {q \in Requests : pc[q] = "done"}]
  /\ UNCHANGED <<tesseraVars, view, reply, restarts>>

\* POST /token/submit.
SubmitReject(r) ==
  /\ Handling(r, "submit")
  /\ call[r].leaf = NoLeaf
  /\ Answer(r, Failure(400))
  /\ UNCHANGED <<tesseraVars, call, view, before, restarts>>

SubmitAddUnchecked(r) ==  \* mutant: the empty-data check is missing
  /\ Handling(r, "submit")
  /\ Add(r, call[r].leaf)
  /\ Goto(r, "awaiting")
  /\ UNCHANGED <<call, view, reply, before, restarts>>

SubmitAdd(r) ==
  /\ Handling(r, "submit")
  /\ call[r].leaf # NoLeaf
  /\ Add(r, call[r].leaf)
  /\ Goto(r, "awaiting")
  /\ UNCHANGED <<call, view, reply, before, restarts>>

\* Await fails: the appender refused the leaf, or the client went away while
\* the leaf stays queued or sequenced.
SubmitFailRetry(r) ==  \* mutant: Add is called again when Await fails
  /\ pc[r] = "awaiting"
  /\ Len(queue) <= Cardinality(Requests)
  /\ Add(r, call[r].leaf)
  /\ UNCHANGED <<pc, call, view, reply, before, restarts>>

SubmitFail(r) ==
  /\ \/ Handling(r, "submit") /\ call[r].leaf # NoLeaf
     \/ pc[r] = "awaiting"
  /\ Answer(r, Failure(500))
  /\ UNCHANGED <<tesseraVars, call, view, before, restarts>>

SubmitReplySequenced(r, a) ==  \* mutant: the future alone is waited for
  /\ pc[r] = "awaiting"
  /\ index[r] # Unresolved
  /\ Answer(r, [status |-> 200, index |-> index[r], leaf |-> call[r].leaf,
                size |-> checkpoint.size, root |-> checkpoint.root])
  /\ UNCHANGED <<tesseraVars, call, view, before, restarts>>

SubmitReplyByContent(r, a) ==  \* mutant: answers with the first copy of the leaf
  /\ pc[r] = "awaiting"
  /\ AwaitReturns(a, r)
  /\ \E i \in 0..index[r] :
       /\ entries[i + 1] = call[r].leaf
       /\ \A j \in 1..i : entries[j] # call[r].leaf
       /\ Answer(r, [status |-> 200, index |-> i, leaf |-> call[r].leaf,
                     size |-> awaited[a].size, root |-> awaited[a].root])
  /\ UNCHANGED <<tesseraVars, call, view, before, restarts>>

SubmitReply(r, a) ==
  /\ pc[r] = "awaiting"
  /\ AwaitReturns(a, r)
  /\ Answer(r, [status |-> 200, index |-> index[r], leaf |-> call[r].leaf,
                size |-> awaited[a].size, root |-> awaited[a].root])
  /\ UNCHANGED <<tesseraVars, call, view, before, restarts>>

\* GET /token/prove: one read of the checkpoint, then reads of the tiles.
ProveReject(r) ==
  /\ Handling(r, "prove")
  /\ call[r].index = Invalid
  /\ Answer(r, Failure(400))
  /\ UNCHANGED <<tesseraVars, call, view, before, restarts>>

ProveOutOfRange(r) ==
  /\ Handling(r, "prove")
  /\ call[r].index # Invalid
  /\ call[r].index >= checkpoint.size
  /\ Answer(r, [status |-> 404, size |-> checkpoint.size])
  /\ UNCHANGED <<tesseraVars, call, view, before, restarts>>

ProveRead(r) ==
  /\ Handling(r, "prove")
  /\ call[r].index # Invalid
  /\ call[r].index < checkpoint.size
  /\ view' = [view EXCEPT ![r] = checkpoint]
  /\ Goto(r, "building")
  /\ UNCHANGED <<tesseraVars, call, reply, before, restarts>>

ProveReplyReread(r) ==  \* mutant: the proof is built for a second read
  /\ pc[r] = "building"
  /\ call[r].op = "prove"
  /\ Answer(r, [status |-> 200, index |-> call[r].index,
                size |-> view[r].size, root |-> view[r].root,
                proof |-> InclusionProof(entries, call[r].index, checkpoint.size)])
  /\ UNCHANGED <<tesseraVars, call, view, before, restarts>>

ProveReply(r) ==
  /\ pc[r] = "building"
  /\ call[r].op = "prove"
  /\ Answer(r, [status |-> 200, index |-> call[r].index,
                size |-> view[r].size, root |-> view[r].root,
                proof |-> InclusionProof(entries, call[r].index, view[r].size)])
  /\ UNCHANGED <<tesseraVars, call, view, before, restarts>>

\* GET /log/sth, and GET /checkpoint, which serves the same bytes unparsed.
STHReplyAwaited(r) ==  \* mutant: the awaiter's copy is served
  /\ Handling(r, "sth")
  /\ \E a \in Awaiters :
       Answer(r, [status |-> 200, size |-> awaited[a].size,
                  root |-> awaited[a].root])
  /\ UNCHANGED <<tesseraVars, call, view, before, restarts>>

STHReply(r) ==
  /\ Handling(r, "sth")
  /\ Answer(r, [status |-> 200, size |-> checkpoint.size,
                root |-> checkpoint.root])
  /\ UNCHANGED <<tesseraVars, call, view, before, restarts>>

\* GET /log/consistency: the proof is for from and to, the root it is
\* answered with is the root of the checkpoint that was read.
ValidRange(c) == c.from # Invalid /\ c.to # Invalid /\ c.from < c.to

ConsistencyReject(r) ==
  /\ Handling(r, "consistency")
  /\ ~ValidRange(call[r]) \/ call[r].to > checkpoint.size
  /\ Answer(r, Failure(400))
  /\ UNCHANGED <<tesseraVars, call, view, before, restarts>>

ConsistencyRead(r) ==
  /\ Handling(r, "consistency")
  /\ ValidRange(call[r])
  /\ call[r].to <= checkpoint.size
  /\ view' = [view EXCEPT ![r] = checkpoint]
  /\ Goto(r, "building")
  /\ UNCHANGED <<tesseraVars, call, reply, before, restarts>>

ConsistencyReplyAwaited(r) ==  \* mutant: the root is the awaiter's
  /\ pc[r] = "building"
  /\ call[r].op = "consistency"
  /\ \E a \in Awaiters :
       Answer(r, [status |-> 200, from |-> call[r].from, to |-> call[r].to,
                  root |-> awaited[a].root,
                  proof |-> ConsistencyProof(entries, call[r].from, call[r].to)])
  /\ UNCHANGED <<tesseraVars, call, view, before, restarts>>

ConsistencyReply(r) ==
  /\ pc[r] = "building"
  /\ call[r].op = "consistency"
  /\ Answer(r, [status |-> 200, from |-> call[r].from, to |-> call[r].to,
                root |-> view[r].root,
                proof |-> ConsistencyProof(entries, call[r].from, call[r].to)])
  /\ UNCHANGED <<tesseraVars, call, view, before, restarts>>

\* A read of the checkpoint or of a tile fails.
ReadFail(r) ==
  /\ \/ Handling(r, "prove") /\ call[r].index # Invalid
     \/ Handling(r, "sth")
     \/ Handling(r, "consistency") /\ ValidRange(call[r])
     \/ pc[r] = "building"
  /\ Answer(r, Failure(500))
  /\ UNCHANGED <<tesseraVars, call, view, before, restarts>>

\* The process exits (fatalf, a crash) and a later run opens the same log
\* directory.  The connections of the handlers in flight are lost.
InFlight(r) == pc[r] \in {"handling", "awaiting", "building"}

RestartFresh ==  \* mutant: every start removes the log, as --fresh does
  /\ restarts < MaxRestarts
  /\ restarts' = restarts + 1
  /\ queue' = <<>> /\ entries' = <<>>
  /\ index' = [r \in Requests |-> Unresolved]
  /\ checkpoint' = CheckpointAt(<<>>, 0) /\ awaited' = NothingPolled
  /\ pc' = [r \in Requests |-> IF InFlight(r) THEN "lost" ELSE pc[r]]
  /\ UNCHANGED <<call, view, reply, before>>

Restart ==
  /\ restarts < MaxRestarts
  /\ restarts' = restarts + 1
  /\ Reopen
  /\ pc' = [r \in Requests |-> IF InFlight(r) THEN "lost" ELSE pc[r]]
  /\ UNCHANGED <<call, view, reply, before>>

-----------------------------------------------------------------------------

Submit(r) ==
  SubmitReject(r) \/ SubmitAdd(r) \/ \E a \in Awaiters : SubmitReply(r, a)
Prove(r) == ProveReject(r) \/ ProveOutOfRange(r) \/ ProveRead(r) \/ ProveReply(r)
Consistency(r) ==
  ConsistencyReject(r) \/ ConsistencyRead(r) \/ ConsistencyReply(r)

\* The steps a handler takes without waiting for its client.
Handle(r) == Submit(r) \/ Prove(r) \/ STHReply(r) \/ Consistency(r)

\* The goroutines of the library.
Background ==
  IntegrateBatch \/ PublishCheckpoint \/ \E a \in Awaiters : PollCheckpoint(a)

Next ==
  \/ \E r \in Requests : Arrive(r)
  \/ \E r \in Requests : Handle(r)
  \/ \E r \in Requests : SubmitFail(r)
  \/ \E r \in Requests : ReadFail(r)
  \/ Background /\ UNCHANGED apiVars
  \/ Restart

\* The batch timer, the checkpoint ticker and the awaiter's poll are timers
\* that never stop while the process lives, and the scheduler runs every
\* runnable handler.  Clients, failures and restarts are owed nothing.
Fairness ==
  /\ WF_vars(IntegrateBatch /\ UNCHANGED apiVars)
  /\ WF_vars(PublishCheckpoint /\ UNCHANGED apiVars)
  /\ \A a \in Awaiters : WF_vars(PollCheckpoint(a) /\ UNCHANGED apiVars)
  /\ \A r \in Requests : WF_vars(Handle(r))

Spec == Init /\ [][Next]_vars
FairSpec == Spec /\ Fairness
-----------------------------------------------------------------------------
(***************************************************************************)
(* Properties.                                                             *)
(***************************************************************************)
Replies ==
  [status : {0, 400, 500}]
  \cup [status : {404}, size : Nat]
  \cup [status : {200}, size : Nat, root : Seq(Leaves)]
  \cup [status : {200}, size : Nat, root : Seq(Leaves),
        index : Nat, leaf : Leaves]
  \cup [status : {200}, size : Nat, root : Seq(Leaves), index : Nat,
        proof : [index : Nat, size : Nat, tree : Seq(Leaves)]]
  \cup [status : {200}, root : Seq(Leaves), from : Nat, to : Nat,
        proof : [from : Nat, to : Nat, tree : Seq(Leaves)]]

\* Every variable stays in its set; in particular only decoded, non-empty
\* leaves reach the appender (handler.go:65).
TypeOK ==
  /\ queue \in Seq([request : Requests, leaf : Leaves])
  /\ entries \in Seq(Leaves)
  /\ index \in [Requests -> Nat \cup {Unresolved}]
  /\ checkpoint \in Checkpoints
  /\ awaited \in [Awaiters -> Checkpoints]
  /\ pc \in [Requests ->
              {"idle", "handling", "awaiting", "building", "done", "lost"}]
  /\ call \in [Requests -> Calls \cup {NoCall}]
  /\ view \in [Requests -> Checkpoints]
  /\ reply \in [Requests -> Replies]
  /\ before \in [Requests -> SUBSET Requests]
  /\ restarts \in 0..MaxRestarts

Answered(r, op) == pc[r] = "done" /\ call[r].op = op /\ reply[r].status = 200

\* A 200 answer to a submission is a receipt: the leaf is at that index of the
\* log, and the answered tree head covers it and is published.  It stays so
\* whatever is sequenced later and across restarts of the process.
ReceiptSound ==
  \A r \in Requests : Answered(r, "submit") =>
    LET a == reply[r] IN
      /\ a.index < a.size /\ a.size <= checkpoint.size
      /\ entries[a.index + 1] = call[r].leaf
      /\ a.root = RootAt(entries, a.size)

\* Two accepted submissions are never confirmed at one index, and nothing is
\* sequenced more often than it was added: there is one entry for each
\* submission at most, even for the submissions answered with an error.
NoDuplicateSequencing ==
  /\ Len(entries) + Len(queue) <=
       Cardinality({r \in Requests : /\ call[r].op = "submit"
                                     /\ pc[r] # "handling"})
  /\ \A q, r \in Requests :
       Answered(q, "submit") /\ Answered(r, "submit") /\ q # r
         => reply[q].index # reply[r].index

\* The tree size an answer tells its client about, 404 answers of prove
\* included.
TellsSize(r) ==
  /\ pc[r] = "done"
  /\ \/ reply[r].status = 404
     \/ reply[r].status = 200 /\ call[r].op # "consistency"

\* A leaf is confirmed beyond every tree its client had been told of before it
\* submitted the leaf: nobody learns of a submission from an older tree, and a
\* leaf submitted again after its receipt is an entry of its own.  The tree has grown
\* between two such answers, which sprints 2 and 3 count on.
NeverBackdated ==
  \A r \in Requests : \A q \in before[r] :
    Answered(r, "submit") /\ TellsSize(q) => reply[q].size <= reply[r].index

\* The log never appears to shrink: an answer to a request sent after another
\* answer was received tells of a tree at least as large, whichever endpoints
\* gave the two answers, and a receipt is for a place beyond that tree.  One of
\* the endpoints reads the checkpoint itself and another the awaiter's older
\* copy.  In particular a client can prove a leaf as soon as its submission was
\* answered: 404 would tell of a smaller tree.
NoRegression ==
  /\ \A r \in Requests : \A q \in before[r] :
       TellsSize(q) /\ TellsSize(r) => reply[q].size <= reply[r].size
  /\ NeverBackdated

\* An inclusion proof verifies against the size and root in the same answer,
\* though the tiles are read after the checkpoint while the log grows.
ProofsVerify ==
  \A r \in Requests : Answered(r, "prove") =>
    LET a == reply[r] IN
      VerifyInclusion(a.index, a.size, entries[a.index + 1], a.proof, a.root)

\* A consistency proof that ends at the tree head the handler read verifies
\* from any tree head an earlier or later answer showed to the head it is
\* answered with.
ConsistencyToHeadVerifies ==
  \A r, q \in Requests :
    /\ Answered(r, "consistency") /\ reply[r].to = view[r].size
    /\ TellsSize(q) /\ reply[q].status = 200
    /\ reply[q].size = reply[r].from /\ 0 < reply[r].from
    => VerifyConsistency(reply[r].from, reply[r].to, reply[r].proof,
                         reply[q].root, reply[r].root)

\* What the README says of the endpoint: the answer proves consistency between
\* the two sizes asked about.  It takes the root at both sizes, so new_root
\* would have to be the root at size to.
NewRootIsRootAtTo ==
  \A r \in Requests : Answered(r, "consistency") =>
    reply[r].root = RootAt(entries, reply[r].to)

\* Every request that is being handled is answered, unless the process ends:
\* an accepted leaf is written, published and seen by the awaiter in turn.
EveryRequestEnds ==
  \A r \in Requests : InFlight(r) ~> pc[r] \in {"done", "lost"}

\* A leaf once sequenced is published, whatever became of its request: also
\* when Await failed, and when the process stopped before the checkpoint that
\* covers the leaf and was started again.
EntriesPublished ==
  \A i \in 0..Cardinality(Requests) :
    Len(entries) > i ~> checkpoint.size > i

ShowsHead(r) == TellsSize(r) /\ reply[r].status = 200
ShownHead(r) == [size |-> reply[r].size, root |-> reply[r].root]
Confirmed(r) == [index |-> reply[r].index, leaf |-> reply[r].leaf]

Heads == {ShownHead(r) : r \in {q \in Requests : ShowsHead(q)}}
Receipts == {Confirmed(r) : r \in {q \in Requests : Answered(q, "submit")}}

\* The handlers and the appender together keep the promise of AppendOnlyLog.
Promise == INSTANCE AppendOnlyLog WITH
  log <- entries,
  head <- checkpoint.size,
  heads <- Heads,
  receipts <- Receipts

KeepsPromise == Promise!Spec
=============================================================================
