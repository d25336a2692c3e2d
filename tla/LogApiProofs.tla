--------------------------- MODULE LogApiProofs ---------------------------
(***************************************************************************)
(* What LogApi guarantees for every number of requests, every set of       *)
(* leaves, every batch size and any number of restarts.                    *)
(***************************************************************************)
EXTENDS LogApi, SequenceTheorems, FiniteSetTheorems, TLAPS

-----------------------------------------------------------------------------
(***************************************************************************)
(* The inductive invariant.  The properties speak of answers; what makes   *)
(* them hold is said of the handlers still under way.                      *)
(***************************************************************************)

\* c is a tree head of the log as it stands.
IsHead(c) == c.size <= Len(entries) /\ c.root = RootAt(entries, c.size)

\* Every copy of a checkpoint is a head of the log, none newer than the one
\* on disk.
HeadsInv ==
  /\ IsHead(checkpoint)
  /\ \A a \in Awaiters : IsHead(awaited[a]) /\ awaited[a].size <= checkpoint.size
  /\ \A r \in Requests : IsHead(view[r]) /\ view[r].size <= checkpoint.size

Accepted(r) ==
  /\ pc[r] \notin {"idle", "handling"}
  /\ call[r].op = "submit" /\ call[r].leaf \in Leaves

\* What the early returns of a handler have established for its later steps.
HandlerInv ==
  \A r \in Requests :
    /\ pc[r] = "awaiting" => Accepted(r)
    /\ pc[r] = "building" =>
         \/ call[r].op = "prove" /\ call[r].index \in 0..(view[r].size - 1)
         \/ /\ call[r].op = "consistency"
            /\ call[r].to \in 0..view[r].size
            /\ call[r].from \in 0..(call[r].to - 1)

\* A queued leaf is that of its request.
QueueInv ==
  \A i \in 1..Len(queue) :
    /\ Accepted(queue[i].request)
    /\ queue[i].leaf = call[queue[i].request].leaf

\* A resolved future names the entry that holds the request's leaf.
IndexInv ==
  \A r \in Requests : index[r] # Unresolved =>
    /\ Accepted(r)
    /\ index[r] \in 0..(Len(entries) - 1)
    /\ entries[index[r] + 1] = call[r].leaf

\* What an answer says is true of the log.
ReplyInv ==
  \A r \in Requests :
    /\ TellsSize(r) =>
         /\ reply[r].size \in 0..checkpoint.size
         /\ reply[r].status = 200 => reply[r].root = RootAt(entries, reply[r].size)
    /\ Answered(r, "submit") =>
         /\ reply[r].index \in 0..(reply[r].size - 1)
         /\ reply[r].leaf = call[r].leaf
         /\ entries[reply[r].index + 1] = call[r].leaf
    /\ Answered(r, "prove") =>
         /\ reply[r].index \in 0..(reply[r].size - 1)
         /\ reply[r].proof = InclusionProof(entries, reply[r].index, reply[r].size)
    /\ Answered(r, "consistency") =>
         /\ reply[r].to \in 0..view[r].size
         /\ reply[r].from \in 0..(reply[r].to - 1)
         /\ reply[r].root = view[r].root
         /\ reply[r].proof = ConsistencyProof(entries, reply[r].from, reply[r].to)

\* The size that request r will be told is at least n: what keeps the log from
\* seeming to shrink, at every step of r's handler.
WillTellAtLeast(r, n) ==
  /\ pc[r] = "building" => n <= view[r].size
  /\ index[r] # Unresolved => n <= index[r]
  /\ TellsSize(r) => n <= reply[r].size

BeforeInv ==
  \A r \in Requests : \A q \in before[r] :
    /\ pc[q] = "done"
    /\ TellsSize(q) => WillTellAtLeast(r, reply[q].size)

IInv == /\ TypeOK /\ HeadsInv /\ HandlerInv /\ QueueInv /\ IndexInv
        /\ ReplyInv /\ BeforeInv

-----------------------------------------------------------------------------
(***************************************************************************)
(* Facts about the operators of TesseraLog.                                *)
(***************************************************************************)

\* Appending to the log leaves the root at every earlier size as it was.
LEMMA RootAtConcat ==
  ASSUME NEW S, NEW s \in Seq(S), NEW t \in Seq(S), NEW n \in 0..Len(s)
  PROVE  RootAt(s \o t, n) = RootAt(s, n)
  <1>1. CASE n = 0
    BY <1>1, SubSeqEmpty DEF RootAt
  <1>2. CASE n # 0
    BY <1>2, SubSeqOfConcat1 DEF RootAt
  <1>. QED  BY <1>1, <1>2

\* The root at a size of the log is a sequence of that many leaves.
LEMMA RootAtType ==
  ASSUME NEW S, NEW s \in Seq(S), NEW n \in 0..Len(s)
  PROVE  /\ RootAt(s, n) \in Seq(S)
         /\ Len(RootAt(s, n)) = n
         /\ \A i \in 1..n : RootAt(s, n)[i] = s[i]
  BY DEF RootAt

\* The head of the empty log.
LEMMA EmptyCheckpoint ==
  /\ CheckpointAt(<<>>, 0) = [size |-> 0, root |-> <<>>]
  /\ CheckpointAt(<<>>, 0) \in Checkpoints
  <1>1. <<>> \in Seq(Leaves)
    BY EmptySeq
  <1>2. CheckpointAt(<<>>, 0) = [size |-> 0, root |-> <<>>]
    BY DEF CheckpointAt, RootAt
  <1>3. [size |-> 0, root |-> <<>>] \in Checkpoints
    BY <1>1 DEF Checkpoints
  <1>. QED
    BY <1>2, <1>3

\* A batch of the n oldest leaves of a queue.
LEMMA BatchType ==
  ASSUME NEW q \in Seq([request : Requests, leaf : Leaves]),
         NEW n \in 1..Len(q)
  PROVE  /\ [i \in 1..n |-> q[i].leaf] \in Seq(Leaves)
         /\ Len([i \in 1..n |-> q[i].leaf]) = n
         /\ SubSeq(q, n + 1, Len(q)) \in Seq([request : Requests, leaf : Leaves])
         /\ Len(SubSeq(q, n + 1, Len(q))) = Len(q) - n
         /\ \A i \in 1..(Len(q) - n) : SubSeq(q, n + 1, Len(q))[i] = q[n + i]
  <1>1. \A i \in 1..Len(q) : q[i] \in [request : Requests, leaf : Leaves]
    BY ElementOfSeq
  <1>2. \A i \in 1..n : q[i].leaf \in Leaves
    BY <1>1
  <1>3. /\ [i \in 1..n |-> q[i].leaf] \in Seq(Leaves)
        /\ Len([i \in 1..n |-> q[i].leaf]) = n
    BY <1>2
  <1>4. /\ n + 1 \in Int /\ Len(q) \in Int
        /\ \A i \in (n + 1)..Len(q) : q[i] \in [request : Requests, leaf : Leaves]
    BY <1>1
  <1>5. /\ SubSeq(q, n + 1, Len(q)) \in Seq([request : Requests, leaf : Leaves])
        /\ Len(SubSeq(q, n + 1, Len(q)))
             = IF n + 1 <= Len(q) THEN Len(q) - (n + 1) + 1 ELSE 0
        /\ \A i \in 1..(Len(q) - (n + 1) + 1) :
             SubSeq(q, n + 1, Len(q))[i] = q[(n + 1) + i - 1]
    <2>. DEFINE S == [request : Requests, leaf : Leaves]
    <2>1. \A i \in (n + 1)..Len(q) : q[i] \in S
      BY <1>4
    <2>. HIDE DEF S
    <2>2. /\ SubSeq(q, n + 1, Len(q)) \in Seq(S)
          /\ Len(SubSeq(q, n + 1, Len(q)))
               = IF n + 1 <= Len(q) THEN Len(q) - (n + 1) + 1 ELSE 0
          /\ \A i \in 1..(Len(q) - (n + 1) + 1) :
               SubSeq(q, n + 1, Len(q))[i] = q[(n + 1) + i - 1]
      BY <2>1, <1>4, SubSeqProperties
    <2>. QED  BY <2>2 DEF S
  <1>. QED  BY <1>3, <1>5

\* The members of the queue.
LEMMA QueueMember ==
  ASSUME TypeOK, NEW i \in 1..Len(queue)
  PROVE  queue[i].request \in Requests /\ queue[i].leaf \in Leaves
  <1>1. queue[i] \in [request : Requests, leaf : Leaves]
    BY ElementOfSeq DEF TypeOK
  <1>. QED
    BY <1>1

\* The parameters of a call.
LEMMA CallShape ==
  ASSUME TypeOK, NEW r \in Requests
  PROVE  /\ call[r].op = "submit" => call[r].leaf \in Leaves \cup {NoLeaf}
         /\ call[r].op = "prove" => call[r].index \in 0..MaxSize \cup {Invalid}
         /\ call[r].op = "consistency" =>
              /\ call[r].from \in 0..MaxSize \cup {Invalid}
              /\ call[r].to \in 0..MaxSize \cup {Invalid}
  BY DEF TypeOK, Calls, NoCall, Param

-----------------------------------------------------------------------------
(***************************************************************************)
(* What every step leaves standing: the log, the published size, and       *)
(* everything about a request that was answered.                           *)
(***************************************************************************)

\* The log grows at its end only and the published size never decreases.
LEMMA LogGrows ==
  ASSUME TypeOK, HeadsInv, [Next]_vars
  PROVE  /\ entries' \in Seq(Leaves)
         /\ Len(entries) <= Len(entries')
         /\ \A i \in 1..Len(entries) : entries'[i] = entries[i]
         /\ \A n \in 0..Len(entries) : RootAt(entries', n) = RootAt(entries, n)
         /\ checkpoint.size <= checkpoint'.size
  <1>. USE DEF TypeOK, Checkpoints
  <1>1. CASE IntegrateBatch
    <2>1. PICK n \in 1..Len(queue) :
            entries' = entries \o [i \in 1..n |-> queue[i].leaf]
      BY <1>1 DEF IntegrateBatch
    <2>2. [i \in 1..n |-> queue[i].leaf] \in Seq(Leaves)
      BY BatchType
    <2>3. checkpoint' = checkpoint
      BY <1>1 DEF IntegrateBatch
    <2>. DEFINE b == [i \in 1..n |-> queue[i].leaf]
    <2>. HIDE DEF b
    <2>4. entries' = entries \o b /\ b \in Seq(Leaves)
      BY <2>1, <2>2 DEF b
    <2>5. \A m \in 0..Len(entries) : RootAt(entries', m) = RootAt(entries, m)
      BY <2>4, RootAtConcat
    <2>6. /\ entries' \in Seq(Leaves)
          /\ Len(entries) <= Len(entries')
          /\ \A i \in 1..Len(entries) : entries'[i] = entries[i]
      BY <2>4, ConcatProperties
    <2>. QED
      BY <2>3, <2>5, <2>6
  <1>2. CASE PublishCheckpoint
    BY <1>2 DEF PublishCheckpoint, CheckpointAt
  <1>3. CASE UNCHANGED <<entries, checkpoint>>
    BY <1>3
  <1>. QED
    BY <1>1, <1>2, <1>3
       DEF Next, vars, tesseraVars, Arrive, Handle, Submit, Prove, Consistency,
           SubmitReject, SubmitAdd, SubmitReply, ProveReject, ProveOutOfRange,
           ProveRead, ProveReply, STHReply, ConsistencyReject, ConsistencyRead,
           ConsistencyReply, SubmitFail, ReadFail, Background, PollCheckpoint,
           Restart, Reopen, Add

\* An answer is final.
LEMMA AnswerStays ==
  ASSUME TypeOK, [Next]_vars, NEW r \in Requests, pc[r] = "done"
  PROVE  /\ pc'[r] = "done"
         /\ reply'[r] = reply[r] /\ call'[r] = call[r]
         /\ view'[r] = view[r] /\ before'[r] = before[r]
  <1>. USE DEF TypeOK
  <1>1. CASE \E q \in Requests : Arrive(q)
    BY <1>1 DEF Arrive, Goto
  <1>2. CASE \E q \in Requests : Handle(q)
    BY <1>2 DEF Handle, Submit, Prove, Consistency, SubmitReject, SubmitAdd,
                SubmitReply, ProveReject, ProveOutOfRange, ProveRead, ProveReply,
                STHReply, ConsistencyReject, ConsistencyRead, ConsistencyReply,
                Handling, Answer, Goto
  <1>3. CASE \E q \in Requests : SubmitFail(q) \/ ReadFail(q)
    BY <1>3 DEF SubmitFail, ReadFail, Handling, Answer, Goto
  <1>4. CASE Background /\ UNCHANGED apiVars
    BY <1>4 DEF apiVars
  <1>5. CASE Restart
    BY <1>5 DEF Restart, InFlight
  <1>6. CASE UNCHANGED vars
    BY <1>6 DEF vars, apiVars
  <1>. QED
    BY <1>1, <1>2, <1>3, <1>4, <1>5, <1>6 DEF Next

\* A request that has been sent stays what it asked, with the same requests
\* answered before it; only a request not yet sent can be sent.
LEMMA CallStays ==
  ASSUME TypeOK, [Next]_vars, NEW r \in Requests, pc[r] # "idle"
  PROVE  call'[r] = call[r] /\ before'[r] = before[r] /\ pc'[r] # "idle"
  <1>. USE DEF TypeOK
  <1>1. CASE \E q \in Requests : Arrive(q)
    BY <1>1 DEF Arrive, Goto
  <1>2. CASE \E q \in Requests : Handle(q)
    BY <1>2 DEF Handle, Submit, Prove, Consistency, SubmitReject, SubmitAdd,
                SubmitReply, ProveReject, ProveOutOfRange, ProveRead, ProveReply,
                STHReply, ConsistencyReject, ConsistencyRead, ConsistencyReply,
                Handling, Answer, Goto
  <1>3. CASE \E q \in Requests : SubmitFail(q) \/ ReadFail(q)
    BY <1>3 DEF SubmitFail, ReadFail, Handling, Answer, Goto
  <1>4. CASE Background /\ UNCHANGED apiVars
    BY <1>4 DEF apiVars
  <1>5. CASE Restart
    BY <1>5 DEF Restart, InFlight
  <1>6. CASE UNCHANGED vars
    BY <1>6 DEF vars, apiVars
  <1>. QED
    BY <1>1, <1>2, <1>3, <1>4, <1>5, <1>6 DEF Next

\* A request whose leaf was accepted stays so.
LEMMA AcceptedStays ==
  ASSUME TypeOK, [Next]_vars, NEW r \in Requests, Accepted(r)
  PROVE  Accepted(r)'
  <1>. USE DEF TypeOK, Accepted
  <1>0. call'[r] = call[r]
    BY CallStays
  <1>1. CASE \E q \in Requests : Arrive(q)
    BY <1>0, <1>1 DEF Arrive, Goto
  <1>2. CASE \E q \in Requests : Handle(q)
    BY <1>0, <1>2 DEF Handle, Submit, Prove, Consistency, SubmitReject, SubmitAdd,
                SubmitReply, ProveReject, ProveOutOfRange, ProveRead, ProveReply,
                STHReply, ConsistencyReject, ConsistencyRead, ConsistencyReply,
                Handling, Answer, Goto
  <1>3. CASE \E q \in Requests : SubmitFail(q) \/ ReadFail(q)
    BY <1>0, <1>3 DEF SubmitFail, ReadFail, Handling, Answer, Goto
  <1>4. CASE Background /\ UNCHANGED apiVars
    BY <1>4 DEF apiVars
  <1>5. CASE Restart
    BY <1>0, <1>5 DEF Restart, InFlight
  <1>6. CASE UNCHANGED vars
    BY <1>6 DEF vars, apiVars
  <1>. QED
    BY <1>1, <1>2, <1>3, <1>4, <1>5, <1>6 DEF Next

-----------------------------------------------------------------------------
(***************************************************************************)
(* The invariant holds initially and every step keeps each of its          *)
(* conjuncts.                                                              *)
(***************************************************************************)

\* The invariant holds of an empty log with no request sent.
LEMMA InitIInv == Init => IInv
  <1>. SUFFICES ASSUME Init PROVE IInv
    OBVIOUS
  <1>. USE EmptyCheckpoint DEF Init, TesseraInit, NothingPolled
  <1>1. <<>> \in Seq(Leaves) /\ Len(<<>>) = 0 /\ RootAt(<<>>, 0) = <<>>
    BY SubSeqEmpty DEF RootAt
  <1>2. <<>> \in Seq([request : Requests, leaf : Leaves])
    OBVIOUS
  <1>3. checkpoint \in Checkpoints
    OBVIOUS
  <1>4. TypeOK
    BY <1>1, <1>2, <1>3, MaxRestartsAssumption
       DEF TypeOK, Replies, NoReply, Failure
  <1>5. HeadsInv /\ HandlerInv /\ QueueInv /\ IndexInv /\ ReplyInv /\ BeforeInv
    BY <1>1 DEF HeadsInv, IsHead, HandlerInv, QueueInv, IndexInv, ReplyInv,
                BeforeInv, TellsSize, Answered
  <1>. QED
    BY <1>4, <1>5 DEF IInv

\* An action that answers one request with a well-formed reply and changes
\* nothing else keeps the types.
LEMMA AnswerTypeOK ==
  ASSUME TypeOK, NEW r \in Requests, NEW a \in Replies, Answer(r, a),
         UNCHANGED <<tesseraVars, call, view, before, restarts>>
  PROVE  TypeOK'
  BY DEF TypeOK, Answer, Goto, tesseraVars

\* The types, given what the handlers' guards have established.
LEMMA TypeOKStep == IInv /\ [Next]_vars => TypeOK'
  <1>. SUFFICES ASSUME IInv, [Next]_vars PROVE TypeOK'
    OBVIOUS
  <1>. USE DEF IInv
  <1>1. ASSUME NEW r \in Requests, Arrive(r) PROVE TypeOK'
    BY <1>1 DEF TypeOK, Arrive, Goto, tesseraVars
  <1>2. ASSUME NEW r \in Requests, Handle(r) PROVE TypeOK'
    <2>1. CASE SubmitReject(r)
      BY <2>1, AnswerTypeOK DEF SubmitReject, Failure, Replies
    <2>2. CASE SubmitAdd(r)
      <3>1. call[r].leaf \in Leaves
        BY <2>2, NoLeafAssumption
           DEF SubmitAdd, Handling, TypeOK, Calls, NoCall
      <3>2. queue' \in Seq([request : Requests, leaf : Leaves])
        BY <2>2, <3>1, AppendProperties DEF SubmitAdd, Add, TypeOK
      <3>. QED
        BY <2>2, <3>2 DEF SubmitAdd, Add, Goto, TypeOK
    <2>3. ASSUME NEW a \in Awaiters, SubmitReply(r, a) PROVE TypeOK'
      <3>1. call[r].leaf \in Leaves
        BY <2>3 DEF SubmitReply, HandlerInv, Accepted
      <3>2. [status |-> 200, index |-> index[r], leaf |-> call[r].leaf,
             size |-> awaited[a].size, root |-> awaited[a].root] \in Replies
        BY <2>3, <3>1 DEF SubmitReply, AwaitReturns, TypeOK, Checkpoints, Replies,
                     Unresolved
      <3>. QED
        BY <2>3, <3>2, AnswerTypeOK DEF SubmitReply
    <2>4. CASE ProveReject(r)
      BY <2>4, AnswerTypeOK DEF ProveReject, Failure, Replies
    <2>5. CASE ProveOutOfRange(r)
      <3>1. [status |-> 404, size |-> checkpoint.size] \in Replies
        BY DEF TypeOK, Checkpoints, Replies
      <3>. QED
        BY <2>5, <3>1, AnswerTypeOK DEF ProveOutOfRange
    <2>6. CASE ProveRead(r)
      BY <2>6 DEF ProveRead, Goto, tesseraVars, TypeOK
    <2>7. CASE ProveReply(r)
      <3>1. call[r].index \in Nat /\ view[r] \in Checkpoints
        BY <2>7 DEF ProveReply, HandlerInv, TypeOK, Checkpoints
      <3>2. RootAt(entries, view[r].size) \in Seq(Leaves)
        BY <3>1, RootAtType DEF HeadsInv, IsHead, TypeOK, Checkpoints
      <3>3. [status |-> 200, index |-> call[r].index,
             size |-> view[r].size, root |-> view[r].root,
             proof |-> InclusionProof(entries, call[r].index, view[r].size)]
              \in Replies
        BY <3>1, <3>2 DEF Checkpoints, Replies, InclusionProof
      <3>. QED
        BY <2>7, <3>3, AnswerTypeOK DEF ProveReply
    <2>8. CASE STHReply(r)
      <3>1. [status |-> 200, size |-> checkpoint.size, root |-> checkpoint.root]
              \in Replies
        BY DEF TypeOK, Checkpoints, Replies
      <3>. QED
        BY <2>8, <3>1, AnswerTypeOK DEF STHReply
    <2>9. CASE ConsistencyReject(r)
      BY <2>9, AnswerTypeOK DEF ConsistencyReject, Failure, Replies
    <2>10. CASE ConsistencyRead(r)
      BY <2>10 DEF ConsistencyRead, Goto, tesseraVars, TypeOK
    <2>11. CASE ConsistencyReply(r)
      <3>1. /\ call[r].from \in Nat /\ call[r].to \in Nat
            /\ call[r].to <= view[r].size /\ view[r] \in Checkpoints
        BY <2>11 DEF ConsistencyReply, HandlerInv, TypeOK, Checkpoints
      <3>2. RootAt(entries, call[r].to) \in Seq(Leaves)
        BY <3>1, RootAtType DEF HeadsInv, IsHead, TypeOK, Checkpoints
      <3>3. [status |-> 200, from |-> call[r].from, to |-> call[r].to,
             root |-> view[r].root,
             proof |-> ConsistencyProof(entries, call[r].from, call[r].to)]
              \in Replies
        BY <3>1, <3>2 DEF Checkpoints, Replies, ConsistencyProof
      <3>. QED
        BY <2>11, <3>3, AnswerTypeOK DEF ConsistencyReply
    <2>. QED
      BY <1>2, <2>1, <2>2, <2>3, <2>4, <2>5, <2>6, <2>7, <2>8, <2>9, <2>10, <2>11
         DEF Handle, Submit, Prove, Consistency
  <1>3. ASSUME NEW r \in Requests, SubmitFail(r) \/ ReadFail(r) PROVE TypeOK'
    BY <1>3, AnswerTypeOK DEF SubmitFail, ReadFail, Failure, Replies
  <1>4. CASE Background /\ UNCHANGED apiVars
    <2>. USE DEF apiVars
    <2>1. CASE IntegrateBatch
      <3>1. PICK n \in 1..Len(queue) :
              /\ index' = [r \in Requests |->
                   IF \E i \in 1..n : queue[i].request = r
                   THEN Len(entries) + Position(r, n) - 1
                   ELSE index[r]]
              /\ queue' = SubSeq(queue, n + 1, Len(queue))
        BY <2>1 DEF IntegrateBatch
      <3>2. \A r \in Requests : (\E i \in 1..n : queue[i].request = r) =>
              Position(r, n) \in 1..n
        BY DEF Position
      <3>3. index' \in [Requests -> Nat \cup {Unresolved}]
        <4>1. Len(entries) \in Nat /\ index \in [Requests -> Nat \cup {Unresolved}]
          BY LenProperties DEF TypeOK
        <4>2. \A r \in Requests : (\E i \in 1..n : queue[i].request = r) =>
                Len(entries) + Position(r, n) - 1 \in Nat
          BY <3>2, <4>1
        <4>. QED
          BY <3>1, <4>1, <4>2
      <3>4. queue' \in Seq([request : Requests, leaf : Leaves])
        BY <3>1, BatchType DEF TypeOK
      <3>5. entries' \in Seq(Leaves)
        BY LogGrows
      <3>. QED
        BY <1>4, <2>1, <3>3, <3>4, <3>5 DEF IntegrateBatch, TypeOK
    <2>2. CASE PublishCheckpoint
      <3>1. checkpoint' = [size |-> Len(entries), root |-> RootAt(entries, Len(entries))]
        BY <2>2 DEF PublishCheckpoint, CheckpointAt
      <3>2. Len(entries) \in Nat /\ RootAt(entries, Len(entries)) \in Seq(Leaves)
        BY RootAtType DEF TypeOK
      <3>. QED
        BY <1>4, <2>2, <3>1, <3>2 DEF PublishCheckpoint, TypeOK, Checkpoints
    <2>3. CASE \E a \in Awaiters : PollCheckpoint(a)
      BY <1>4, <2>3 DEF PollCheckpoint, TypeOK
    <2>. QED
      BY <1>4, <2>1, <2>2, <2>3 DEF Background
  <1>5. CASE Restart
    BY <1>5, EmptyCheckpoint, EmptySeq, MaxRestartsAssumption
       DEF Restart, Reopen, NothingPolled, TypeOK
  <1>6. CASE UNCHANGED vars
    BY <1>6 DEF vars, tesseraVars, apiVars, TypeOK
  <1>. QED
    BY <1>1, <1>2, <1>3, <1>4, <1>5, <1>6 DEF Next

\* A head of the log stays one while the log grows.
LEMMA HeadStays ==
  ASSUME TypeOK, HeadsInv, [Next]_vars, NEW c \in Checkpoints, IsHead(c)
  PROVE  c.size <= Len(entries') /\ c.root = RootAt(entries', c.size)
  <1>1. c.size \in 0..Len(entries) /\ c.root = RootAt(entries, c.size)
    BY LenProperties DEF IsHead, TypeOK, Checkpoints
  <1>2. RootAt(entries', c.size) = RootAt(entries, c.size)
    BY <1>1, LogGrows
  <1>3. Len(entries) <= Len(entries') /\ Len(entries) \in Nat /\ Len(entries') \in Nat
    BY LogGrows, LenProperties DEF TypeOK
  <1>. QED
    BY <1>1, <1>2, <1>3

\* The head of the empty log is a head of every log.
LEMMA EmptyIsHead ==
  ASSUME TypeOK
  PROVE  IsHead(CheckpointAt(<<>>, 0))
  <1>1. RootAt(entries, 0) = <<>>
    BY SubSeqEmpty DEF RootAt
  <1>2. Len(entries) \in Nat
    BY LenProperties DEF TypeOK
  <1>. QED
    BY <1>1, <1>2, EmptyCheckpoint DEF IsHead

\* Both checkpoints stay heads of the log, the awaiter's copy the older one.
LEMMA HeadsInvStep == IInv /\ [Next]_vars => HeadsInv'
  <1>. SUFFICES ASSUME IInv, [Next]_vars PROVE HeadsInv'
    OBVIOUS
  <1>. USE DEF IInv
  <1>t. TypeOK'
    BY TypeOKStep
  <1>1. IsHead(checkpoint)'
    <2>1. CASE PublishCheckpoint
      <3>1. checkpoint' = [size |-> Len(entries), root |-> RootAt(entries, Len(entries))]
            /\ entries' = entries
        BY <2>1 DEF PublishCheckpoint, CheckpointAt
      <3>. QED
        BY <3>1 DEF IsHead, TypeOK
    <2>2. CASE checkpoint' = checkpoint
      BY <2>2, HeadStays DEF IsHead, HeadsInv, TypeOK
    <2>. QED
      BY <2>1, <2>2
         DEF Next, vars, tesseraVars, Arrive, Handle, Submit, Prove, Consistency,
             SubmitReject, SubmitAdd, SubmitReply, ProveReject, ProveOutOfRange,
             ProveRead, ProveReply, STHReply, ConsistencyReject, ConsistencyRead,
             ConsistencyReply, SubmitFail, ReadFail, Background, IntegrateBatch,
             PollCheckpoint, Restart, Reopen, Add
  <1>2. ASSUME NEW a \in Awaiters
        PROVE  IsHead(awaited[a])' /\ awaited'[a].size <= checkpoint'.size
    <2>1. CASE UNCHANGED <<entries, checkpoint>> /\ awaited'[a] = checkpoint
      BY <2>1 DEF IsHead, HeadsInv, TypeOK, Checkpoints
    <2>2. CASE Restart
      <3>1. /\ awaited'[a] = CheckpointAt(<<>>, 0)
            /\ entries' = entries /\ checkpoint' = checkpoint
        BY <2>2 DEF Restart, Reopen, NothingPolled
      <3>2. checkpoint.size \in Nat
        BY DEF TypeOK, Checkpoints
      <3>3. IsHead(awaited[a])'
        BY <3>1, EmptyIsHead DEF IsHead
      <3>. QED
        BY <3>1, <3>2, <3>3, EmptyCheckpoint
    <2>3. CASE awaited'[a] = awaited[a]
      <3>1. /\ awaited[a] \in Checkpoints /\ IsHead(awaited[a])
            /\ awaited[a].size <= checkpoint.size
        BY DEF HeadsInv, TypeOK
      <3>2. IsHead(awaited[a])'
        BY <2>3, <3>1, HeadStays DEF IsHead
      <3>3. checkpoint.size <= checkpoint'.size
        BY LogGrows
      <3>. QED
        BY <1>t, <2>3, <3>1, <3>2, <3>3 DEF TypeOK, Checkpoints
    <2>4. CASE \E b \in Awaiters : PollCheckpoint(b)
      BY <2>1, <2>3, <2>4 DEF PollCheckpoint, TypeOK
    <2>. QED
      BY <2>2, <2>3, <2>4
         DEF Next, vars, tesseraVars, Arrive, Handle, Submit, Prove, Consistency,
             SubmitReject, SubmitAdd, SubmitReply, ProveReject, ProveOutOfRange,
             ProveRead, ProveReply, STHReply, ConsistencyReject, ConsistencyRead,
             ConsistencyReply, SubmitFail, ReadFail, Background, IntegrateBatch,
             PublishCheckpoint, Add
  <1>3. ASSUME NEW r \in Requests
        PROVE  IsHead(view[r])' /\ view'[r].size <= checkpoint'.size
    <2>1. CASE view'[r] = view[r]
      <3>1. /\ view[r] \in Checkpoints /\ IsHead(view[r])
            /\ view[r].size <= checkpoint.size
        BY DEF HeadsInv, TypeOK, Checkpoints
      <3>2. IsHead(view[r])'
        BY <2>1, <3>1, HeadStays DEF IsHead
      <3>3. checkpoint.size <= checkpoint'.size
        BY LogGrows
      <3>. QED
        BY <1>t, <2>1, <3>1, <3>2, <3>3 DEF TypeOK, Checkpoints
    <2>2. CASE view'[r] = checkpoint
      <3>1. /\ checkpoint \in Checkpoints /\ IsHead(checkpoint)
            /\ checkpoint.size <= checkpoint.size
        BY DEF HeadsInv, TypeOK, Checkpoints
      <3>2. IsHead(view[r])'
        BY <2>2, <3>1, HeadStays DEF IsHead
      <3>3. checkpoint.size <= checkpoint'.size
        BY LogGrows
      <3>. QED
        BY <1>t, <2>2, <3>1, <3>2, <3>3 DEF TypeOK, Checkpoints
    <2>. QED
      BY <2>1, <2>2
         DEF Next, vars, apiVars, Arrive, Handle, Submit, Prove, Consistency,
             SubmitReject, SubmitAdd, SubmitReply, ProveReject, ProveOutOfRange,
             ProveRead, ProveReply, STHReply, ConsistencyReject, ConsistencyRead,
             ConsistencyReply, SubmitFail, ReadFail, Restart, TypeOK
  <1>. QED
    BY <1>1, <1>2, <1>3 DEF HeadsInv

\* A handler at work keeps a call its guards have accepted.
LEMMA HandlerInvStep == IInv /\ [Next]_vars => HandlerInv'
  <1>. SUFFICES ASSUME IInv, [Next]_vars, NEW r \in Requests
                PROVE  /\ pc'[r] = "awaiting" => Accepted(r)'
                       /\ pc'[r] = "building" =>
                            \/ /\ call'[r].op = "prove"
                               /\ call'[r].index \in 0..(view'[r].size - 1)
                            \/ /\ call'[r].op = "consistency"
                               /\ call'[r].to \in 0..view'[r].size
                               /\ call'[r].from \in 0..(call'[r].to - 1)
    BY DEF HandlerInv
  <1>. USE DEF IInv
  <1>1. CASE SubmitAdd(r)
    BY <1>1, NoLeafAssumption
       DEF SubmitAdd, Handling, Goto, TypeOK, Calls, NoCall, Accepted
  <1>2. CASE ProveRead(r)
    <2>1. call[r].op = "prove" /\ call[r].index \in 0..(checkpoint.size - 1)
      BY <1>2, CallShape, MaxSizeAssumption
         DEF ProveRead, Handling, TypeOK, Checkpoints, Invalid
    <2>2. /\ pc'[r] = "building" /\ view'[r] = checkpoint /\ call' = call
      BY <1>2 DEF ProveRead, Goto, TypeOK
    <2>. QED
      BY <2>1, <2>2
  <1>3. CASE ConsistencyRead(r)
    <2>1. /\ call[r].op = "consistency"
          /\ call[r].to \in 0..checkpoint.size
          /\ call[r].from \in 0..(call[r].to - 1)
      BY <1>3, CallShape, MaxSizeAssumption
         DEF ConsistencyRead, ValidRange, Handling, TypeOK, Checkpoints, Invalid
    <2>2. /\ pc'[r] = "building" /\ view'[r] = checkpoint /\ call' = call
      BY <1>3 DEF ConsistencyRead, Goto, TypeOK
    <2>. QED
      BY <2>1, <2>2
  <1>4. CASE pc'[r] = pc[r] /\ view'[r] = view[r]
    <2>1. pc[r] \in {"awaiting", "building"} => call'[r] = call[r]
      BY CallStays
    <2>. QED
      BY <1>4, <2>1 DEF HandlerInv, Accepted
  <1>5. CASE pc'[r] \notin {"awaiting", "building"}
    BY <1>5
  <1>. QED
    BY <1>1, <1>2, <1>3, <1>4, <1>5
       DEF Next, vars, apiVars, Arrive, Handle, Submit, Prove, Consistency,
           SubmitReject, SubmitAdd, SubmitReply, ProveReject, ProveOutOfRange,
           ProveRead, ProveReply, STHReply, ConsistencyReject, ConsistencyRead,
           ConsistencyReply, SubmitFail, ReadFail, Restart, InFlight, Answer, Goto,
           TypeOK

\* What is queued is the leaf of an accepted submission.
LEMMA QueueInvStep == IInv /\ [Next]_vars => QueueInv'
  <1>. SUFFICES ASSUME IInv, [Next]_vars, NEW i \in 1..Len(queue')
                PROVE  /\ Accepted(queue[i].request)'
                       /\ queue'[i].leaf = call'[queue'[i].request].leaf
    BY DEF QueueInv
  <1>. USE DEF IInv
  <1>1. CASE \E r \in Requests : SubmitAdd(r)
    <2>1. PICK r \in Requests : SubmitAdd(r)
      BY <1>1
    <2>2. Accepted(r)' /\ call' = call
      BY <2>1, NoLeafAssumption
         DEF SubmitAdd, Handling, Goto, TypeOK, Calls, NoCall, Accepted
    <2>3. [request |-> r, leaf |-> call[r].leaf]
             \in [request : Requests, leaf : Leaves]
      BY <2>2 DEF Accepted
    <2>4. /\ Len(queue') = Len(queue) + 1
          /\ \A j \in 1..Len(queue) : queue'[j] = queue[j]
          /\ queue'[Len(queue) + 1] = [request |-> r, leaf |-> call[r].leaf]
      BY <2>1, <2>3, AppendProperties DEF SubmitAdd, Add, TypeOK
    <2>5. CASE i = Len(queue) + 1
      BY <2>2, <2>4, <2>5
    <2>6. CASE i \in 1..Len(queue)
      <3>1. queue[i].request \in Requests /\ Accepted(queue[i].request)
        BY <2>6, QueueMember DEF QueueInv
      <3>. QED
        BY <2>2, <2>4, <2>6, <3>1, AcceptedStays DEF QueueInv, Accepted
    <2>. QED
      BY <2>4, <2>5, <2>6 DEF TypeOK
  <1>2. CASE IntegrateBatch /\ UNCHANGED apiVars
    <2>1. PICK n \in 1..Len(queue) : queue' = SubSeq(queue, n + 1, Len(queue))
      BY <1>2 DEF IntegrateBatch
    <2>2. /\ Len(queue') = Len(queue) - n
          /\ \A j \in 1..(Len(queue) - n) : queue'[j] = queue[n + j]
      BY <2>1, BatchType DEF TypeOK
    <2>3. i \in 1..(Len(queue) - n) /\ n + i \in 1..Len(queue)
      BY <2>2 DEF TypeOK
    <2>. QED
      BY <1>2, <2>2, <2>3 DEF apiVars, QueueInv, Accepted
  <1>3. CASE Restart
    BY <1>3 DEF Restart, Reopen
  <1>4. CASE queue' = queue
    <2>1. queue[i].request \in Requests /\ Accepted(queue[i].request)
      BY <1>4, QueueMember DEF QueueInv
    <2>. QED
      BY <1>4, <2>1, AcceptedStays, CallStays DEF QueueInv, Accepted
  <1>. QED
    BY <1>1, <1>2, <1>3, <1>4
       DEF Next, vars, tesseraVars, Arrive, Handle, Submit, Prove, Consistency,
           SubmitReject, SubmitReply, ProveReject, ProveOutOfRange,
           ProveRead, ProveReply, STHReply, ConsistencyReject, ConsistencyRead,
           ConsistencyReply, SubmitFail, ReadFail, Background, PublishCheckpoint,
           PollCheckpoint

\* What a batch does to the future of one request.
LEMMA IntegrateIndex ==
  ASSUME TypeOK, IntegrateBatch, NEW r \in Requests
  PROVE  \/ index'[r] = index[r]
         \/ \E i \in 1..Len(queue) :
              /\ queue[i].request = r
              /\ index'[r] = Len(entries) + i - 1
              /\ Len(entries) + i <= Len(entries')
              /\ entries'[Len(entries) + i] = queue[i].leaf
  <1>1. PICK n \in 1..Len(queue) :
          /\ entries' = entries \o [i \in 1..n |-> queue[i].leaf]
          /\ index' = [q \in Requests |->
               IF \E i \in 1..n : queue[i].request = q
               THEN Len(entries) + Position(q, n) - 1
               ELSE index[q]]
    BY DEF IntegrateBatch
  <1>2. CASE ~ \E i \in 1..n : queue[i].request = r
    BY <1>1, <1>2
  <1>3. CASE \E i \in 1..n : queue[i].request = r
    <2>1. Position(r, n) \in 1..n /\ queue[Position(r, n)].request = r
      BY <1>3 DEF Position
    <2>2. index'[r] = Len(entries) + Position(r, n) - 1
      BY <1>1, <1>3
    <2>. DEFINE b == [i \in 1..n |-> queue[i].leaf]
    <2>3. b \in Seq(Leaves) /\ Len(b) = n /\ \A i \in 1..n : b[i] = queue[i].leaf
      BY BatchType DEF TypeOK
    <2>. HIDE DEF b
    <2>4. entries' = entries \o b
      BY <1>1 DEF b
    <2>5. /\ Len(entries') = Len(entries) + n
          /\ \A i \in 1..n : entries'[Len(entries) + i] = b[i]
      <3>1. /\ Len(entries') = Len(entries) + Len(b)
            /\ \A j \in 1..(Len(entries) + Len(b)) : entries'[j] =
                 IF j <= Len(entries) THEN entries[j] ELSE b[j - Len(entries)]
        BY <2>3, <2>4, ConcatProperties DEF TypeOK
      <3>2. Len(entries) \in Nat /\ n \in Nat
        BY LenProperties DEF TypeOK
      <3>3. ASSUME NEW i \in 1..n
            PROVE  /\ Len(entries) + i \in 1..(Len(entries) + n)
                   /\ ~ (Len(entries) + i <= Len(entries))
                   /\ (Len(entries) + i) - Len(entries) = i
        BY <3>2
      <3>. QED
        BY <2>3, <3>1, <3>3
    <2>6. Position(r, n) \in 1..Len(queue) /\ Len(entries) \in Nat
      BY <2>1, LenProperties DEF TypeOK
    <2>7. /\ Len(entries) + Position(r, n) <= Len(entries')
          /\ entries'[Len(entries) + Position(r, n)] = queue[Position(r, n)].leaf
      BY <2>1, <2>3, <2>5, <2>6
    <2>. QED
      BY <2>1, <2>2, <2>6, <2>7
  <1>. QED
    BY <1>2, <1>3

\* A future, once resolved, names an entry that is the submitted leaf.
LEMMA IndexInvStep == IInv /\ [Next]_vars => IndexInv'
  <1>. SUFFICES ASSUME IInv, [Next]_vars, NEW r \in Requests,
                       index'[r] # Unresolved
                PROVE  /\ Accepted(r)'
                       /\ index'[r] \in 0..(Len(entries') - 1)
                       /\ entries'[index'[r] + 1] = call'[r].leaf
    BY DEF IndexInv
  <1>. USE DEF IInv
  <1>1. Len(entries) \in Nat /\ Len(entries') \in Nat
    BY LogGrows, LenProperties DEF TypeOK
  <1>2. CASE index'[r] = index[r]
    <2>1. /\ Accepted(r) /\ index[r] \in 0..(Len(entries) - 1)
          /\ entries[index[r] + 1] = call[r].leaf
      BY <1>2 DEF IndexInv
    <2>2. Accepted(r)' /\ call'[r] = call[r]
      BY <2>1, AcceptedStays, CallStays DEF Accepted
    <2>3. /\ Len(entries) <= Len(entries')
          /\ entries'[index[r] + 1] = entries[index[r] + 1]
      BY <1>1, <2>1, LogGrows
    <2>. QED
      BY <1>1, <1>2, <2>1, <2>2, <2>3
  <1>3. CASE IntegrateBatch /\ UNCHANGED apiVars /\ index'[r] # index[r]
    <2>1. PICK i \in 1..Len(queue) :
            /\ queue[i].request = r
            /\ index'[r] = Len(entries) + i - 1
            /\ Len(entries) + i <= Len(entries')
            /\ entries'[Len(entries) + i] = queue[i].leaf
      BY <1>3, IntegrateIndex
    <2>2. Accepted(r) /\ queue[i].leaf = call[r].leaf
      BY <2>1 DEF QueueInv
    <2>3. Accepted(r)' /\ call' = call
      BY <1>3, <2>2 DEF apiVars, Accepted
    <2>4. i \in Nat \ {0} /\ (Len(entries) + i - 1) + 1 = Len(entries) + i
      BY <1>1, LenProperties DEF TypeOK
    <2>. QED
      BY <1>1, <2>1, <2>2, <2>3, <2>4
  <1>4. CASE Restart
    BY <1>4 DEF Restart, Reopen
  <1>. QED
    BY <1>2, <1>3, <1>4
       DEF Next, vars, tesseraVars, Arrive, Handle, Submit, Prove, Consistency,
           SubmitReject, SubmitAdd, SubmitReply, ProveReject, ProveOutOfRange,
           ProveRead, ProveReply, STHReply, ConsistencyReject, ConsistencyRead,
           ConsistencyReply, SubmitFail, ReadFail, Background, PublishCheckpoint,
           PollCheckpoint, Add

\* How a request becomes answered, with an answer that is not an error.
LEMMA AnswerKinds ==
  ASSUME TypeOK, [Next]_vars, NEW r \in Requests,
         pc[r] # "done", pc'[r] = "done"
  PROVE  /\ UNCHANGED <<entries, checkpoint, call, view, before>>
         /\ \/ \E a \in Awaiters : SubmitReply(r, a)
            \/ ProveOutOfRange(r) \/ ProveReply(r)
            \/ STHReply(r) \/ ConsistencyReply(r)
            \/ reply'[r].status \in {400, 500}
  <1>. USE DEF TypeOK
  <1>1. CASE \E q \in Requests : Arrive(q)
    BY <1>1 DEF Arrive, Goto
  <1>2. CASE \E q \in Requests : Handle(q)
    <2>. USE DEF Handling, Answer, Goto
    <2>1. PICK q \in Requests : Handle(q)
      BY <1>2
    <2>2. CASE q = r
      <3>1. ASSUME NEW a \in Awaiters, SubmitReply(r, a)
            PROVE  UNCHANGED <<entries, checkpoint, call, view, before>>
        BY <3>1 DEF SubmitReply, tesseraVars
      <3>2. CASE Submit(r)
        BY <3>1, <3>2 DEF Submit, SubmitReject, SubmitAdd, Failure, tesseraVars
      <3>3. CASE Prove(r)
        BY <3>3 DEF Prove, ProveReject, ProveOutOfRange, ProveRead, ProveReply,
                    Failure, tesseraVars
      <3>4. CASE STHReply(r)
        BY <3>4 DEF STHReply, tesseraVars
      <3>5. CASE Consistency(r)
        BY <3>5 DEF Consistency, ConsistencyReject, ConsistencyRead,
                    ConsistencyReply, Failure, tesseraVars
      <3>. QED
        BY <2>1, <2>2, <3>2, <3>3, <3>4, <3>5 DEF Handle
    <2>3. CASE q # r
      BY <2>1, <2>3
         DEF Handle, Submit, Prove, Consistency, SubmitReject, SubmitAdd,
             SubmitReply, ProveReject, ProveOutOfRange, ProveRead, ProveReply,
             STHReply, ConsistencyReject, ConsistencyRead, ConsistencyReply
    <2>. QED
      BY <2>2, <2>3
  <1>3. CASE \E q \in Requests : SubmitFail(q) \/ ReadFail(q)
    BY <1>3 DEF SubmitFail, ReadFail, Handling, Answer, Goto, Failure, tesseraVars
  <1>4. CASE Background /\ UNCHANGED apiVars
    BY <1>4 DEF apiVars
  <1>5. CASE Restart
    BY <1>5 DEF Restart, InFlight
  <1>6. CASE UNCHANGED vars
    BY <1>6 DEF vars, apiVars
  <1>. QED
    BY <1>1, <1>2, <1>3, <1>4, <1>5, <1>6 DEF Next

\* An answer given stays true of the log.
LEMMA ReplyInvStep == IInv /\ [Next]_vars => ReplyInv'
  <1>. SUFFICES ASSUME IInv, [Next]_vars, NEW r \in Requests, pc'[r] = "done"
                PROVE
    /\ TellsSize(r)' =>
         /\ reply'[r].size \in 0..checkpoint'.size
         /\ reply'[r].status = 200 => reply'[r].root = RootAt(entries', reply'[r].size)
    /\ Answered(r, "submit")' =>
         /\ reply'[r].index \in 0..(reply'[r].size - 1)
         /\ reply'[r].leaf = call'[r].leaf
         /\ entries'[reply'[r].index + 1] = call'[r].leaf
    /\ Answered(r, "prove")' =>
         /\ reply'[r].index \in 0..(reply'[r].size - 1)
         /\ reply'[r].proof = InclusionProof(entries', reply'[r].index, reply'[r].size)
    /\ Answered(r, "consistency")' =>
         /\ reply'[r].to \in 0..view'[r].size
         /\ reply'[r].from \in 0..(reply'[r].to - 1)
         /\ reply'[r].root = view'[r].root
         /\ reply'[r].proof = ConsistencyProof(entries', reply'[r].from, reply'[r].to)
    BY DEF ReplyInv, TellsSize, Answered
  <1>. USE DEF IInv
  <1>0. /\ Len(entries) \in Nat /\ checkpoint.size \in Nat /\ checkpoint'.size \in Nat
        /\ checkpoint.size <= Len(entries) /\ checkpoint.size <= checkpoint'.size
        /\ view[r].size \in Nat /\ view[r].size <= checkpoint.size
    BY TypeOKStep, LogGrows, LenProperties DEF TypeOK, Checkpoints, HeadsInv, IsHead
  <1>1. CASE pc[r] = "done"
    <2>1. reply'[r] = reply[r] /\ call'[r] = call[r] /\ view'[r] = view[r]
      BY <1>1, AnswerStays
    <2>2. /\ \A i \in 1..Len(entries) : entries'[i] = entries[i]
          /\ \A n \in 0..Len(entries) : RootAt(entries', n) = RootAt(entries, n)
      BY LogGrows
    <2>3. /\ TellsSize(r)' => TellsSize(r)
          /\ \A op \in {"submit", "prove", "consistency"} :
               Answered(r, op)' => Answered(r, op)
      BY <1>1, <2>1 DEF TellsSize, Answered
    <2>4. ASSUME TellsSize(r)'
          PROVE  /\ reply'[r].size \in 0..checkpoint'.size
                 /\ reply'[r].status = 200
                      => reply'[r].root = RootAt(entries', reply'[r].size)
      BY <1>0, <2>1, <2>2, <2>3, <2>4 DEF ReplyInv
    <2>5. ASSUME Answered(r, "submit")'
          PROVE  /\ reply'[r].index \in 0..(reply'[r].size - 1)
                 /\ reply'[r].leaf = call'[r].leaf
                 /\ entries'[reply'[r].index + 1] = call'[r].leaf
      <3>1. TellsSize(r) /\ Answered(r, "submit")
        BY <2>3, <2>5 DEF TellsSize, Answered
      <3>2. /\ reply[r].index \in 0..(reply[r].size - 1)
            /\ reply[r].size \in 0..checkpoint.size
            /\ reply[r].leaf = call[r].leaf
            /\ entries[reply[r].index + 1] = call[r].leaf
        BY <3>1 DEF ReplyInv
      <3>3. reply[r].index + 1 \in 1..Len(entries)
        BY <1>0, <3>2
      <3>. QED
        BY <2>1, <2>2, <3>2, <3>3
    <2>6. ASSUME Answered(r, "prove")'
          PROVE  /\ reply'[r].index \in 0..(reply'[r].size - 1)
                 /\ reply'[r].proof
                      = InclusionProof(entries', reply'[r].index, reply'[r].size)
      <3>1. TellsSize(r) /\ Answered(r, "prove")
        BY <2>3, <2>6 DEF TellsSize, Answered
      <3>2. reply[r].size \in 0..Len(entries)
        BY <1>0, <3>1 DEF ReplyInv
      <3>. QED
        BY <2>1, <2>2, <3>1, <3>2 DEF ReplyInv, InclusionProof
    <2>7. ASSUME Answered(r, "consistency")'
          PROVE  /\ reply'[r].to \in 0..view'[r].size
                 /\ reply'[r].from \in 0..(reply'[r].to - 1)
                 /\ reply'[r].root = view'[r].root
                 /\ reply'[r].proof
                      = ConsistencyProof(entries', reply'[r].from, reply'[r].to)
      <3>1. Answered(r, "consistency")
        BY <2>3, <2>7
      <3>2. reply[r].to \in 0..Len(entries)
        BY <1>0, <3>1 DEF ReplyInv
      <3>. QED
        BY <2>1, <2>2, <3>1, <3>2 DEF ReplyInv, ConsistencyProof
    <2>. QED
      BY <2>4, <2>5, <2>6, <2>7
  <1>2. CASE pc[r] # "done"
    <2>0. UNCHANGED <<entries, checkpoint, call, view>>
      BY <1>2, AnswerKinds
    <2>1. CASE \E a \in Awaiters : SubmitReply(r, a)
      <3>1. PICK a \in Awaiters :
              /\ call[r].op = "submit" /\ index[r] # Unresolved
              /\ index[r] < awaited[a].size
              /\ reply'[r] = [status |-> 200, index |-> index[r], leaf |-> call[r].leaf,
                              size |-> awaited[a].size, root |-> awaited[a].root]
        BY <2>1 DEF SubmitReply, AwaitReturns, Answer, TypeOK, HandlerInv, Accepted
      <3>2. index[r] \in Nat /\ entries[index[r] + 1] = call[r].leaf
        BY <3>1 DEF IndexInv
      <3>3. /\ awaited[a].size \in 0..checkpoint.size
            /\ awaited[a].root = RootAt(entries, awaited[a].size)
        BY <1>0 DEF HeadsInv, IsHead, TypeOK, Checkpoints
      <3>4. index[r] \in 0..(awaited[a].size - 1)
        BY <1>0, <3>1, <3>2, <3>3
      <3>. QED
        BY <2>0, <3>1, <3>2, <3>3, <3>4 DEF TellsSize, Answered
    <2>2. CASE ProveOutOfRange(r)
      <3>1. reply'[r] = [status |-> 404, size |-> checkpoint.size]
        BY <2>2 DEF ProveOutOfRange, Answer, TypeOK
      <3>. QED
        BY <1>0, <2>0, <3>1 DEF Answered
    <2>3. CASE ProveReply(r)
      <3>1. /\ call[r].op = "prove" /\ call[r].index \in 0..(view[r].size - 1)
            /\ reply'[r] =
                 [status |-> 200, index |-> call[r].index,
                  size |-> view[r].size, root |-> view[r].root,
                  proof |-> InclusionProof(entries, call[r].index, view[r].size)]
        BY <2>3 DEF ProveReply, Answer, TypeOK, HandlerInv
      <3>2. view[r].root = RootAt(entries, view[r].size)
        BY DEF HeadsInv, IsHead
      <3>. QED
        BY <1>0, <2>0, <3>1, <3>2 DEF Answered
    <2>4. CASE STHReply(r)
      <3>1. /\ call[r].op = "sth"
            /\ reply'[r] = [status |-> 200, size |-> checkpoint.size,
                            root |-> checkpoint.root]
        BY <2>4 DEF STHReply, Handling, Answer, TypeOK
      <3>2. checkpoint.root = RootAt(entries, checkpoint.size)
        BY DEF HeadsInv, IsHead
      <3>. QED
        BY <1>0, <2>0, <3>1, <3>2 DEF Answered
    <2>5. CASE ConsistencyReply(r)
      <3>1. /\ call[r].op = "consistency"
            /\ call[r].to \in 0..view[r].size /\ call[r].from \in 0..(call[r].to - 1)
            /\ reply'[r] =
                 [status |-> 200, from |-> call[r].from, to |-> call[r].to,
                  root |-> view[r].root,
                  proof |-> ConsistencyProof(entries, call[r].from, call[r].to)]
        BY <2>5 DEF ConsistencyReply, Answer, TypeOK, HandlerInv
      <3>. QED
        BY <2>0, <3>1 DEF TellsSize, Answered
    <2>6. CASE reply'[r].status \in {400, 500}
      BY <2>6 DEF TellsSize, Answered
    <2>. QED
      BY <1>2, <2>1, <2>2, <2>3, <2>4, <2>5, <2>6, AnswerKinds
  <1>. QED
    BY <1>1, <1>2

\* The order of requests: no answer tells of less than an earlier one did.
LEMMA BeforeInvStep == IInv /\ [Next]_vars => BeforeInv'
  <1>. SUFFICES ASSUME IInv, [Next]_vars, NEW r \in Requests, NEW q \in before'[r]
                PROVE  /\ pc'[q] = "done"
                       /\ TellsSize(q)' => WillTellAtLeast(r, reply[q].size)'
    BY DEF BeforeInv
  <1>. USE DEF IInv
  <1>0. q \in Requests
    BY TypeOKStep DEF TypeOK
  <1>1. CASE Arrive(r)
    <2>1. pc[r] = "idle" /\ pc[q] = "done" /\ pc'[r] = "handling" /\ index' = index
      BY <1>1 DEF Arrive, Goto, TypeOK, tesseraVars
    <2>2. pc'[q] = "done"
      BY <1>0, <2>1, AnswerStays
    <2>3. index[r] = Unresolved
      BY <2>1 DEF IndexInv, Accepted
    <2>. QED
      BY <2>1, <2>2, <2>3 DEF WillTellAtLeast, TellsSize
  <1>2. CASE before'[r] = before[r]
    <2>1. pc[q] = "done" /\ (TellsSize(q) => WillTellAtLeast(r, reply[q].size))
      BY <1>2 DEF BeforeInv
    <2>2. pc'[q] = "done" /\ reply'[q] = reply[q] /\ call'[q] = call[q]
      BY <1>0, <2>1, AnswerStays
    <2>. SUFFICES ASSUME TellsSize(q)' PROVE WillTellAtLeast(r, reply[q].size)'
      BY <2>2
    <2>. DEFINE n == reply[q].size
    <2>3. TellsSize(q) /\ n \in 0..checkpoint.size /\ WillTellAtLeast(r, n)
      BY <1>0, <2>1, <2>2 DEF TellsSize, ReplyInv
    <2>4. reply'[q].size = n
      BY <2>2
    <2>. HIDE DEF n
    <2>5. /\ Len(entries) \in Nat /\ checkpoint.size \in Nat
          /\ checkpoint.size <= Len(entries)
      BY LenProperties DEF TypeOK, Checkpoints, HeadsInv, IsHead
    <2>6. pc'[r] = "building" => n <= view'[r].size
      <3>1. CASE pc'[r] = pc[r] /\ view'[r] = view[r]
        BY <2>3, <3>1 DEF WillTellAtLeast
      <3>2. CASE view'[r] = checkpoint
        BY <2>3, <2>5, <3>2
      <3>3. CASE pc'[r] # "building"
        BY <3>3
      <3>. QED
        BY <3>1, <3>2, <3>3
           DEF Next, vars, apiVars, Arrive, Handle, Submit, Prove, Consistency,
               SubmitReject, SubmitAdd, SubmitReply, ProveReject, ProveOutOfRange,
               ProveRead, ProveReply, STHReply, ConsistencyReject, ConsistencyRead,
               ConsistencyReply, SubmitFail, ReadFail, Restart, InFlight, Answer,
               Goto, TypeOK
    <2>7. index'[r] # Unresolved => n <= index'[r]
      <3>1. CASE index'[r] = index[r]
        BY <2>3, <3>1 DEF WillTellAtLeast
      <3>2. CASE IntegrateBatch /\ index'[r] # index[r]
        <4>1. PICK i \in 1..Len(queue) : index'[r] = Len(entries) + i - 1
          BY <3>2, IntegrateIndex
        <4>. QED
          BY <2>3, <2>5, <4>1, LenProperties DEF TypeOK
      <3>3. CASE Restart
        BY <3>3 DEF Restart, Reopen
      <3>. QED
        BY <3>1, <3>2, <3>3
           DEF Next, vars, tesseraVars, Arrive, Handle, Submit, Prove, Consistency,
               SubmitReject, SubmitAdd, SubmitReply, ProveReject, ProveOutOfRange,
               ProveRead, ProveReply, STHReply, ConsistencyReject, ConsistencyRead,
               ConsistencyReply, SubmitFail, ReadFail, Background,
               PublishCheckpoint, PollCheckpoint, Add
    <2>8. TellsSize(r)' => n <= reply'[r].size
      <3>. SUFFICES ASSUME TellsSize(r)' PROVE n <= reply'[r].size
        OBVIOUS
      <3>1. CASE pc[r] = "done"
        <4>1. reply'[r] = reply[r] /\ call'[r] = call[r]
          BY <3>1, AnswerStays
        <4>2. TellsSize(r)
          BY <3>1, <4>1 DEF TellsSize
        <4>. QED
          BY <2>3, <4>1, <4>2 DEF WillTellAtLeast
      <3>2. CASE \E a \in Awaiters : SubmitReply(r, a)
        <4>1. PICK a \in Awaiters :
                /\ index[r] # Unresolved /\ index[r] < awaited[a].size
                /\ reply'[r].size = awaited[a].size
          BY <3>2 DEF SubmitReply, AwaitReturns, Answer, TypeOK
        <4>2. n <= index[r] /\ index[r] \in Int /\ n \in Int /\ awaited[a].size \in Int
          BY <2>3, <4>1 DEF WillTellAtLeast, TypeOK, Checkpoints
        <4>. QED
          BY <4>1, <4>2
      <3>3. CASE ProveOutOfRange(r) \/ STHReply(r)
        <4>1. reply'[r].size = checkpoint.size
          BY <3>3 DEF ProveOutOfRange, STHReply, Answer, TypeOK
        <4>. QED
          BY <2>3, <2>5, <4>1
      <3>4. CASE ProveReply(r)
        <4>1. pc[r] = "building" /\ reply'[r].size = view[r].size
          BY <3>4 DEF ProveReply, Answer, TypeOK
        <4>. QED
          BY <2>3, <4>1 DEF WillTellAtLeast
      <3>5. CASE ConsistencyReply(r)
        BY <3>5 DEF ConsistencyReply, Answer, TypeOK, TellsSize
      <3>6. CASE reply'[r].status \in {400, 500}
        BY <3>6 DEF TellsSize
      <3>. QED
        BY <3>1, <3>2, <3>3, <3>4, <3>5, <3>6, AnswerKinds DEF TellsSize
    <2>. QED
      BY <2>4, <2>6, <2>7, <2>8 DEF WillTellAtLeast, n
  <1>. QED
    BY <1>1, <1>2, CallStays
       DEF Next, vars, apiVars, Arrive, Handle, Submit, Prove, Consistency,
           SubmitReject, SubmitAdd, SubmitReply, ProveReject, ProveOutOfRange,
           ProveRead, ProveReply, STHReply, ConsistencyReject, ConsistencyRead,
           ConsistencyReply, SubmitFail, ReadFail, Restart, TypeOK

\* One step preserves the whole invariant.
LEMMA IInvStep == IInv /\ [Next]_vars => IInv'
  BY TypeOKStep, HeadsInvStep, HandlerInvStep, QueueInvStep, IndexInvStep,
     ReplyInvStep, BeforeInvStep
     DEF IInv

\* The invariant all the theorems below rest on.
THEOREM Invariance == Spec => []IInv
  BY InitIInv, IInvStep, PTL DEF Spec

-----------------------------------------------------------------------------
(***************************************************************************)
(* The theorems.                                                           *)
(***************************************************************************)

\* Every variable keeps its type; only decoded, non-empty leaves are added.
THEOREM TypeCorrect == Spec => []TypeOK
  <1>1. IInv => TypeOK
    BY DEF IInv
  <1>. QED
    BY <1>1, Invariance, PTL

\* handleSubmit's 200 answer is a durable receipt: the leaf stays at the
\* answered index under the answered root, across any number of restarts.
THEOREM ReceiptsAreSound == Spec => []ReceiptSound
  <1>1. IInv => ReceiptSound
    <2>. SUFFICES ASSUME IInv, NEW r \in Requests, Answered(r, "submit")
                  PROVE  /\ reply[r].index < reply[r].size
                         /\ reply[r].size <= checkpoint.size
                         /\ entries[reply[r].index + 1] = call[r].leaf
                         /\ reply[r].root = RootAt(entries, reply[r].size)
      BY DEF ReceiptSound
    <2>1. TellsSize(r)
      BY DEF TellsSize, Answered
    <2>. QED
      BY <2>1 DEF IInv, ReplyInv, Answered, TypeOK, Checkpoints
  <1>. QED
    BY <1>1, Invariance, PTL

\* An answer is about what was asked.
AskedInv ==
  \A r \in Requests :
    /\ Answered(r, "prove") => reply[r].index = call[r].index
    /\ Answered(r, "consistency") =>
         reply[r].from = call[r].from /\ reply[r].to = call[r].to

\* A receipt is given for the index of the future, and a future does not
\* resolve to a place within a tree that was shown before.
LEMMA BackdatedStep ==
  IInv /\ NeverBackdated /\ AskedInv /\ [Next]_vars => NeverBackdated' /\ AskedInv'
  <1>. SUFFICES ASSUME IInv, NeverBackdated, AskedInv, [Next]_vars,
                       NEW r \in Requests, pc'[r] = "done", reply'[r].status = 200
                PROVE  /\ call'[r].op = "submit" =>
                            \A q \in before'[r] :
                              TellsSize(q)' => reply'[q].size <= reply'[r].index
                       /\ call'[r].op = "prove" => reply'[r].index = call'[r].index
                       /\ call'[r].op = "consistency" =>
                            reply'[r].from = call'[r].from /\ reply'[r].to = call'[r].to
    BY DEF NeverBackdated, AskedInv, Answered
  <1>. USE DEF IInv
  <1>1. \A q \in Requests : pc[q] = "done" =>
          pc'[q] = "done" /\ reply'[q] = reply[q] /\ call'[q] = call[q]
    BY AnswerStays
  <1>2. CASE pc[r] = "done"
    <2>1. reply'[r] = reply[r] /\ call'[r] = call[r] /\ before'[r] = before[r]
      BY <1>2, AnswerStays
    <2>2. \A q \in before[r] : q \in Requests /\ pc[q] = "done"
      BY DEF BeforeInv, TypeOK
    <2>3. \A q \in before[r] : TellsSize(q)' = TellsSize(q) /\ reply'[q] = reply[q]
      BY <1>1, <2>2 DEF TellsSize
    <2>. QED
      BY <1>2, <2>1, <2>3 DEF NeverBackdated, AskedInv, Answered
  <1>3. CASE pc[r] # "done"
    <2>1. UNCHANGED <<call, before>>
      BY <1>3, AnswerKinds
    <2>2. \/ \E a \in Awaiters : SubmitReply(r, a)
          \/ ProveOutOfRange(r) \/ ProveReply(r)
          \/ STHReply(r) \/ ConsistencyReply(r)
      BY <1>3, AnswerKinds
    <2>3. CASE \E a \in Awaiters : SubmitReply(r, a)
      <3>1. /\ call[r].op = "submit" /\ index[r] # Unresolved
            /\ reply'[r].index = index[r]
        BY <2>3 DEF SubmitReply, AwaitReturns, Answer, TypeOK, HandlerInv, Accepted
      <3>2. ASSUME NEW q \in before[r], TellsSize(q)'
            PROVE  reply'[q].size <= index[r]
        <4>1. q \in Requests /\ pc[q] = "done"
          BY DEF BeforeInv, TypeOK
        <4>2. TellsSize(q) /\ reply'[q] = reply[q]
          BY <1>1, <3>2, <4>1 DEF TellsSize
        <4>. QED
          BY <3>1, <4>2 DEF BeforeInv, WillTellAtLeast
      <3>. QED
        BY <2>1, <3>1, <3>2
    <2>4. CASE ProveOutOfRange(r)
      BY <2>4 DEF ProveOutOfRange, Answer, TypeOK
    <2>5. CASE ProveReply(r)
      BY <2>1, <2>5 DEF ProveReply, Answer, TypeOK
    <2>6. CASE STHReply(r)
      BY <2>1, <2>6 DEF STHReply, Answer, Handling, TypeOK
    <2>7. CASE ConsistencyReply(r)
      BY <2>1, <2>7 DEF ConsistencyReply, Answer, TypeOK
    <2>. QED
      BY <2>2, <2>3, <2>4, <2>5, <2>6, <2>7
  <1>. QED
    BY <1>2, <1>3

\* Both hold of every behaviour of the service.
LEMMA AnswersMatch == Spec => [](NeverBackdated /\ AskedInv)
  <1>1. Init => NeverBackdated /\ AskedInv
    BY DEF Init, NeverBackdated, AskedInv, Answered
  <1>2. NeverBackdated /\ AskedInv /\ IInv /\ [Next]_vars
          => (NeverBackdated /\ AskedInv)'
    BY BackdatedStep
  <1>. QED
    BY <1>1, <1>2, Invariance, PTL DEF Spec

\* No endpoint ever tells a client of a smaller tree than an earlier answer
\* did, though submissions are answered from the awaiter's older checkpoint, and
\* handleSubmit confirms a leaf beyond every tree its client had been told of.
THEOREM TreeNeverShrinks == Spec => []NoRegression
  <1>1. IInv /\ NeverBackdated => NoRegression
    BY DEF IInv, BeforeInv, NoRegression, WillTellAtLeast
  <1>. QED
    BY <1>1, Invariance, AnswersMatch, PTL

\* handleProve's answers verify, although the tiles are read after the
\* checkpoint.
THEOREM InclusionProofsVerify == Spec => []ProofsVerify
  <1>1. IInv => ProofsVerify
    <2>. SUFFICES ASSUME IInv, NEW r \in Requests, Answered(r, "prove")
                  PROVE  VerifyInclusion(reply[r].index, reply[r].size,
                           entries[reply[r].index + 1], reply[r].proof,
                           reply[r].root)
      BY DEF ProofsVerify
    <2>. DEFINE i == reply[r].index
                n == reply[r].size
                tree == RootAt(entries, n)
    <2>1. TellsSize(r)
      BY DEF TellsSize, Answered
    <2>2. /\ n \in 0..checkpoint.size /\ i \in 0..(n - 1)
          /\ reply[r].root = tree
          /\ reply[r].proof = [index |-> i, size |-> n, tree |-> tree]
      BY <2>1 DEF IInv, ReplyInv, Answered, InclusionProof
    <2>3. n \in 0..Len(entries)
      BY <2>2, LenProperties DEF IInv, HeadsInv, IsHead, TypeOK, Checkpoints
    <2>4. /\ tree \in Seq(Leaves) /\ Len(tree) = n
          /\ \A j \in 1..n : tree[j] = entries[j]
      BY <2>3, RootAtType DEF IInv, TypeOK
    <2>. HIDE DEF tree
    <2>5. i + 1 \in 1..n /\ i < n
      BY <2>2
    <2>6. tree = [tree EXCEPT ![i + 1] = entries[i + 1]]
      BY <2>4, <2>5, LenProperties
    <2>. QED
      BY <2>2, <2>5, <2>6 DEF VerifyInclusion
  <1>. QED
    BY <1>1, Invariance, PTL

\* handleConsistency's proof links every head ever shown to the head it was
\* asked for, when that is the head the handler read.
THEOREM ConsistencyProofsVerify == Spec => []ConsistencyToHeadVerifies
  <1>1. IInv => ConsistencyToHeadVerifies
    <2>. SUFFICES ASSUME IInv, NEW r \in Requests, NEW q \in Requests,
                         Answered(r, "consistency"), reply[r].to = view[r].size,
                         TellsSize(q), reply[q].status = 200,
                         reply[q].size = reply[r].from, 0 < reply[r].from
                  PROVE  VerifyConsistency(reply[r].from, reply[r].to,
                           reply[r].proof, reply[q].root, reply[r].root)
      BY DEF ConsistencyToHeadVerifies
    <2>. DEFINE m == reply[r].from
                n == reply[r].to
    <2>1. /\ n \in 0..view[r].size /\ m \in 1..(n - 1)
          /\ reply[r].root = RootAt(entries, n)
          /\ reply[r].proof = [from |-> m, to |-> n, tree |-> RootAt(entries, n)]
          /\ reply[q].root = RootAt(entries, m)
      <3>1. /\ n \in 0..view[r].size /\ m \in 0..(n - 1)
            /\ reply[r].root = view[r].root
            /\ reply[r].proof = ConsistencyProof(entries, m, n)
        BY DEF IInv, ReplyInv
      <3>2. view[r].root = RootAt(entries, n) /\ n \in Nat
        BY DEF IInv, HeadsInv, IsHead, TypeOK, Checkpoints
      <3>3. reply[q].root = RootAt(entries, m)
        BY DEF IInv, ReplyInv
      <3>. QED
        BY <3>1, <3>2, <3>3 DEF ConsistencyProof
    <2>2. n \in 1..Len(entries)
      BY <2>1, LenProperties DEF IInv, HeadsInv, IsHead, TypeOK, Checkpoints
    <2>3. RootAt(RootAt(entries, n), m) = RootAt(entries, m)
      <3>1. entries \in Seq(Leaves) /\ 1 \in 1..Len(entries)
        BY <2>2 DEF IInv, TypeOK
      <3>2. 1 \in 1..(n - 1 + 1) /\ m \in 1..(n - 1 + 1)
        BY <2>1, <2>2
      <3>3. SubSeq(SubSeq(entries, 1, n), 1, m) = SubSeq(entries, 1 + 1 - 1, 1 + m - 1)
        BY <2>2, <3>1, <3>2, SubSeqOfSubSeq
      <3>. QED
        BY <2>1, <3>3 DEF RootAt
    <2>. QED
      BY <2>1, <2>3 DEF VerifyConsistency
  <1>. QED
    BY <1>1, Invariance, PTL

-----------------------------------------------------------------------------
(***************************************************************************)
(* LogApi implements AppendOnlyLog.                                        *)
(***************************************************************************)
\* The heads and receipts of the refinement mapping change only by an answer.
LEMMA ShownStays ==
  ASSUME TypeOK, [Next]_vars,
         \A r \in Requests : pc'[r] = "done" => pc[r] = "done"
  PROVE  Heads' = Heads /\ Receipts' = Receipts
  <1>1. \A r \in Requests : pc[r] = "done" =>
          pc'[r] = "done" /\ reply'[r] = reply[r] /\ call'[r] = call[r]
    BY AnswerStays
  <1>2. \A r \in Requests :
          /\ ShowsHead(r)' <=> ShowsHead(r)
          /\ Answered(r, "submit")' <=> Answered(r, "submit")
    BY <1>1 DEF ShowsHead, TellsSize, Answered
  <1>3. \A r \in Requests :
          /\ ShowsHead(r) => ShownHead(r)' = ShownHead(r)
          /\ Answered(r, "submit") => Confirmed(r)' = Confirmed(r)
    BY <1>1 DEF ShowsHead, TellsSize, Answered, ShownHead, Confirmed
  <1>. QED
    BY <1>2, <1>3 DEF Heads, Receipts

\* An answer adds its own head and receipt, and nobody else's.
LEMMA ShownGrows ==
  ASSUME TypeOK, [Next]_vars, NEW r \in Requests,
         pc[r] # "done", pc'[r] = "done",
         \A q \in Requests : q # r /\ pc'[q] = "done" => pc[q] = "done"
  PROVE  /\ Heads' = Heads \cup (IF ShowsHead(r)' THEN {ShownHead(r)'} ELSE {})
         /\ Receipts' = Receipts \cup
              (IF Answered(r, "submit")' THEN {Confirmed(r)'} ELSE {})
  <1>1. \A q \in Requests : pc[q] = "done" =>
          pc'[q] = "done" /\ reply'[q] = reply[q] /\ call'[q] = call[q]
    BY AnswerStays
  <1>2. \A q \in Requests \ {r} :
          /\ ShowsHead(q)' <=> ShowsHead(q)
          /\ Answered(q, "submit")' <=> Answered(q, "submit")
    BY <1>1 DEF ShowsHead, TellsSize, Answered
  <1>3. \A q \in Requests :
          /\ ShowsHead(q) => ShownHead(q)' = ShownHead(q)
          /\ Answered(q, "submit") => Confirmed(q)' = Confirmed(q)
    BY <1>1 DEF ShowsHead, TellsSize, Answered, ShownHead, Confirmed
  <1>4. ~ ShowsHead(r) /\ ~ Answered(r, "submit")
    BY DEF ShowsHead, TellsSize, Answered
  <1>. QED
    BY <1>2, <1>3, <1>4 DEF Heads, Receipts

\* A step answers one request at most.
LEMMA OneAnswer ==
  ASSUME TypeOK, [Next]_vars,
         NEW r \in Requests, pc[r] # "done", pc'[r] = "done"
  PROVE  \A q \in Requests : q # r /\ pc'[q] = "done" => pc[q] = "done"
  <1>. USE DEF TypeOK, Goto, Answer
  <1>1. ASSUME NEW p \in Requests, Arrive(p) \/ Handle(p) \/ SubmitFail(p) \/ ReadFail(p)
        PROVE  \A q \in Requests : q # p => pc'[q] = pc[q]
    BY <1>1 DEF Arrive, Handle, Submit, Prove, Consistency, SubmitReject, SubmitAdd,
                SubmitReply, ProveReject, ProveOutOfRange, ProveRead, ProveReply,
                STHReply, ConsistencyReject, ConsistencyRead, ConsistencyReply,
                SubmitFail, ReadFail
  <1>2. CASE Background /\ UNCHANGED apiVars
    BY <1>2 DEF apiVars
  <1>3. CASE Restart
    BY <1>3 DEF Restart, InFlight
  <1>4. CASE UNCHANGED vars
    BY <1>4 DEF vars, apiVars
  <1>. QED
    BY <1>1, <1>2, <1>3, <1>4 DEF Next

\* Every step of LogApi is a step of AppendOnlyLog or leaves it as it is.
LEMMA StepRefines ==
  IInv /\ [Next]_vars => [Promise!Next]_<<entries, checkpoint.size, Heads, Receipts>>
  <1>. SUFFICES ASSUME IInv, [Next]_vars,
                       ~ UNCHANGED <<entries, checkpoint.size, Heads, Receipts>>
                PROVE  Promise!Next
    OBVIOUS
  <1>. USE DEF IInv
  <1>0. Len(entries) \in Nat /\ checkpoint.size \in Nat /\ ReplyInv' /\ TypeOK'
    BY ReplyInvStep, TypeOKStep, LenProperties DEF TypeOK, Checkpoints
  <1>1. CASE \E r \in Requests : pc[r] # "done" /\ pc'[r] = "done"
    <2>1. PICK r \in Requests : pc[r] # "done" /\ pc'[r] = "done"
      BY <1>1
    <2>2. entries' = entries /\ checkpoint' = checkpoint
      BY <2>1, AnswerKinds
    <2>3. /\ Heads' = Heads \cup (IF ShowsHead(r)' THEN {ShownHead(r)'} ELSE {})
          /\ Receipts' = Receipts \cup
               (IF Answered(r, "submit")' THEN {Confirmed(r)'} ELSE {})
      BY <2>1, OneAnswer, ShownGrows
    <2>4. Answered(r, "submit")' => ShowsHead(r)'
      BY DEF Answered, ShowsHead, TellsSize
    <2>5. ShowsHead(r)'
      BY <2>2, <2>3, <2>4
    <2>. DEFINE n == reply'[r].size
    <2>6. n \in 0..checkpoint.size /\ ShownHead(r)' = Promise!HeadOf(n)
      BY <1>0, <2>2, <2>5
         DEF ReplyInv, ShowsHead, ShownHead, RootAt, Promise!HeadOf
    <2>7. Heads' = Heads \cup {Promise!HeadOf(n)}
      BY <2>3, <2>5, <2>6
    <2>8. \/ Receipts' = Receipts
          \/ \E i \in 0..(n - 1) :
               Receipts' = Receipts \cup {[index |-> i, leaf |-> entries[i + 1]]}
      <3>1. CASE ~ Answered(r, "submit")'
        BY <2>3, <3>1
      <3>2. CASE Answered(r, "submit")'
        <4>1. /\ reply'[r].index \in 0..(n - 1)
              /\ reply'[r].leaf = entries[reply'[r].index + 1]
          BY <1>0, <2>2, <3>2 DEF ReplyInv
        <4>2. Confirmed(r)' = [index |-> reply'[r].index,
                               leaf |-> entries[reply'[r].index + 1]]
          BY <4>1 DEF Confirmed
        <4>. QED
          BY <2>3, <3>2, <4>1, <4>2
      <3>. QED
        BY <3>1, <3>2
    <2>. HIDE DEF n
    <2>9. Promise!Answer
      BY <2>2, <2>6, <2>7, <2>8
         DEF Promise!Answer
    <2>. QED
      BY <2>9 DEF Promise!Next
  <1>2. CASE \A r \in Requests : pc'[r] = "done" => pc[r] = "done"
    <2>1. Heads' = Heads /\ Receipts' = Receipts
      BY <1>2, ShownStays
    <2>2. CASE IntegrateBatch
      <3>1. PICK n \in 1..Len(queue) :
              entries' = entries \o [i \in 1..n |-> queue[i].leaf]
        BY <2>2 DEF IntegrateBatch
      <3>. DEFINE b == [i \in 1..n |-> queue[i].leaf]
      <3>2. b \in Seq(Leaves) /\ Len(b) = n /\ n \in Nat \ {0}
        <4>1. queue \in Seq([request : Requests, leaf : Leaves])
          BY DEF TypeOK
        <4>2. b \in Seq(Leaves) /\ Len(b) = n
          BY <4>1, BatchType
        <4>. QED
          BY <4>2
      <3>. HIDE DEF b
      <3>3. entries' = entries \o b
        BY <3>1 DEF b
      <3>4. /\ entries' \in Seq(Leaves)
            /\ Len(entries') = Len(entries) + n
        BY <3>2, <3>3, ConcatProperties DEF TypeOK
      <3>5. SubSeq(entries', 1, Len(entries)) = entries
        <4>1. RootAt(entries', Len(entries)) = RootAt(entries, Len(entries))
          BY <1>0, LogGrows
        <4>. QED
          BY <4>1, SubSeqFull DEF RootAt, TypeOK
      <3>6. checkpoint' = checkpoint
        BY <2>2 DEF IntegrateBatch
      <3>7. Promise!Grow
        BY <1>0, <2>1, <3>2, <3>4, <3>5, <3>6
           DEF Promise!Grow
      <3>. QED
        BY <3>7 DEF Promise!Next
    <2>3. CASE PublishCheckpoint
      <3>1. /\ entries' = entries /\ checkpoint'.size = Len(entries)
            /\ checkpoint.size < Len(entries)
        BY <2>3 DEF PublishCheckpoint, CheckpointAt
      <3>2. Promise!Publish
        BY <1>0, <2>1, <3>1
           DEF Promise!Publish
      <3>. QED
        BY <3>2 DEF Promise!Next
    <2>4. CASE entries' = entries /\ checkpoint' = checkpoint
      BY <2>1, <2>4
    <2>. QED
      BY <2>2, <2>3, <2>4
         DEF Next, vars, tesseraVars, Arrive, Handle, Submit, Prove, Consistency,
             SubmitReject, SubmitAdd, SubmitReply, ProveReject, ProveOutOfRange,
             ProveRead, ProveReply, STHReply, ConsistencyReject, ConsistencyRead,
             ConsistencyReply, SubmitFail, ReadFail, Background, PollCheckpoint,
             Restart, Reopen, Add
  <1>. QED
    BY <1>1, <1>2

\* The handlers and the appender implement the append-only log that clients
\* are promised: sequenced leaves stay, published heads advance, and answers
\* speak of nothing but published heads.
THEOREM Refinement == Spec => KeepsPromise
  <1>1. Init => Promise!Init
    <2>. SUFFICES ASSUME Init PROVE Promise!Init
      OBVIOUS
    <2>1. \A r \in Requests : ~ ShowsHead(r) /\ ~ Answered(r, "submit")
      BY DEF Init, ShowsHead, TellsSize, Answered
    <2>2. Heads = {} /\ Receipts = {}
      BY <2>1 DEF Heads, Receipts
    <2>. QED
      BY <2>2, EmptyCheckpoint
         DEF Init, TesseraInit, Promise!Init
  <1>2. IInv /\ [Next]_vars => [Promise!Next]_Promise!promiseVars
    BY StepRefines DEF Promise!promiseVars
  <1>. QED
    BY <1>1, <1>2, Invariance, PTL DEF Spec, KeepsPromise, Promise!Spec

-----------------------------------------------------------------------------
(***************************************************************************)
(* One entry for each submission.                                          *)
(***************************************************************************)

\* The places of the log that a request holds, by its future or by its answer:
\* the answer outlives the future when the process restarts.
Places(r) ==
  {p \in Nat : \/ p = index[r]
               \/ Answered(r, "submit") /\ p = reply[r].index}

\* A request is queued once at most, and has no place while it is queued; two
\* requests share no place.
UniqueInv ==
  /\ \A i, j \in 1..Len(queue) : queue[i].request = queue[j].request => i = j
  /\ \A i \in 1..Len(queue) : Places(queue[i].request) = {}
  /\ \A q, r \in Requests : q # r => Places(q) \cap Places(r) = {}

Submitted == {r \in Requests : call[r].op = "submit" /\ pc[r] # "handling"}

\* There are no more leaves than submissions past their early returns.
CountInv ==
  /\ Len(entries) + Len(queue) <= Cardinality(Submitted)
  /\ \A r \in Requests : pc[r] = "idle" => call[r] = NoCall

\* A place is in the log, and only a submission past its checks has one.
LEMMA PlacesInLog ==
  ASSUME IInv, NEW r \in Requests, NEW p \in Places(r)
  PROVE  p < Len(entries) /\ pc[r] # "handling"
  <1>. USE DEF IInv
  <1>1. Len(entries) \in Nat /\ checkpoint.size \in Nat /\ checkpoint.size <= Len(entries)
    BY LenProperties DEF TypeOK, Checkpoints, HeadsInv, IsHead
  <1>2. CASE p = index[r]
    <2>1. index[r] # Unresolved
      BY <1>2 DEF Places, Unresolved
    <2>. QED  BY <1>1, <1>2, <2>1 DEF IndexInv, Accepted
  <1>3. CASE Answered(r, "submit") /\ p = reply[r].index
    <2>1. TellsSize(r)
      BY <1>3 DEF TellsSize, Answered
    <2>2. reply[r].size \in 0..checkpoint.size /\ p \in 0..(reply[r].size - 1)
      BY <1>3, <2>1 DEF ReplyInv
    <2>. QED  BY <1>1, <1>3, <2>2 DEF Answered
  <1>. QED  BY <1>2, <1>3 DEF Places

\* The only way to a new place is to be in the batch that is written, and that
\* place is beyond the log as it was.
LEMMA NewPlaces ==
  ASSUME IInv, [Next]_vars, NEW r \in Requests, NEW p \in Places(r)'
  PROVE  \/ p \in Places(r)
         \/ /\ IntegrateBatch /\ UNCHANGED apiVars
            /\ \E i \in 1..Len(queue) :
                 queue[i].request = r /\ p = Len(entries) + i - 1
  <1>. USE DEF IInv
  <1>0. p \in Nat /\ (p = index'[r] \/ (Answered(r, "submit")' /\ p = reply'[r].index))
    BY DEF Places
  <1>1. ASSUME p = index'[r]
        PROVE  \/ p = index[r]
               \/ /\ IntegrateBatch /\ UNCHANGED apiVars
                  /\ \E i \in 1..Len(queue) :
                       queue[i].request = r /\ p = Len(entries) + i - 1
    <2>1. CASE IntegrateBatch /\ UNCHANGED apiVars
      BY <1>1, <2>1, IntegrateIndex
    <2>2. CASE Restart
      BY <1>0, <1>1, <2>2 DEF Restart, Reopen, Unresolved
    <2>3. CASE UNCHANGED index
      BY <1>1, <2>3
    <2>. QED
      BY <2>1, <2>2, <2>3
         DEF Next, vars, tesseraVars, Arrive, Handle, Submit, Prove, Consistency,
             SubmitReject, SubmitAdd, SubmitReply, ProveReject, ProveOutOfRange,
             ProveRead, ProveReply, STHReply, ConsistencyReject, ConsistencyRead,
             ConsistencyReply, SubmitFail, ReadFail, Background, PublishCheckpoint,
             PollCheckpoint, Add
  <1>2. ASSUME Answered(r, "submit")', p = reply'[r].index
        PROVE  p \in Places(r)
    <2>1. CASE pc[r] = "done"
      <3>1. reply'[r] = reply[r] /\ call'[r] = call[r]
        BY <2>1, AnswerStays
      <3>. QED  BY <1>0, <1>2, <2>1, <3>1 DEF Answered, Places
    <2>2. CASE pc[r] # "done"
      <3>1. PICK a \in Awaiters : SubmitReply(r, a)
        <4>1. pc'[r] = "done" /\ call'[r].op = "submit" /\ reply'[r].status = 200
          BY <1>2 DEF Answered
        <4>2. /\ call' = call
              /\ \/ \E a \in Awaiters : SubmitReply(r, a)
                 \/ ProveOutOfRange(r) \/ ProveReply(r)
                 \/ STHReply(r) \/ ConsistencyReply(r)
                 \/ reply'[r].status \in {400, 500}
          BY <2>2, <4>1, AnswerKinds
        <4>. QED
          BY <4>1, <4>2 DEF ProveOutOfRange, ProveReply, STHReply,
                            ConsistencyReply, Handling
      <3>2. reply'[r].index = index[r]
        BY <3>1 DEF SubmitReply, Answer, TypeOK
      <3>3. p = index[r]
        BY <1>2, <3>2
      <3>. QED  BY <1>0, <3>3 DEF Places
    <2>. QED  BY <2>1, <2>2
  <1>3. CASE p = index'[r]
    <2>1. CASE p = index[r]
      BY <1>0, <2>1 DEF Places
    <2>. QED  BY <1>1, <1>3, <2>1
  <1>. QED  BY <1>0, <1>2, <1>3

\* How the queue changes: a leaf that was never queued joins it, its oldest
\* leaves leave it with places of their own, or a restart empties it.
LEMMA UniqueInvStep == IInv /\ UniqueInv /\ [Next]_vars => UniqueInv'
  <1>. SUFFICES ASSUME IInv, UniqueInv, [Next]_vars PROVE UniqueInv'
    OBVIOUS
  <1>1. Len(queue) \in Nat /\ Len(entries) \in Nat
    BY LenProperties DEF IInv, TypeOK
  <1>2. ASSUME NEW q \in Requests, NEW r \in Requests, q # r,
               NEW p \in Places(q)', p \in Places(r)'
        PROVE  FALSE
    <2>1. \/ p \in Places(q)
          \/ \E i \in 1..Len(queue) : queue[i].request = q /\ p = Len(entries) + i - 1
      BY <1>2, NewPlaces
    <2>2. \/ p \in Places(r)
          \/ \E i \in 1..Len(queue) : queue[i].request = r /\ p = Len(entries) + i - 1
      BY <1>2, NewPlaces
    <2>3. p \in Places(q) \/ p \in Places(r) => p < Len(entries)
      BY <1>2, PlacesInLog
    <2>4. p \notin Places(q) \/ p \notin Places(r)
      BY <1>2 DEF UniqueInv
    <2>5. PICK i \in 1..Len(queue) : queue[i].request = q /\ p = Len(entries) + i - 1
      BY <1>1, <2>1, <2>2, <2>3, <2>4
    <2>6. PICK j \in 1..Len(queue) : queue[j].request = r /\ p = Len(entries) + j - 1
      BY <1>1, <2>1, <2>2, <2>3, <2>4
    <2>7. i = j
      BY <1>1, <2>5, <2>6
    <2>. QED  BY <1>2, <2>5, <2>6, <2>7
  <1>3. /\ \A i, j \in 1..Len(queue') : queue'[i].request = queue'[j].request => i = j
        /\ \A i \in 1..Len(queue') : Places(queue[i].request)' = {}
    <2>1. ASSUME NEW r \in Requests, SubmitAdd(r)
          PROVE  /\ \A i, j \in 1..Len(queue') :
                      queue'[i].request = queue'[j].request => i = j
                 /\ \A i \in 1..Len(queue') : Places(queue[i].request)' = {}
      <3>1. pc[r] = "handling" /\ call[r].leaf \in Leaves
        BY <2>1, CallShape DEF SubmitAdd, Handling, IInv
      <3>2. /\ queue \in Seq([request : Requests, leaf : Leaves])
            /\ [request |-> r, leaf |-> call[r].leaf] \in [request : Requests, leaf : Leaves]
            /\ queue' = Append(queue, [request |-> r, leaf |-> call[r].leaf])
        BY <2>1, <3>1 DEF SubmitAdd, Add, IInv, TypeOK
      <3>3. /\ Len(queue') = Len(queue) + 1
            /\ \A i \in 1..Len(queue) : queue'[i] = queue[i]
            /\ queue'[Len(queue) + 1] = [request |-> r, leaf |-> call[r].leaf]
        BY <3>2, AppendProperties
      <3>4. queue'[Len(queue) + 1].request = r
        BY <3>3
      <3>5. \A i \in 1..Len(queue) : queue[i].request \in Requests /\ queue[i].request # r
        BY <3>1, QueueMember DEF IInv, QueueInv, Accepted
      <3>6. \A i \in 1..Len(queue') :
              i \in 1..Len(queue) \/ i = Len(queue) + 1
        BY <1>1, <3>3
      <3>7. ASSUME NEW q \in Requests PROVE Places(q)' \subseteq Places(q)
        BY <2>1 DEF SubmitAdd, Add, Goto, Answered, Places, IInv, TypeOK
      <3>8. Places(r) = {}
        BY <3>1, PlacesInLog
      <3>9. \A i \in 1..Len(queue') :
              queue'[i].request \in Requests /\ Places(queue'[i].request) = {}
        BY <3>3, <3>4, <3>5, <3>6, <3>8 DEF UniqueInv
      <3>10. \A i \in 1..Len(queue') : Places(queue[i].request)' = {}
        BY <3>7, <3>9
      <3>11. \A i, j \in 1..Len(queue') :
               queue'[i].request = queue'[j].request => i = j
        BY <3>3, <3>4, <3>5, <3>6 DEF UniqueInv
      <3>. QED  BY <3>10, <3>11
    <2>2. ASSUME IntegrateBatch, UNCHANGED apiVars
          PROVE  /\ \A i, j \in 1..Len(queue') :
                      queue'[i].request = queue'[j].request => i = j
                 /\ \A i \in 1..Len(queue') : Places(queue[i].request)' = {}
      <3>1. PICK n \in 1..Len(queue) :
              /\ queue' = SubSeq(queue, n + 1, Len(queue))
              /\ index' = [r \in Requests |->
                   IF \E i \in 1..n : queue[i].request = r
                   THEN Len(entries) + Position(r, n) - 1
                   ELSE index[r]]
        BY <2>2 DEF IntegrateBatch
      <3>2. /\ Len(queue') = Len(queue) - n
            /\ \A i \in 1..(Len(queue) - n) : queue'[i] = queue[n + i]
        BY <3>1, BatchType DEF IInv, TypeOK
      <3>3. \A i \in 1..Len(queue') :
              n + i \in 1..Len(queue) /\ queue'[i] = queue[n + i]
        BY <1>1, <3>2
      <3>4. ASSUME NEW i \in 1..Len(queue') PROVE Places(queue[i].request)' = {}
        <4>. DEFINE r == queue'[i].request
        <4>1. r \in Requests /\ r = queue[n + i].request /\ Places(r) = {}
          BY <3>3, QueueMember DEF IInv, UniqueInv
        <4>2. ~ \E k \in 1..n : queue[k].request = r
          <5>1. \A k \in 1..n : k \in 1..Len(queue) /\ k # n + i
            BY <1>1, <3>2
          <5>. QED  BY <3>3, <4>1, <5>1 DEF UniqueInv
        <4>3. index'[r] = index[r]
          BY <3>1, <4>1, <4>2
        <4>4. UNCHANGED <<pc, call, reply>>
          BY <2>2 DEF apiVars
        <4>. QED  BY <4>1, <4>3, <4>4 DEF Places, Answered
      <3>5. \A i, j \in 1..Len(queue') :
              queue'[i].request = queue'[j].request => i = j
        <4>. SUFFICES ASSUME NEW i \in 1..Len(queue'), NEW j \in 1..Len(queue'),
                             queue'[i].request = queue'[j].request
                      PROVE  i = j
          OBVIOUS
        <4>1. queue[n + i].request = queue[n + j].request
          BY <3>3
        <4>2. n + i = n + j
          BY <3>3, <4>1 DEF UniqueInv
        <4>. QED  BY <4>2
      <3>. QED  BY <3>4, <3>5
    <2>3. CASE Restart
      BY <2>3 DEF Restart, Reopen
    <2>4. ASSUME UNCHANGED queue, ~(IntegrateBatch /\ UNCHANGED apiVars)
          PROVE  \A i \in 1..Len(queue') : Places(queue[i].request)' = {}
      <3>. SUFFICES ASSUME NEW i \in 1..Len(queue), NEW p \in Places(queue[i].request)'
                    PROVE  FALSE
        BY <2>4
      <3>. DEFINE r == queue[i].request
      <3>1. r \in Requests /\ Places(r) = {} /\ queue'[i].request = r
        BY <2>4, QueueMember DEF IInv, UniqueInv
      <3>. QED  BY <2>4, <3>1, NewPlaces
    <2>5. UNCHANGED queue =>
            \A i, j \in 1..Len(queue') : queue'[i].request = queue'[j].request => i = j
      BY DEF UniqueInv
    <2>6. \/ \E r \in Requests : SubmitAdd(r)
          \/ IntegrateBatch /\ UNCHANGED apiVars
          \/ Restart
          \/ UNCHANGED queue
      BY DEF Next, vars, tesseraVars, Arrive, Handle, Submit, Prove, Consistency,
             SubmitReject, SubmitReply, ProveReject, ProveOutOfRange, ProveRead,
             ProveReply, STHReply, ConsistencyReject, ConsistencyRead,
             ConsistencyReply, SubmitFail, ReadFail, Background, PublishCheckpoint,
             PollCheckpoint
    <2>. QED  BY <2>1, <2>2, <2>3, <2>4, <2>5, <2>6
  <1>. QED  BY <1>2, <1>3 DEF UniqueInv

\* Each step that lengthens the log or the queue is a submission passing its
\* checks; no submission is ever taken back.
LEMMA CountInvStep ==
  ASSUME IsFiniteSet(Requests)
  PROVE  IInv /\ CountInv /\ [Next]_vars => CountInv'
  <1>. SUFFICES ASSUME IInv, CountInv, [Next]_vars PROVE CountInv'
    OBVIOUS
  <1>1. /\ Len(queue) \in Nat /\ Len(entries) \in Nat
        /\ queue \in Seq([request : Requests, leaf : Leaves]) /\ entries \in Seq(Leaves)
    BY LenProperties DEF IInv, TypeOK
  <1>2. /\ IsFiniteSet(Submitted) /\ IsFiniteSet(Submitted')
        /\ Cardinality(Submitted) \in Nat /\ Cardinality(Submitted') \in Nat
    <2>1. Submitted \subseteq Requests /\ Submitted' \subseteq Requests
      BY DEF Submitted
    <2>. QED  BY <2>1, FS_Subset, FS_CardinalityType
  <1>3. /\ Submitted \subseteq Submitted'
        /\ \A r \in Requests : pc'[r] = "idle" => call'[r] = NoCall
    <2>1. \A r \in Requests : pc[r] # "idle" => call'[r] = call[r] /\ pc'[r] # "idle"
      BY CallStays DEF IInv
    <2>2. ASSUME NEW r \in Requests, pc[r] = "idle", pc'[r] = "idle"
          PROVE  call'[r] = call[r]
      BY <2>2 DEF IInv, TypeOK, Next, vars, apiVars, Arrive, Handle, Submit, Prove,
           Consistency, SubmitReject, SubmitAdd, SubmitReply, ProveReject,
           ProveOutOfRange, ProveRead, ProveReply, STHReply, ConsistencyReject,
           ConsistencyRead, ConsistencyReply, SubmitFail, ReadFail, Restart, Goto
    <2>3. ASSUME NEW r \in Submitted PROVE pc[r] # "idle" /\ pc'[r] # "handling"
      <3>1. r \in Requests /\ pc[r] # "idle" /\ pc[r] # "handling"
        BY <2>3 DEF Submitted, CountInv, NoCall
      <3>2. CASE \E q \in Requests : Arrive(q)
        BY <3>1, <3>2 DEF Arrive, Goto, IInv, TypeOK
      <3>3. CASE \E q \in Requests : Handle(q)
        BY <3>1, <3>3
           DEF Handle, Submit, Prove, Consistency, SubmitReject, SubmitAdd,
               SubmitReply, ProveReject, ProveOutOfRange, ProveRead, ProveReply,
               STHReply, ConsistencyReject, ConsistencyRead, ConsistencyReply,
               Answer, Goto, IInv, TypeOK
      <3>4. CASE \E q \in Requests : SubmitFail(q) \/ ReadFail(q)
        BY <3>1, <3>4 DEF SubmitFail, ReadFail, Answer, Goto, IInv, TypeOK
      <3>5. CASE Restart
        BY <3>1, <3>5 DEF Restart, InFlight
      <3>6. CASE UNCHANGED apiVars
        BY <3>1, <3>6 DEF apiVars
      <3>. QED  BY <3>1, <3>2, <3>3, <3>4, <3>5, <3>6 DEF Next, vars
    <2>. QED  BY <2>1, <2>2, <2>3 DEF Submitted, CountInv
  <1>4. Cardinality(Submitted) <= Cardinality(Submitted')
    BY <1>2, <1>3, FS_Subset
  <1>5. CASE \E r \in Requests : SubmitAdd(r)
    <2>1. PICK r \in Requests : SubmitAdd(r)
      BY <1>5
    <2>2. /\ pc[r] = "handling" /\ call[r].op = "submit" /\ pc'[r] = "awaiting"
          /\ call' = call /\ call[r].leaf \in Leaves
      BY <2>1, CallShape DEF SubmitAdd, Handling, Goto, IInv, TypeOK
    <2>3. r \notin Submitted /\ r \in Submitted'
      BY <2>2 DEF Submitted
    <2>4. Cardinality(Submitted \cup {r}) = Cardinality(Submitted) + 1
      BY <1>2, <2>3, FS_AddElement
    <2>5. Submitted \cup {r} \subseteq Submitted'
      BY <1>3, <2>3
    <2>6. Cardinality(Submitted) + 1 <= Cardinality(Submitted')
      BY <1>2, <2>4, <2>5, FS_Subset
    <2>7. Len(queue') = Len(queue) + 1 /\ entries' = entries
      <3>1. [request |-> r, leaf |-> call[r].leaf] \in [request : Requests, leaf : Leaves]
        BY <2>2
      <3>. QED  BY <1>1, <2>1, <3>1, AppendProperties DEF SubmitAdd, Add
    <2>. QED  BY <1>1, <1>2, <1>3, <2>6, <2>7 DEF CountInv
  <1>6. CASE IntegrateBatch
    <2>1. PICK n \in 1..Len(queue) :
            /\ entries' = entries \o [i \in 1..n |-> queue[i].leaf]
            /\ queue' = SubSeq(queue, n + 1, Len(queue))
      BY <1>6 DEF IntegrateBatch
    <2>. DEFINE b == [i \in 1..n |-> queue[i].leaf]
    <2>2. b \in Seq(Leaves) /\ Len(b) = n /\ Len(queue') = Len(queue) - n
      BY <1>1, <2>1, BatchType
    <2>. HIDE DEF b
    <2>3. entries' = entries \o b
      BY <2>1 DEF b
    <2>4. Len(entries') = Len(entries) + n
      BY <1>1, <2>2, <2>3, ConcatProperties
    <2>5. Len(entries') + Len(queue') = Len(entries) + Len(queue)
      BY <1>1, <2>2, <2>4
    <2>. QED  BY <1>1, <1>2, <1>3, <1>4, <2>5 DEF CountInv
  <1>7. CASE Restart
    <2>1. entries' = entries /\ Len(queue') = 0
      BY <1>7, EmptySeq DEF Restart, Reopen
    <2>. QED  BY <1>1, <1>2, <1>3, <1>4, <2>1 DEF CountInv
  <1>8. CASE UNCHANGED <<queue, entries>>
    BY <1>1, <1>2, <1>3, <1>4, <1>8 DEF CountInv
  <1>. QED
    BY <1>5, <1>6, <1>7, <1>8
       DEF Next, vars, tesseraVars, Arrive, Handle, Submit, Prove, Consistency,
           SubmitReject, SubmitReply, ProveReject, ProveOutOfRange, ProveRead,
           ProveReply, STHReply, ConsistencyReject, ConsistencyRead,
           ConsistencyReply, SubmitFail, ReadFail, Background, PublishCheckpoint,
           PollCheckpoint

\* No submission is sequenced twice or confirmed at a place that another was
\* confirmed at, whatever was answered with an error and whenever the process
\* restarted.  Requests are finitely many, so that they can be counted.
THEOREM SequencedOnce ==
  ASSUME IsFiniteSet(Requests)
  PROVE  Spec => []NoDuplicateSequencing
  <1>1. Init => UniqueInv /\ CountInv
    <2>. SUFFICES ASSUME Init PROVE UniqueInv /\ CountInv
      OBVIOUS
    <2>1. /\ queue = <<>> /\ entries = <<>> /\ Len(queue) = 0 /\ Len(entries) = 0
      BY EmptySeq DEF Init, TesseraInit
    <2>2. ASSUME NEW r \in Requests PROVE Places(r) = {}
      <3>1. index[r] = -1 /\ pc[r] = "idle"
        BY DEF Init, TesseraInit, Unresolved
      <3>2. ~Answered(r, "submit")
        BY <3>1 DEF Answered
      <3>. QED  BY <3>1, <3>2 DEF Places
    <2>3. Submitted \subseteq Requests
      BY DEF Submitted
    <2>4. Cardinality(Submitted) \in Nat
      BY <2>3, FS_Subset, FS_CardinalityType
    <2>. QED  BY <2>1, <2>2, <2>4 DEF Init, UniqueInv, CountInv
  <1>2. IInv /\ UniqueInv /\ CountInv => NoDuplicateSequencing
    <2>. SUFFICES ASSUME IInv, UniqueInv, CountInv PROVE NoDuplicateSequencing
      OBVIOUS
    <2>1. ASSUME NEW r \in Requests, Answered(r, "submit")
          PROVE  reply[r].index \in Places(r)
      <3>1. TellsSize(r)
        BY <2>1 DEF TellsSize, Answered
      <3>2. reply[r].index \in 0..(reply[r].size - 1)
        BY <2>1, <3>1 DEF IInv, ReplyInv
      <3>. QED  BY <2>1, <3>2 DEF Places
    <2>. QED  BY <2>1 DEF UniqueInv, CountInv, Submitted, NoDuplicateSequencing
  <1>. QED
    BY <1>1, <1>2, Invariance, UniqueInvStep, CountInvStep, PTL DEF Spec
=============================================================================
