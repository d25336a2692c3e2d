-------------------------- MODULE VerifyCliProofs ---------------------------
(***************************************************************************)
(* Proofs about VerifyCli, for any number of leaves, of invocations and of *)
(* starts with --fresh: what is printed is true, success is complete, the  *)
(* auditor stays on one log, and a true claim up to the head that was read *)
(* passes over a log that is left alone.                                   *)
(***************************************************************************)
EXTENDS VerifyCli, SequenceTheorems, FiniteSetTheorems, TLAPS

\* The head of the tree of some prefix of the log.
IsHead(c) == c.size <= Len(entries) /\ c.root = RootAt(entries, c.size)

Whole(c) == Len(c.root) = c.size

\* Every tile in the cache has the width its path names.
LogInv ==
  /\ queue \in Seq([request : Requests, leaf : Leaves])
  /\ IsHead(checkpoint)
  /\ \A n \in DOMAIN cache : cache[n] # NoTile => Len(cache[n]) = n

\* What an invocation has done at each of its stages.
StageInv ==
  /\ Whole(cp)
  /\ pc \in {"checkpoint", "inclusion"} => printed = {}
  /\ pc = "consistency" =>
       "consistency" \notin printed /\ (ClaimsInclusion => "inclusion" \in printed)

\* The pinned head is the largest of those accepted, and extends them all.
AuditInv ==
  /\ Whole(pinned)
  /\ pinned.size = 0 => accepted = {}
  /\ \A h \in accepted :
       h.size <= pinned.size /\ h.root = RootAt(pinned.root, h.size)

\* Without a start with --fresh, whatever was read is still true of the log.
UndisturbedInv ==
  fresh = 0 =>
    /\ IsHead(cp)
    /\ \A n \in DOMAIN cache : cache[n] # NoTile =>
         n <= Len(entries) /\ cache[n] = RootAt(entries, n)

IInv == /\ TypeOK /\ LogInv /\ StageInv /\ AuditInv /\ UndisturbedInv
        /\ PrintedIsTrue /\ ZeroMeansVerified /\ TrueClaimsPass

-----------------------------------------------------------------------------
(* Roots. *)

\* The root at a size is that many leaves of the log.
LEMMA RootAtType ==
  ASSUME NEW S, NEW s \in Seq(S), NEW n \in 0..Len(s)
  PROVE  /\ RootAt(s, n) \in Seq(S)
         /\ Len(RootAt(s, n)) = n
         /\ \A i \in 1..n : RootAt(s, n)[i] = s[i] /\ s[i] \in S
  <1>1. \A i \in 1..n : s[i] \in S
    BY ElementOfSeq
  <1>. QED  BY <1>1 DEF RootAt

\* Two sequences of one length and with the same elements are the same.
LEMMA SameLeaves ==
  ASSUME NEW S, NEW s \in Seq(S), NEW t \in Seq(S), Len(s) = Len(t),
         \A i \in 1..Len(s) : s[i] = t[i]
  PROVE  s = t
  BY SeqEqual

\* The root at the full size is the whole tree.
LEMMA RootAtAll ==
  ASSUME NEW S, NEW s \in Seq(S)
  PROVE  RootAt(s, Len(s)) = s
  <1>1. Len(s) \in 0..Len(s)
    BY LenProperties
  <1>. QED  BY <1>1, RootAtType, SameLeaves

\* The root at m of the tree of size n is the root of the log at m.
LEMMA RootAtRootAt ==
  ASSUME NEW S, NEW s \in Seq(S), NEW n \in 0..Len(s), NEW m \in 0..n
  PROVE  RootAt(RootAt(s, n), m) = RootAt(s, m)
  <1>1. /\ RootAt(s, n) \in Seq(S) /\ Len(RootAt(s, n)) = n
        /\ \A i \in 1..n : RootAt(s, n)[i] = s[i]
    BY RootAtType
  <1>2. m \in 0..Len(s) /\ m \in 0..Len(RootAt(s, n)) /\ \A i \in 1..m : i \in 1..n
    BY <1>1, LenProperties
  <1>3. /\ RootAt(RootAt(s, n), m) \in Seq(S) /\ Len(RootAt(RootAt(s, n), m)) = m
        /\ \A i \in 1..m : RootAt(RootAt(s, n), m)[i] = RootAt(s, n)[i]
    BY <1>1, <1>2, RootAtType
  <1>4. /\ RootAt(s, m) \in Seq(S) /\ Len(RootAt(s, m)) = m
        /\ \A i \in 1..m : RootAt(s, m)[i] = s[i]
    BY <1>2, RootAtType
  <1>. QED  BY <1>1, <1>2, <1>3, <1>4, SameLeaves

\* Appending to the log leaves the root at every earlier size as it was.
LEMMA RootAtConcat ==
  ASSUME NEW S, NEW s \in Seq(S), NEW t \in Seq(S), NEW n \in 0..Len(s)
  PROVE  RootAt(s \o t, n) = RootAt(s, n)
  <1>1. CASE n = 0
    BY <1>1, SubSeqEmpty DEF RootAt
  <1>2. CASE n # 0
    BY <1>2, SubSeqOfConcat1 DEF RootAt
  <1>. QED  BY <1>1, <1>2

\* The head of the empty log.
LEMMA EmptyHeadFacts ==
  /\ EmptyHead = [size |-> 0, root |-> <<>>]
  /\ EmptyHead \in Heads /\ EmptyHead \in Checkpoints /\ Whole(EmptyHead)
  <1>1. <<>> \in Seq(Leaves) /\ Len(<<>>) = 0
    BY EmptySeq
  <1>2. EmptyHead = [size |-> 0, root |-> <<>>]
    BY DEF EmptyHead, CheckpointAt, RootAt
  <1>3. [size |-> 0, root |-> <<>>] \in Heads
    BY <1>1 DEF Heads
  <1>. QED  BY <1>1, <1>2, <1>3 DEF Heads, Checkpoints, Whole

\* The bound on the leaves is a number.
LEMMA AddBound == Cardinality(Requests) \in Nat
  BY SizesAssumption, FS_CardinalityType

-----------------------------------------------------------------------------
(* What verification of a claim means. *)

\* A tile served for the tree of the checkpoint has that tree's width, and on
\* an undisturbed log it is that tree.
LEMMA TileIsTree ==
  ASSUME IInv, NEW tile \in Served(cp.size) \cup Cached(cp.size)
  PROVE  /\ tile \in Seq(Leaves) /\ Len(tile) = cp.size
         /\ RootAt(tile, cp.size) = tile
         /\ fresh = 0 => tile = cp.root
  <1>. USE DEF IInv
  <1>1. cp.size \in Nat /\ cp.root \in Seq(Leaves)
    BY DEF TypeOK, Heads
  <1>2. CASE tile \in Served(cp.size)
    <2>1. cp.size \in 0..Len(entries) /\ tile = RootAt(entries, cp.size)
      BY <1>2 DEF Served
    <2>2. tile \in Seq(Leaves) /\ Len(tile) = cp.size
      BY <2>1, RootAtType DEF TypeOK
    <2>3. fresh = 0 => tile = cp.root
      BY <2>1 DEF UndisturbedInv, IsHead
    <2>. QED  BY <2>2, <2>3, RootAtAll
  <1>3. CASE tile \in Cached(cp.size)
    <2>1. /\ cp.size \in DOMAIN cache /\ tile = cache[cp.size] /\ tile # NoTile
          /\ tile \in Seq(Leaves)
      BY <1>3 DEF Cached, TypeOK
    <2>2. Len(tile) = cp.size
      BY <2>1 DEF LogInv
    <2>3. fresh = 0 => tile = cp.root
      BY <2>1 DEF UndisturbedInv, IsHead
    <2>. QED  BY <2>1, <2>2, <2>3, RootAtAll
  <1>. QED  BY <1>2, <1>3

\* An inclusion that verifies is true of the checkpoint, and a true one verifies
\* against the checkpoint's own tree.
LEMMA InclusionVerifies ==
  ASSUME IInv, ClaimsInclusion, ~MalformedInclusion,
         NEW tile \in Served(cp.size) \cup Cached(cp.size)
  PROVE  /\ ProvesInclusion(tile) => InclusionTrue
         /\ tile = cp.root /\ InclusionTrue => ProvesInclusion(tile)
  <1>. DEFINE i == flags.index
              n == cp.size
  <1>1. /\ n \in Nat /\ cp.root \in Seq(Leaves) /\ Len(cp.root) = n
        /\ i \in Nat /\ i < n /\ flags.leaf \in Leaves
    BY DEF IInv, TypeOK, StageInv, Whole, Heads, ClaimsInclusion,
           MalformedInclusion, Number, Absent
  <1>2. tile \in Seq(Leaves) /\ Len(tile) = n /\ RootAt(tile, n) = tile
    BY TileIsTree
  <1>3. ProvesInclusion(tile) <=> cp.root = [tile EXCEPT ![i + 1] = flags.leaf]
    BY <1>1, <1>2 DEF ProvesInclusion, VerifyInclusion, InclusionProof
  <1>4. i + 1 \in 1..n /\ DOMAIN tile = 1..n
    BY <1>1, <1>2, LenProperties
  <1>5. ProvesInclusion(tile) => InclusionTrue
    BY <1>1, <1>3, <1>4 DEF InclusionTrue
  <1>6. ASSUME tile = cp.root, InclusionTrue PROVE ProvesInclusion(tile)
    <2>1. [tile EXCEPT ![i + 1] = flags.leaf] = tile
      BY <1>1, <1>2, <1>4, <1>6 DEF InclusionTrue
    <2>. QED  BY <1>3, <1>6, <2>1
  <1>. QED  BY <1>5, <1>6

\* The same for a consistency claim, except from the empty tree.
LEMMA ConsistencyVerifies ==
  ASSUME IInv, ClaimsConsistency, ~MalformedConsistency,
         NEW tile \in Served(cp.size) \cup Cached(cp.size)
  PROVE  /\ ProvesConsistency(tile) => ConsistencyTrue
         /\ tile = cp.root /\ ConsistencyTrue /\ flags.from # 0
              => ProvesConsistency(tile)
  <1>. DEFINE m == flags.from
              n == cp.size
  <1>1. /\ n \in Nat /\ cp.root \in Seq(Leaves) /\ Len(cp.root) = n
        /\ m \in Nat /\ flags.to = n /\ RootAt(cp.root, n) = cp.root
    BY RootAtAll
       DEF IInv, TypeOK, StageInv, Whole, Heads, ClaimsConsistency,
           MalformedConsistency, Number, Absent
  <1>2. tile \in Seq(Leaves) /\ Len(tile) = n /\ RootAt(tile, n) = tile
    BY TileIsTree
  <1>3. ProvesConsistency(tile) <=>
          \/ m = n /\ flags.oldRoot = cp.root
          \/ 0 < m /\ m < n /\ flags.oldRoot = RootAt(tile, m) /\ cp.root = tile
    BY <1>1, <1>2 DEF ProvesConsistency, VerifyConsistency, ConsistencyProof
  <1>4. ConsistencyTrue <=> m \in 0..n /\ flags.oldRoot = RootAt(cp.root, m)
    BY <1>1 DEF ConsistencyTrue
  <1>. QED  BY <1>1, <1>3, <1>4

-----------------------------------------------------------------------------
(* The steps of the log. *)

\* A step that leaves the verifier and the auditor alone keeps what is said of
\* them; a start with --fresh only weakens it.
LEMMA CliStays ==
  ASSUME IInv, UNCHANGED <<cliVars, auditorVars>>, fresh' = 0 => fresh = 0
  PROVE  StageInv' /\ AuditInv' /\ PrintedIsTrue' /\ ZeroMeansVerified' /\ TrueClaimsPass'
  <1>. USE DEF IInv, cliVars, auditorVars
  <1>1. StageInv'
    BY DEF StageInv, Whole, ClaimsInclusion
  <1>2. AuditInv'
    BY DEF AuditInv, Whole
  <1>3. PrintedIsTrue'
    BY DEF PrintedIsTrue, InclusionTrue, ConsistencyTrue
  <1>4. ZeroMeansVerified'
    BY DEF ZeroMeansVerified, ClaimsInclusion, ClaimsConsistency
  <1>5. TrueClaimsPass'
    BY DEF TrueClaimsPass, InclusionTrue, ConsistencyTrue, Unsupported,
           ClaimsInclusion, ClaimsConsistency
  <1>. QED  BY <1>1, <1>2, <1>3, <1>4, <1>5

\* A program adds a leaf.
LEMMA AddLeafStep == IInv /\ AddLeaf => IInv'
  <1>. SUFFICES ASSUME IInv, AddLeaf PROVE IInv'
    OBVIOUS
  <1>1. PICK leaf \in Leaves : Add(added + 1, leaf)
    BY DEF AddLeaf
  <1>2. /\ added < Cardinality(Requests) /\ added' = added + 1
        /\ queue' = Append(queue, [request |-> added + 1, leaf |-> leaf])
        /\ UNCHANGED <<entries, checkpoint, fresh, cache, cliVars, auditorVars>>
    BY <1>1 DEF AddLeaf, Add
  <1>3. added' \in 0..Cardinality(Requests) /\ added + 1 \in Requests
    BY <1>2, AddBound, SizesAssumption DEF IInv, TypeOK
  <1>4. TypeOK'
    BY <1>2, <1>3 DEF IInv, TypeOK, cliVars, auditorVars
  <1>5. LogInv'
    <2>1. queue' \in Seq([request : Requests, leaf : Leaves])
      BY <1>2, <1>3 DEF IInv, LogInv
    <2>. QED  BY <1>2, <2>1 DEF IInv, LogInv, IsHead
  <1>6. UndisturbedInv'
    BY <1>2 DEF IInv, UndisturbedInv, IsHead, cliVars
  <1>. QED  BY <1>2, <1>4, <1>5, <1>6, CliStays DEF IInv

\* A batch is written: every head and every tile of the log remains one.
LEMMA IntegrateStep ==
  IInv /\ IntegrateBatch /\ UNCHANGED <<added, fresh, cache, cliVars, auditorVars>>
    => IInv'
  <1>. SUFFICES ASSUME IInv, IntegrateBatch,
                       UNCHANGED <<added, fresh, cache, cliVars, auditorVars>>
                PROVE  IInv'
    OBVIOUS
  <1>1. PICK n \in 1..Len(queue) :
          /\ entries' = entries \o [i \in 1..n |-> queue[i].leaf]
          /\ queue' = SubSeq(queue, n + 1, Len(queue))
    BY DEF IntegrateBatch
  <1>2. UNCHANGED <<checkpoint, awaited>>
    BY DEF IntegrateBatch
  <1>. DEFINE batch == [i \in 1..n |-> queue[i].leaf]
  <1>3. /\ queue \in Seq([request : Requests, leaf : Leaves])
        /\ entries \in Seq(Leaves) /\ Len(entries) \in Nat
    BY LenProperties DEF IInv, LogInv, TypeOK
  <1>4. \A i \in 1..Len(queue) : queue[i] \in [request : Requests, leaf : Leaves]
    BY <1>3, ElementOfSeq
  <1>5. batch \in Seq(Leaves) /\ Len(batch) = n
    <2>1. \A i \in 1..n : queue[i].leaf \in Leaves
      BY <1>3, <1>4, LenProperties
    <2>. QED  BY <2>1
  <1>6. queue' \in Seq([request : Requests, leaf : Leaves])
    <2>1. /\ n + 1 \in Int /\ Len(queue) \in Int
          /\ \A i \in (n + 1)..Len(queue) :
               queue[i] \in [request : Requests, leaf : Leaves]
      BY <1>3, <1>4, LenProperties
    <2>. QED  BY <1>1, <2>1, SubSeqProperties
  <1>7. entries' \in Seq(Leaves) /\ Len(entries') = Len(entries) + n
    BY <1>1, <1>3, <1>5, ConcatProperties
  <1>8. \A k \in 0..Len(entries) : RootAt(entries', k) = RootAt(entries, k)
    <2>. HIDE DEF batch
    <2>1. entries' = entries \o batch
      BY <1>1 DEF batch
    <2>. QED  BY <1>3, <1>5, <2>1, RootAtConcat
  <1>9. \A c : c.size \in Nat /\ IsHead(c) =>
               c.size <= Len(entries') /\ c.root = RootAt(entries', c.size)
    BY <1>3, <1>7, <1>8 DEF IsHead
  <1>10. TypeOK'
    BY <1>2, <1>7 DEF IInv, TypeOK, cliVars, auditorVars
  <1>11. LogInv'
    BY <1>2, <1>6, <1>9 DEF IInv, LogInv, TypeOK, Checkpoints, IsHead
  <1>12. UndisturbedInv'
    <2>1. fresh = 0 => IsHead(cp)'
      BY <1>9 DEF IInv, UndisturbedInv, TypeOK, Heads, IsHead, cliVars
    <2>2. ASSUME fresh = 0, NEW k \in DOMAIN cache, cache[k] # NoTile
          PROVE  k <= Len(entries') /\ cache[k] = RootAt(entries', k)
      <3>1. k \in 0..Len(entries) /\ cache[k] = RootAt(entries, k)
        BY <2>2, <1>3, AddBound DEF IInv, UndisturbedInv, TypeOK
      <3>. QED  BY <1>3, <1>7, <1>8, <3>1
    <2>. QED  BY <2>1, <2>2 DEF UndisturbedInv
  <1>. QED  BY <1>10, <1>11, <1>12, CliStays DEF IInv

\* The checkpoint is replaced by the head of the whole log.
LEMMA PublishStep ==
  IInv /\ PublishCheckpoint /\ UNCHANGED <<added, fresh, cache, cliVars, auditorVars>>
    => IInv'
  <1>. SUFFICES ASSUME IInv, PublishCheckpoint,
                       UNCHANGED <<added, fresh, cache, cliVars, auditorVars>>
                PROVE  IInv'
    OBVIOUS
  <1>1. /\ checkpoint' = [size |-> Len(entries), root |-> RootAt(entries, Len(entries))]
        /\ UNCHANGED <<queue, entries>>
    BY DEF PublishCheckpoint, CheckpointAt
  <1>2. Len(entries) \in Nat /\ RootAt(entries, Len(entries)) \in Seq(Leaves)
    BY RootAtAll, LenProperties DEF IInv, TypeOK
  <1>3. checkpoint' \in Checkpoints /\ IsHead(checkpoint)'
    BY <1>1, <1>2 DEF Checkpoints, IsHead
  <1>4. TypeOK'
    BY <1>1, <1>3 DEF IInv, TypeOK, cliVars, auditorVars
  <1>5. LogInv'
    BY <1>1, <1>3 DEF IInv, LogInv
  <1>6. UndisturbedInv'
    BY <1>1 DEF IInv, UndisturbedInv, IsHead, cliVars
  <1>. QED  BY <1>4, <1>5, <1>6, CliStays DEF IInv

\* The directory is removed and a new log begun in its place.
LEMMA FreshStep == IInv /\ FreshStart => IInv'
  <1>. SUFFICES ASSUME IInv, FreshStart PROVE IInv'
    OBVIOUS
  <1>1. /\ fresh < MaxFresh /\ fresh' = fresh + 1
        /\ queue' = <<>> /\ entries' = <<>> /\ checkpoint' = EmptyHead
        /\ UNCHANGED <<added, cache, cliVars, auditorVars>>
    BY DEF FreshStart
  <1>2. fresh' \in 1..MaxFresh
    BY <1>1, BoundsAssumption DEF IInv, TypeOK
  <1>3. entries' \in Seq(Leaves) /\ queue' \in Seq([request : Requests, leaf : Leaves])
    BY <1>1, EmptySeq
  <1>4. TypeOK'
    <2>1. fresh' \in 0..MaxFresh
      BY <1>2
    <2>. QED  BY <1>1, <1>3, <2>1, EmptyHeadFacts DEF IInv, TypeOK, cliVars, auditorVars
  <1>5. IsHead(checkpoint)'
    <2>1. RootAt(<<>>, 0) = <<>> /\ Len(<<>>) = 0
      BY EmptySeq DEF RootAt
    <2>. QED  BY <1>1, <2>1, EmptyHeadFacts DEF IsHead
  <1>6. LogInv'
    BY <1>1, <1>3, <1>5 DEF IInv, LogInv
  <1>7. UndisturbedInv'
    BY <1>2 DEF UndisturbedInv
  <1>. QED  BY <1>1, <1>2, <1>4, <1>6, <1>7, CliStays DEF IInv

-----------------------------------------------------------------------------
(* The steps of the verifier. *)

\* The log under a step of the verifier.
LEMMA LogStays ==
  ASSUME IInv, UNCHANGED <<logVars, cache>>
  PROVE  LogInv' /\ (UNCHANGED cp => UndisturbedInv')
  BY DEF IInv, LogInv, UndisturbedInv, IsHead, logVars, tesseraVars

\* A tile that was served may be kept in the cache.
LEMMA TileKept ==
  ASSUME IInv, UNCHANGED <<logVars, cp>>,
         NEW tile \in Served(cp.size) \cup Cached(cp.size),
         cache' = Kept(cp.size, tile)
  PROVE  /\ cache' \in [1..Cardinality(Requests) -> Seq(Leaves)]
         /\ LogInv' /\ UndisturbedInv'
  <1>1. /\ tile \in Seq(Leaves) /\ Len(tile) = cp.size
        /\ fresh = 0 => tile = cp.root
    BY TileIsTree
  <1>2. /\ cache' \in [1..Cardinality(Requests) -> Seq(Leaves)]
        /\ DOMAIN cache' = DOMAIN cache
        /\ \A k \in DOMAIN cache :
             cache'[k] = IF k = cp.size THEN tile ELSE cache[k]
    BY <1>1 DEF IInv, TypeOK, Kept
  <1>3. LogInv'
    BY <1>1, <1>2 DEF IInv, LogInv, IsHead, logVars, tesseraVars
  <1>4. UndisturbedInv'
    BY <1>1, <1>2 DEF IInv, UndisturbedInv, IsHead, logVars, tesseraVars
  <1>. QED  BY <1>2, <1>3, <1>4

\* The auditor runs the verifier with some flags.
LEMMA InvokeStep == IInv /\ Invoke => IInv'
  <1>. SUFFICES ASSUME IInv, Invoke PROVE IInv'
    OBVIOUS
  <1>. USE DEF IInv
  <1>1. /\ pc' = "checkpoint" /\ printed' = {} /\ exit' = -1 /\ unread' = FALSE
        /\ invoked < MaxInvocations /\ invoked' = invoked + 1
        /\ flags' \in Flags
        /\ UNCHANGED <<logVars, cache, cp, auditorVars>>
    BY DEF Invoke
  <1>2. flags' \in [index : Number, leaf : Leaves \cup {Garbled}, from : Number,
                   to : Number, oldRoot : Roots \cup {Garbled}]
    BY <1>1 DEF Flags
  <1>3. flags' \in [index : Number, leaf : Leaves \cup {Garbled}, from : Number,
                   to : Number, oldRoot : Seq(Leaves) \cup {Garbled}]
    <2>1. Roots \subseteq Seq(Leaves)
      BY SizesAssumption DEF Roots
    <2>. QED  BY <1>2, <2>1
  <1>4. invoked' \in 0..MaxInvocations
    BY <1>1, BoundsAssumption DEF TypeOK
  <1>5. TypeOK'
    BY <1>1, <1>3, <1>4 DEF TypeOK, logVars, tesseraVars, auditorVars
  <1>6. LogInv' /\ UndisturbedInv'
    BY <1>1, LogStays
  <1>7. StageInv' /\ AuditInv'
    BY <1>1 DEF StageInv, AuditInv, Whole, auditorVars
  <1>8. PrintedIsTrue' /\ ZeroMeansVerified' /\ TrueClaimsPass'
    BY <1>1 DEF PrintedIsTrue, ZeroMeansVerified, TrueClaimsPass
  <1>. QED  BY <1>5, <1>6, <1>7, <1>8

\* It reads the checkpoint that is published at that moment.
LEMMA ReadStep == IInv /\ ReadCheckpoint => IInv'
  <1>. SUFFICES ASSUME IInv, ReadCheckpoint PROVE IInv'
    OBVIOUS
  <1>. USE DEF IInv
  <1>1. /\ pc = "checkpoint" /\ cp' = checkpoint /\ pc' = "inclusion"
        /\ UNCHANGED <<logVars, cache, flags, printed, exit, unread, invoked,
                       auditorVars>>
    BY DEF ReadCheckpoint
  <1>2. /\ checkpoint \in Heads /\ IsHead(checkpoint)
        /\ checkpoint.size \in 0..Len(entries)
    BY LenProperties DEF TypeOK, LogInv, Checkpoints, Heads, IsHead
  <1>3. Whole(checkpoint)
    BY <1>2, RootAtType DEF TypeOK, IsHead, Whole
  <1>4. TypeOK'
    BY <1>1, <1>2 DEF TypeOK, logVars, tesseraVars, auditorVars
  <1>5. LogInv' /\ UndisturbedInv'
    BY <1>1, <1>2, LogStays DEF UndisturbedInv, IsHead, logVars, tesseraVars
  <1>6. StageInv' /\ AuditInv'
    BY <1>1, <1>3 DEF StageInv, AuditInv, Whole, auditorVars
  <1>7. PrintedIsTrue' /\ ZeroMeansVerified' /\ TrueClaimsPass'
    <2>1. printed = {} /\ exit = -1
      BY <1>1 DEF StageInv, TypeOK
    <2>. QED  BY <1>1, <2>1 DEF PrintedIsTrue, ZeroMeansVerified, TrueClaimsPass
  <1>. QED  BY <1>4, <1>5, <1>6, <1>7

\* It ends with exit code 1.  That must not happen to a true claim on an
\* undisturbed log, unless a read failed.
LEMMA ExitStep ==
  ASSUME IInv, Exit(1), pc # "ended",
         cache' \in [1..Cardinality(Requests) -> Seq(Leaves)],
         LogInv', UndisturbedInv', unread' \in BOOLEAN,
         ~unread' /\ fresh = 0 =>
           \/ ClaimsInclusion /\ ~InclusionTrue
           \/ ClaimsConsistency /\ (~ConsistencyTrue \/ Unsupported)
  PROVE  IInv'
  <1>. USE DEF IInv
  <1>1. /\ pc' = "ended" /\ exit' = 1
        /\ UNCHANGED <<logVars, flags, cp, printed, invoked, auditorVars>>
    BY DEF Exit
  <1>2. TypeOK'
    BY <1>1 DEF TypeOK, logVars, tesseraVars, auditorVars
  <1>3. StageInv' /\ AuditInv'
    BY <1>1 DEF StageInv, AuditInv, Whole, auditorVars
  <1>4. PrintedIsTrue' /\ ZeroMeansVerified'
    BY <1>1 DEF PrintedIsTrue, InclusionTrue, ConsistencyTrue, ZeroMeansVerified
  <1>5. TrueClaimsPass'
    BY <1>1 DEF TrueClaimsPass, InclusionTrue, ConsistencyTrue, Unsupported,
                ClaimsInclusion, ClaimsConsistency, logVars
  <1>. QED  BY <1>2, <1>3, <1>4, <1>5

\* An early end because a read failed.
LEMMA UnreadStep ==
  IInv /\ (CheckpointUnread \/ InclusionUnread \/ ConsistencyUnread) => IInv'
  <1>. SUFFICES ASSUME IInv,
                       CheckpointUnread \/ InclusionUnread \/ ConsistencyUnread
                PROVE  IInv'
    OBVIOUS
  <1>1. Exit(1) /\ pc # "ended" /\ unread' = TRUE /\ UNCHANGED cache
    BY DEF CheckpointUnread, InclusionUnread, ConsistencyUnread, Unread
  <1>2. UNCHANGED <<logVars, cache, cp>>
    BY <1>1 DEF Exit
  <1>3. LogInv' /\ UndisturbedInv'
    BY <1>2, LogStays
  <1>4. cache' \in [1..Cardinality(Requests) -> Seq(Leaves)]
    BY <1>1 DEF IInv, TypeOK
  <1>. QED  BY <1>1, <1>3, <1>4, ExitStep

\* Claims that are refused before any proof are false of the checkpoint, or not
\* supported.
LEMMA RefuseSteps == IInv /\ (RefuseInclusion \/ RefuseConsistency) => IInv'
  <1>. SUFFICES ASSUME IInv, RefuseInclusion \/ RefuseConsistency PROVE IInv'
    OBVIOUS
  <1>1. Exit(1) /\ pc # "ended" /\ UNCHANGED <<cache, unread>>
    BY DEF RefuseInclusion, RefuseConsistency
  <1>2. UNCHANGED <<logVars, cache, cp>>
    BY <1>1 DEF Exit
  <1>3. LogInv' /\ UndisturbedInv'
    BY <1>2, LogStays
  <1>4. /\ cache' \in [1..Cardinality(Requests) -> Seq(Leaves)]
        /\ unread' \in BOOLEAN
    BY <1>1 DEF IInv, TypeOK
  <1>5. cp.size \in Nat /\ cp.root \in Seq(Leaves) /\ Len(cp.root) = cp.size
    BY DEF IInv, TypeOK, StageInv, Whole, Heads
  <1>6. ASSUME RefuseInclusion PROVE ClaimsInclusion /\ ~InclusionTrue
    <2>1. ClaimsInclusion /\ MalformedInclusion
      BY <1>6 DEF RefuseInclusion
    <2>2. flags.index \in Nat
      BY <2>1 DEF ClaimsInclusion, IInv, TypeOK, Number, Absent
    <2>3. ASSUME flags.index < cp.size PROVE cp.root[flags.index + 1] \in Leaves
      <3>1. flags.index + 1 \in 1..Len(cp.root)
        BY <1>5, <2>2, <2>3
      <3>. QED  BY <1>5, <3>1, ElementOfSeq
    <2>. QED  BY <1>5, <2>1, <2>2, <2>3, GarbledAssumption
              DEF MalformedInclusion, InclusionTrue
  <1>7. ASSUME RefuseConsistency
        PROVE  ClaimsConsistency /\ (~ConsistencyTrue \/ Unsupported)
    <2>1. ClaimsConsistency /\ MalformedConsistency
      BY <1>7 DEF RefuseConsistency
    <2>2. flags.from \in 0..cp.size => RootAt(cp.root, flags.from) \in Seq(Leaves)
      BY <1>5, RootAtType
    <2>3. flags.from \in 0..flags.to /\ flags.to \in 0..cp.size
            => flags.from \in 0..cp.size /\ (flags.to = cp.size \/ flags.to < cp.size)
      BY <1>5
    <2>. QED  BY <2>1, <2>2, <2>3, GarbledAssumption
              DEF MalformedConsistency, ConsistencyTrue, Unsupported
  <1>. QED  BY <1>1, <1>3, <1>4, <1>6, <1>7, ExitStep

\* The claim of an inclusion is skipped, or its proof is looked at.
LEMMA SkipInclusionStep == IInv /\ SkipInclusion => IInv'
  <1>. SUFFICES ASSUME IInv, SkipInclusion PROVE IInv'
    OBVIOUS
  <1>. USE DEF IInv
  <1>1. /\ pc = "inclusion" /\ ~ClaimsInclusion /\ pc' = "consistency"
        /\ UNCHANGED <<logVars, cache, flags, cp, printed, exit, unread, invoked,
                       auditorVars>>
    BY DEF SkipInclusion
  <1>2. LogInv' /\ UndisturbedInv'
    BY <1>1, LogStays
  <1>3. TypeOK'
    BY <1>1 DEF TypeOK, logVars, tesseraVars, auditorVars
  <1>4. StageInv' /\ AuditInv'
    BY <1>1 DEF StageInv, AuditInv, Whole, ClaimsInclusion, auditorVars
  <1>5. PrintedIsTrue' /\ ZeroMeansVerified' /\ TrueClaimsPass'
    <2>1. printed = {} /\ exit = -1
      BY <1>1 DEF StageInv, TypeOK
    <2>. QED  BY <1>1, <2>1 DEF PrintedIsTrue, ZeroMeansVerified, TrueClaimsPass
  <1>. QED  BY <1>2, <1>3, <1>4, <1>5

\* What is printed as VERIFIED is what the proof has shown.
LEMMA InclusionStep == IInv /\ Inclusion => IInv'
  <1>. SUFFICES ASSUME IInv, Inclusion PROVE IInv'
    OBVIOUS
  <1>. USE DEF IInv
  <1>1. /\ pc = "inclusion" /\ ClaimsInclusion /\ ~MalformedInclusion
        /\ UNCHANGED unread
    BY DEF Inclusion
  <1>2. PICK tile \in Served(cp.size) \cup Cached(cp.size) :
          /\ cache' = Kept(cp.size, tile)
          /\ IF ProvesInclusion(tile)
             THEN /\ printed' = printed \cup {"inclusion"}
                  /\ pc' = "consistency"
                  /\ UNCHANGED <<logVars, flags, cp, exit, invoked, auditorVars>>
             ELSE Exit(1)
    BY DEF Inclusion
  <1>3. UNCHANGED <<logVars, cp>>
    BY <1>2 DEF Exit
  <1>4. /\ cache' \in [1..Cardinality(Requests) -> Seq(Leaves)]
        /\ LogInv' /\ UndisturbedInv'
    BY <1>2, <1>3, TileKept
  <1>5. CASE ProvesInclusion(tile)
    <2>1. /\ printed' = {"inclusion"} /\ pc' = "consistency" /\ exit = -1
          /\ UNCHANGED <<logVars, flags, cp, exit, invoked, auditorVars>>
      BY <1>1, <1>2, <1>5 DEF StageInv, TypeOK
    <2>2. InclusionTrue
      BY <1>1, <1>5, InclusionVerifies
    <2>3. TypeOK'
      BY <1>1, <1>4, <2>1 DEF TypeOK, logVars, tesseraVars, auditorVars
    <2>4. StageInv' /\ AuditInv'
      BY <1>1, <2>1 DEF StageInv, AuditInv, Whole, auditorVars
    <2>5. PrintedIsTrue' /\ ZeroMeansVerified' /\ TrueClaimsPass'
      BY <2>1, <2>2 DEF PrintedIsTrue, InclusionTrue, ZeroMeansVerified, TrueClaimsPass
    <2>. QED  BY <1>4, <2>3, <2>4, <2>5
  <1>6. CASE ~ProvesInclusion(tile)
    <2>1. Exit(1)
      BY <1>2, <1>6
    <2>2. fresh = 0 => ~InclusionTrue
      BY <1>1, <1>6, TileIsTree, InclusionVerifies
    <2>3. unread' \in BOOLEAN
      BY <1>1 DEF TypeOK
    <2>. QED  BY <1>1, <1>4, <2>1, <2>2, <2>3, ExitStep
  <1>. QED  BY <1>5, <1>6

\* The verifier ends with exit code 0, all claims verified, and the auditor goes
\* on from the checkpoint if it may.
LEMMA SucceedStep ==
  ASSUME IInv, Succeed, pc = "consistency",
         cache' \in [1..Cardinality(Requests) -> Seq(Leaves)],
         LogInv', UndisturbedInv',
         \/ UNCHANGED printed /\ ~ClaimsConsistency
         \/ /\ printed' = printed \cup {"consistency"}
            /\ ClaimsConsistency /\ ~MalformedConsistency /\ ConsistencyTrue
  PROVE  IInv'
  <1>. USE DEF IInv
  <1>1. /\ exit' = 0 /\ pc' = "ended"
        /\ UNCHANGED <<logVars, flags, cp, unread, invoked>>
    BY DEF Succeed
  <1>2. /\ "consistency" \notin printed
        /\ ClaimsInclusion => "inclusion" \in printed'
        /\ ClaimsConsistency => "consistency" \in printed'
        /\ printed \subseteq printed'
        /\ printed' \subseteq {"inclusion", "consistency"}
        /\ "inclusion" \in printed' => "inclusion" \in printed
        /\ "consistency" \in printed' => ~MalformedConsistency /\ ConsistencyTrue
    BY DEF StageInv, TypeOK
  <1>3. CASE UNCHANGED auditorVars
    <2>1. TypeOK'
      BY <1>1, <1>2, <1>3 DEF TypeOK, logVars, tesseraVars, auditorVars
    <2>2. AuditInv'
      BY <1>3 DEF AuditInv, Whole, auditorVars
    <2>. QED  BY <1>1, <1>2, <2>1, <2>2
              DEF StageInv, Whole, PrintedIsTrue, InclusionTrue, ConsistencyTrue,
                  ZeroMeansVerified, ClaimsInclusion, ClaimsConsistency, TrueClaimsPass
  <1>4. CASE /\ cp.size > 0
             /\ \/ pinned = EmptyHead
                \/ /\ "consistency" \in printed'
                   /\ flags.from = pinned.size /\ flags.oldRoot = pinned.root
             /\ pinned' = cp /\ accepted' = accepted \cup {cp}
    <2>1. TypeOK'
      BY <1>1, <1>2, <1>4 DEF TypeOK, logVars, tesseraVars
    <2>2. /\ cp.size \in Nat /\ cp.root \in Seq(Leaves) /\ Len(cp.root) = cp.size
          /\ pinned.size \in Nat /\ cp.root = RootAt(cp.root, cp.size)
      BY RootAtAll DEF TypeOK, StageInv, Whole, Heads
    <2>3. ASSUME NEW h \in accepted
          PROVE  h.size <= cp.size /\ h.root = RootAt(cp.root, h.size)
      <3>1. /\ pinned.size # 0 /\ h.size \in 0..pinned.size
            /\ h.root = RootAt(pinned.root, h.size)
        BY <2>3 DEF AuditInv, TypeOK, Heads
      <3>2. /\ "consistency" \in printed' /\ flags.from = pinned.size
            /\ flags.oldRoot = pinned.root /\ ConsistencyTrue
        BY <1>2, <1>4, <3>1, EmptyHeadFacts
      <3>3. pinned.size \in 0..cp.size /\ pinned.root = RootAt(cp.root, pinned.size)
        BY <2>2, <3>2 DEF ConsistencyTrue
      <3>4. RootAt(pinned.root, h.size) = RootAt(cp.root, h.size)
        BY <2>2, <3>1, <3>3, RootAtRootAt
      <3>. QED  BY <2>2, <3>1, <3>3, <3>4
    <2>4. AuditInv'
      <3>1. Whole(pinned)'
        BY <1>4, <2>2 DEF Whole
      <3>2. pinned'.size # 0
        BY <1>4, <2>2
      <3>3. \A h \in accepted' :
              h.size <= cp.size /\ h.root = RootAt(cp.root, h.size)
        BY <1>4, <2>2, <2>3
      <3>. QED  BY <1>4, <3>1, <3>2, <3>3 DEF AuditInv
    <2>. QED  BY <1>1, <1>2, <2>1, <2>4
              DEF StageInv, Whole, PrintedIsTrue, InclusionTrue, ConsistencyTrue,
                  ZeroMeansVerified, ClaimsInclusion, ClaimsConsistency, TrueClaimsPass
  <1>. QED  BY <1>3, <1>4 DEF Succeed, Pin

\* Without a consistency claim the run succeeds.
LEMMA SkipConsistencyStep == IInv /\ SkipConsistency => IInv'
  <1>. SUFFICES ASSUME IInv, SkipConsistency PROVE IInv'
    OBVIOUS
  <1>1. /\ pc = "consistency" /\ ~ClaimsConsistency /\ Succeed
        /\ UNCHANGED <<cache, printed>>
    BY DEF SkipConsistency
  <1>2. UNCHANGED <<logVars, cache, cp>>
    BY <1>1 DEF Succeed
  <1>3. LogInv' /\ UndisturbedInv'
    BY <1>2, LogStays
  <1>4. cache' \in [1..Cardinality(Requests) -> Seq(Leaves)]
    BY <1>1 DEF IInv, TypeOK
  <1>. QED  BY <1>1, <1>3, <1>4, SucceedStep

\* With one, it succeeds if the proof shows it.
LEMMA ConsistencyStep == IInv /\ Consistency => IInv'
  <1>. SUFFICES ASSUME IInv, Consistency PROVE IInv'
    OBVIOUS
  <1>1. pc = "consistency" /\ ClaimsConsistency /\ ~MalformedConsistency
    BY DEF Consistency
  <1>2. PICK tile \in Served(cp.size) \cup Cached(cp.size) :
          /\ cache' = Kept(cp.size, tile)
          /\ IF ProvesConsistency(tile)
             THEN printed' = printed \cup {"consistency"} /\ Succeed
             ELSE Exit(1) /\ UNCHANGED unread
    BY DEF Consistency
  <1>3. UNCHANGED <<logVars, cp>>
    BY <1>2 DEF Exit, Succeed
  <1>4. /\ cache' \in [1..Cardinality(Requests) -> Seq(Leaves)]
        /\ LogInv' /\ UndisturbedInv'
    BY <1>2, <1>3, TileKept
  <1>5. CASE ProvesConsistency(tile)
    <2>1. ConsistencyTrue
      BY <1>1, <1>5, ConsistencyVerifies
    <2>. QED  BY <1>1, <1>2, <1>4, <1>5, <2>1, SucceedStep
  <1>6. CASE ~ProvesConsistency(tile)
    <2>1. Exit(1) /\ UNCHANGED unread
      BY <1>2, <1>6
    <2>2. fresh = 0 => ~ConsistencyTrue \/ Unsupported
      BY <1>1, <1>6, TileIsTree, ConsistencyVerifies DEF Unsupported
    <2>3. unread' \in BOOLEAN
      BY <2>1 DEF IInv, TypeOK
    <2>. QED  BY <1>1, <1>4, <2>1, <2>2, <2>3, ExitStep
  <1>. QED  BY <1>5, <1>6

-----------------------------------------------------------------------------
\* No leaf, no invocation: the invariant holds.
LEMMA InitIInv == Init => IInv
  <1>. SUFFICES ASSUME Init PROVE IInv
    OBVIOUS
  <1>1. /\ queue = <<>> /\ entries = <<>> /\ checkpoint = EmptyHead
        /\ added = 0 /\ fresh = 0
        /\ cache = [n \in 1..Cardinality(Requests) |-> NoTile]
        /\ pc = "ended" /\ cp = EmptyHead /\ pinned = EmptyHead /\ accepted = {}
        /\ printed = {} /\ exit = 0 /\ unread = FALSE /\ invoked = 0
        /\ flags = [index |-> Absent, leaf |-> Garbled, from |-> Absent,
                    to |-> Absent, oldRoot |-> Garbled]
    BY DEF Init, TesseraInit, EmptyHead
  <1>2. <<>> \in Seq(Leaves) /\ <<>> \in Seq([request : Requests, leaf : Leaves])
        /\ Len(<<>>) = 0 /\ RootAt(<<>>, 0) = <<>>
    BY EmptySeq DEF RootAt
  <1>3. TypeOK
    <2>1. 0 \in 0..Cardinality(Requests) /\ 0 \in 0..MaxFresh /\ 0 \in 0..MaxInvocations
      BY AddBound, BoundsAssumption
    <2>2. flags \in [index : Number, leaf : Leaves \cup {Garbled}, from : Number,
                    to : Number, oldRoot : Seq(Leaves) \cup {Garbled}]
      BY <1>1 DEF Number
    <2>3. cache \in [1..Cardinality(Requests) -> Seq(Leaves)]
      BY <1>1, <1>2 DEF NoTile
    <2>4. /\ entries \in Seq(Leaves) /\ checkpoint \in Checkpoints
          /\ cp \in Heads /\ pinned \in Heads /\ accepted \subseteq Heads
      BY <1>1, <1>2, EmptyHeadFacts
    <2>5. /\ added \in 0..Cardinality(Requests) /\ fresh \in 0..MaxFresh
          /\ invoked \in 0..MaxInvocations
      BY <1>1, <2>1
    <2>6. /\ pc = "ended" /\ exit \in {0, 1} /\ unread \in BOOLEAN
          /\ printed \subseteq {"inclusion", "consistency"}
      BY <1>1
    <2>. QED  BY <2>2, <2>3, <2>4, <2>5, <2>6 DEF TypeOK
  <1>4. IsHead(EmptyHead)
    BY <1>1, <1>2, EmptyHeadFacts DEF IsHead
  <1>5. LogInv /\ UndisturbedInv
    BY <1>1, <1>2, <1>4 DEF LogInv, UndisturbedInv
  <1>6. StageInv /\ AuditInv
    BY <1>1, EmptyHeadFacts DEF StageInv, AuditInv
  <1>7. PrintedIsTrue /\ ZeroMeansVerified /\ TrueClaimsPass
    BY <1>1 DEF PrintedIsTrue, ZeroMeansVerified, TrueClaimsPass
  <1>. QED  BY <1>3, <1>5, <1>6, <1>7 DEF IInv

\* Every step preserves it.
LEMMA NextIInv == IInv /\ [Next]_vars => IInv'
  <1>. SUFFICES ASSUME IInv, [Next]_vars PROVE IInv'
    OBVIOUS
  <1>1. CASE Grow
    BY <1>1, IntegrateStep, PublishStep DEF Grow
  <1>2. CASE UNCHANGED vars
    <2>1. UNCHANGED <<logVars, cache, cliVars, auditorVars, fresh>>
      BY <1>2 DEF vars, logVars
    <2>2. LogInv' /\ UndisturbedInv'
      BY <2>1, LogStays DEF cliVars
    <2>3. TypeOK'
      BY <2>1 DEF IInv, TypeOK, logVars, tesseraVars, cliVars, auditorVars
    <2>. QED  BY <2>1, <2>2, <2>3, CliStays DEF IInv
  <1>. QED
    BY <1>1, <1>2, AddLeafStep, FreshStep, InvokeStep, ReadStep, UnreadStep,
       SkipInclusionStep, RefuseSteps, InclusionStep, SkipConsistencyStep,
       ConsistencyStep DEF Next

\* The inductive invariant of the verifier and its auditor.
THEOREM VerifierInvariance == Spec => []IInv
  BY InitIInv, NextIInv, PTL DEF Spec

\* Every variable stays in its set, and an exit code ends the verifier.
THEOREM VerifierTypeCorrect == Spec => []TypeOK
  BY VerifierInvariance, PTL DEF IInv

\* A claim printed as VERIFIED is true of the checkpoint that was read.
THEOREM PrintedClaimsAreTrue == Spec => []PrintedIsTrue
  BY VerifierInvariance, PTL DEF IInv

\* Exit code 0 leaves no claim of the flags unverified.
THEOREM SuccessIsComplete == Spec => []ZeroMeansVerified
  BY VerifierInvariance, PTL DEF IInv

\* A true inclusion, and a true consistency to the head that was read, passes,
\* unless a read fails or a program starts with --fresh.
THEOREM TrueClaimsVerify == Spec => []TrueClaimsPass
  BY VerifierInvariance, PTL DEF IInv

\* Heads the auditor went on from belong to one growing log, whatever happened
\* to the directory in between.
THEOREM AuditorStaysOnOneLog == Spec => []AcceptedHeadsAreOneLog
  <1>1. ASSUME IInv, NEW g \in accepted, NEW h \in accepted, g.size <= h.size
        PROVE  g.root = RootAt(h.root, g.size)
    <2>1. /\ g.size \in 0..h.size /\ h.size \in 0..Len(pinned.root)
          /\ pinned.root \in Seq(Leaves)
      BY <1>1 DEF IInv, TypeOK, AuditInv, Whole, Heads
    <2>2. /\ g.root = RootAt(pinned.root, g.size)
          /\ h.root = RootAt(pinned.root, h.size)
      BY <1>1 DEF IInv, AuditInv
    <2>. QED  BY <2>1, <2>2, RootAtRootAt
  <1>2. IInv => AcceptedHeadsAreOneLog
    BY <1>1 DEF AcceptedHeadsAreOneLog
  <1>. QED  BY <1>2, VerifierInvariance, PTL
=============================================================================
