------------------------------ MODULE VerifyCli -----------------------------
(***************************************************************************)
(* The verifier cmd/verify, invoked again and again by an auditor who      *)
(* keeps the last tree head it has verified, against a log directory that  *)
(* is served while programs append to it.  A program may be started with   *)
(* --fresh, which removes the directory and keeps the checkpoint key, so   *)
(* what the auditor sees need not be append-only.  Tiles are served with   *)
(* "immutable", so a cache on the way may answer for a tile path.          *)
(***************************************************************************)
EXTENDS TesseraLog, FiniteSets

CONSTANTS MaxSize,        \* indices and sizes given as flags: 0..MaxSize
          MaxInvocations, \* bound on how often the verifier is run
          MaxFresh,       \* bound on the starts with --fresh
          Garbled         \* a hexadecimal flag that is missing or not hex

ASSUME SizesAssumption ==
  MaxSize \in Nat /\ IsFiniteSet(Requests) /\ Requests = 1..Cardinality(Requests)
ASSUME BoundsAssumption == MaxInvocations \in Nat /\ MaxFresh \in Nat
ASSUME GarbledAssumption == Garbled \notin Leaves \cup Seq(Leaves)

VARIABLES added,     \* how many leaves were added
          fresh,     \* how many programs were started with --fresh
          cache,     \* the tile a cache holds for the path of each width
          pc,        \* where the verifier stands
          flags,     \* its flags
          cp,        \* the checkpoint it has read
          printed,   \* the claims it has printed as VERIFIED
          exit,      \* its exit code
          unread,    \* history: it ended because a read failed
          invoked,   \* how often it was run
          pinned,    \* the tree head the auditor goes on from
          accepted   \* history: all tree heads the auditor went on from

logVars == <<tesseraVars, added, fresh>>
cliVars == <<pc, flags, cp, printed, exit, unread, invoked>>
auditorVars == <<pinned, accepted>>
vars == <<logVars, cache, cliVars, auditorVars>>

Absent == -1  \* a numeric flag that is not given
Number == 0..MaxSize \cup {Absent}

NoTile == <<>>
EmptyHead == CheckpointAt(<<>>, 0)

\* What --old_root may give: the root of a tree, logged or not, as any leaves
\* may be in it.
Roots == UNION {[1..n -> Leaves] : n \in 0..MaxSize}

\* A flag that is not looked at, because the one it goes with is not given or
\* is garbled, takes one value only.  A wrong root is that of other leaves: one
\* of another size than --from would be no more wrong.
Flags ==
  {f \in [index : Number, leaf : Leaves \cup {Garbled},
          from : Number, to : Number, oldRoot : Roots \cup {Garbled}] :
     /\ f.index = Absent => f.leaf = Garbled
     /\ f.leaf = Garbled => f.index \in {Absent, 0}
     /\ f.from = Absent => f.to \in {Absent, 0}
     /\ f.to = Absent => f.from \in {Absent, 0}
     /\ Absent \in {f.from, f.to} => f.oldRoot = Garbled
     /\ f.oldRoot = Garbled => f.from \in {Absent, 0} /\ f.to \in {Absent, 0}
     /\ f.oldRoot # Garbled => Len(f.oldRoot) = f.from}

Init ==
  /\ TesseraInit
  /\ added = 0 /\ fresh = 0
  /\ cache = [n \in 1..Cardinality(Requests) |-> NoTile]
  /\ pc = "ended"
  /\ flags = [index |-> Absent, leaf |-> Garbled, from |-> Absent,
              to |-> Absent, oldRoot |-> Garbled]
  /\ cp = EmptyHead
  /\ printed = {} /\ exit = 0 /\ unread = FALSE /\ invoked = 0
  /\ pinned = EmptyHead /\ accepted = {}

-----------------------------------------------------------------------------
(* The log. *)

AddLeaf ==
  /\ added < Cardinality(Requests)
  /\ \E leaf \in Leaves : Add(added + 1, leaf)
  /\ added' = added + 1
  /\ UNCHANGED <<fresh, cache, cliVars, auditorVars>>

Grow ==
  /\ IntegrateBatch \/ PublishCheckpoint
  /\ UNCHANGED <<added, fresh, cache, cliVars, auditorVars>>

\* os.RemoveAll(log_dir), then a new log at the same place with the same key.
\* It publishes the empty tree before any leaf.
FreshStart ==
  /\ fresh < MaxFresh
  /\ fresh' = fresh + 1
  /\ queue' = <<>> /\ entries' = <<>>
  /\ index' = [r \in Requests |-> Unresolved]
  /\ checkpoint' = EmptyHead /\ awaited' = NothingPolled
  /\ UNCHANGED <<added, cache, cliVars, auditorVars>>

-----------------------------------------------------------------------------
(* The verifier. *)

Invoke ==
  /\ pc = "ended" /\ invoked < MaxInvocations
  /\ pc' = "checkpoint"
  /\ \E f \in Flags : flags' = f
  /\ printed' = {} /\ exit' = -1 /\ unread' = FALSE
  /\ invoked' = invoked + 1
  /\ UNCHANGED <<logVars, cache, cp, auditorVars>>

ExitContinues(code) ==  \* mutant: FAILED is printed and main goes on
  /\ exit' = code
  /\ pc' = IF pc = "inclusion" THEN "consistency" ELSE "ended"
  /\ UNCHANGED <<logVars, flags, cp, printed, invoked, auditorVars>>

Exit(code) ==
  /\ exit' = code
  /\ pc' = "ended"
  /\ UNCHANGED <<logVars, flags, cp, printed, invoked, auditorVars>>

ReadCheckpoint ==
  /\ pc = "checkpoint"
  /\ cp' = checkpoint
  /\ pc' = "inclusion"
  /\ UNCHANGED <<logVars, cache, flags, printed, exit, unread, invoked, auditorVars>>

\* The tile that a tree of n leaves ends in is at a path that names its width.
\* It comes from the directory or from a cache on the way, which keeps it.
Served(n) == {RootAt(entries, k) : k \in {n} \cap 0..Len(entries)}
Cached(n) == {cache[k] : k \in {n} \cap 1..Cardinality(Requests)} \ {NoTile}

Kept(n, tile) == [k \in DOMAIN cache |-> IF k = n THEN tile ELSE cache[k]]

\* The claims the flags make, and those that are refused before any proof.
\* A claim with a part of its flags missing is not made.
ClaimsInclusion == flags.index # Absent
ClaimsConsistency == flags.from # Absent /\ flags.to # Absent

MalformedLastIndex ==  \* mutant: the last index counts as out of range
  flags.leaf = Garbled \/ flags.index + 1 >= cp.size

MalformedInclusion == flags.leaf = Garbled \/ flags.index >= cp.size

\* Only the root of the checkpoint just read is at hand.
MalformedConsistency == flags.oldRoot = Garbled \/ flags.to # cp.size

SkipInclusion ==
  /\ pc = "inclusion" /\ ~ClaimsInclusion
  /\ pc' = "consistency"
  /\ UNCHANGED <<logVars, cache, flags, cp, printed, exit, unread, invoked,
                 auditorVars>>

RefuseInclusion ==
  /\ pc = "inclusion" /\ ClaimsInclusion /\ MalformedInclusion
  /\ Exit(1)
  /\ UNCHANGED <<cache, unread>>

ProvesInclusionUnverified(tile) ==  \* mutant: a proof that was built is taken
  Len(tile) = cp.size

ProvesInclusion(tile) ==
  VerifyInclusion(flags.index, cp.size, flags.leaf,
                  InclusionProof(tile, flags.index, cp.size), cp.root)

Inclusion ==
  /\ pc = "inclusion" /\ ClaimsInclusion /\ ~MalformedInclusion
  /\ \E tile \in Served(cp.size) \cup Cached(cp.size) :
       /\ cache' = Kept(cp.size, tile)
       /\ IF ProvesInclusion(tile)
          THEN /\ printed' = printed \cup {"inclusion"}
               /\ pc' = "consistency"
               /\ UNCHANGED <<logVars, flags, cp, exit, invoked, auditorVars>>
          ELSE Exit(1)
  /\ UNCHANGED unread

RefuseConsistency ==
  /\ pc = "consistency" /\ ClaimsConsistency /\ MalformedConsistency
  /\ Exit(1)
  /\ UNCHANGED <<cache, unread>>

ProvesConsistencyAnyRoot(tile) ==  \* mutant: old_root is not compared
  VerifyConsistency(flags.from, flags.to,
                    ConsistencyProof(tile, flags.from, flags.to),
                    RootAt(tile, flags.from), cp.root)

ProvesConsistency(tile) ==
  VerifyConsistency(flags.from, flags.to,
                    ConsistencyProof(tile, flags.from, flags.to),
                    flags.oldRoot, cp.root)

\* An auditor pins the first tree it sees, and afterwards a head that was
\* verified to extend the pinned one.
Pin ==
  IF /\ cp.size > 0
     /\ \/ pinned = EmptyHead
        \/ /\ "consistency" \in printed'
           /\ flags.from = pinned.size /\ flags.oldRoot = pinned.root
  THEN pinned' = cp /\ accepted' = accepted \cup {cp}
  ELSE UNCHANGED auditorVars

Succeed ==
  /\ exit' = 0
  /\ pc' = "ended"
  /\ Pin
  /\ UNCHANGED <<logVars, flags, cp, unread, invoked>>

Consistency ==
  /\ pc = "consistency" /\ ClaimsConsistency /\ ~MalformedConsistency
  /\ \E tile \in Served(cp.size) \cup Cached(cp.size) :
       /\ cache' = Kept(cp.size, tile)
       /\ IF ProvesConsistency(tile)
          THEN printed' = printed \cup {"consistency"} /\ Succeed
          ELSE Exit(1) /\ UNCHANGED unread

\* Also when no operation was requested.
SkipConsistency ==
  /\ pc = "consistency" /\ ~ClaimsConsistency
  /\ UNCHANGED <<cache, printed>>
  /\ Succeed

Unread == Exit(1) /\ unread' = TRUE /\ UNCHANGED cache

CheckpointUnread == pc = "checkpoint" /\ Unread

\* A tile cannot be read.
InclusionUnread ==
  /\ pc = "inclusion" /\ ClaimsInclusion /\ ~MalformedInclusion
  /\ Unread

ConsistencyUnread ==
  /\ pc = "consistency" /\ ClaimsConsistency /\ ~MalformedConsistency
  /\ Unread

-----------------------------------------------------------------------------
Next ==
  \/ AddLeaf \/ Grow \/ FreshStart
  \/ Invoke \/ ReadCheckpoint \/ CheckpointUnread
  \/ SkipInclusion \/ RefuseInclusion \/ Inclusion \/ InclusionUnread
  \/ SkipConsistency \/ RefuseConsistency \/ Consistency \/ ConsistencyUnread

Spec == Init /\ [][Next]_vars
-----------------------------------------------------------------------------
(* Properties. *)

Heads == [size : Nat, root : Seq(Leaves)]

\* Every variable stays in its set, and an exit code ends the verifier.
TypeOK ==
  /\ entries \in Seq(Leaves) /\ checkpoint \in Checkpoints
  /\ added \in 0..Cardinality(Requests) /\ fresh \in 0..MaxFresh
  /\ cache \in [1..Cardinality(Requests) -> Seq(Leaves)]
  /\ pc \in {"checkpoint", "inclusion", "consistency", "ended"}
  /\ exit \in IF pc = "ended" THEN {0, 1} ELSE {-1}
  /\ flags \in [index : Number, leaf : Leaves \cup {Garbled}, from : Number,
                to : Number, oldRoot : Seq(Leaves) \cup {Garbled}]
  /\ cp \in Heads /\ pinned \in Heads /\ accepted \subseteq Heads
  /\ printed \subseteq {"inclusion", "consistency"}
  /\ unread \in BOOLEAN /\ invoked \in 0..MaxInvocations

InclusionTrue == flags.index < cp.size /\ cp.root[flags.index + 1] = flags.leaf
ConsistencyTrue ==
  /\ flags.from \in 0..flags.to /\ flags.to \in 0..cp.size
  /\ flags.oldRoot = RootAt(cp.root, flags.from)

\* A claim printed as VERIFIED is true of the checkpoint that was read, though
\* the tiles are read later, from a log that may be another one by then.
PrintedIsTrue ==
  /\ "inclusion" \in printed => InclusionTrue
  /\ "consistency" \in printed => ConsistencyTrue

\* Exit code 0 means that every claim made by the flags was verified, of
\* several claims the first too.
ZeroMeansVerified ==
  exit = 0 /\ invoked > 0 =>
    /\ ClaimsInclusion => "inclusion" \in printed
    /\ ClaimsConsistency => "consistency" \in printed

\* The heads an auditor went on from are heads of one growing log, even when
\* the directory was removed between two invocations or within one: a start
\* with --fresh is always noticed.
AcceptedHeadsAreOneLog ==
  \A g, h \in accepted : g.size <= h.size => g.root = RootAt(h.root, g.size)

\* True claims that the verifier refuses none the less: a consistency to a tree
\* before the head it has read, whose root it would have to be given
\* (main.go:120-128), and one from the empty tree, which has no proof.
Unsupported == flags.to < cp.size \/ flags.from = 0

\* While no program is started with --fresh, a true claim it supports is never
\* refused, however the log grows and the checkpoint is replaced during the run.
TrueClaimsPass ==
  exit = 1 /\ ~unread /\ fresh = 0 =>
    \/ ClaimsInclusion /\ ~InclusionTrue
    \/ ClaimsConsistency /\ (~ConsistencyTrue \/ Unsupported)

\* docs/PUBLIC_ACCESS.md:16 and the header the server sends with each tile:
\* tiles are immutable, so a copy that was kept is what the path still serves.
TilesAreImmutable ==
  \A n \in DOMAIN cache :
    cache[n] # NoTile /\ n <= Len(entries) => cache[n] = RootAt(entries, n)
=============================================================================
