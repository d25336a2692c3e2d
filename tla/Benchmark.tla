----------------------------- MODULE Benchmark ------------------------------
(***************************************************************************)
(* Parts 1 and 2 of cmd/sprint4: the throughput run and, over the same log *)
(* directory, the latency run.  In the throughput run a ticker adds bursts *)
(* of entries and a goroutine for each entry awaits it, counts it in an    *)
(* atomic and then, under a mutex, stores its leaf hash at its log index,  *)
(* growing the slice with nil.  In the latency run clients draw an index,  *)
(* skip a nil, ask the reopened log for a proof and verify it.             *)
(***************************************************************************)
EXTENDS TesseraLog, FiniteSets

CONSTANTS EntriesPerTick,  \* entriesPerTick
          Clients,         \* concurrency of the latency run
          MaxDraws         \* bound on the indices a latency client draws

\* A request is the number of an entry, which also stands for its token.
ASSUME EntriesAssumption ==
  /\ EntriesPerTick \in Nat \ {0} /\ Leaves = Requests
  /\ IsFiniteSet(Requests) /\ Requests = 0..(Cardinality(Requests) - 1)
ASSUME ClientsAssumption == IsFiniteSet(Clients) /\ Clients # {}
ASSUME MaxDrawsAssumption == MaxDraws \in Nat

VARIABLES phase,       \* "submit", "wait", "reopen", "latency", "end"
          burst,       \* entries of the current tick still to be added
          added,       \* entryIdx
          awaiting,    \* the entries whose goroutine is in Await
          counted,     \* the entries counted whose hash is not stored yet
          confirmed,   \* the atomic counter
          leafHashes,  \* the shared slice
          asked,       \* the index each client has asked a proof for
          draws,       \* how many indices each client has drawn
          measured,    \* the clients that counted a request, its duration due
          totalReqs,   \* the atomic counter of verified requests
          durations,   \* how many durations were kept
          refused      \* history: the answered proofs that did not verify

throughputVars == <<burst, added, awaiting, counted, confirmed, leafHashes>>
latencyVars == <<asked, draws, measured, totalReqs, durations, refused>>
vars == <<tesseraVars, phase, throughputVars, latencyVars>>

Nil == -1

Init ==
  /\ TesseraInit
  /\ phase = "submit"
  /\ burst = 0 /\ added = 0
  /\ awaiting = {} /\ counted = {} /\ confirmed = 0
  /\ leafHashes = <<>>
  /\ asked = [c \in Clients |-> Nil] /\ draws = [c \in Clients |-> 0]
  /\ measured = {} /\ totalReqs = 0 /\ durations = 0 /\ refused = 0

-----------------------------------------------------------------------------
(* Throughput. *)

TickOneMore ==  \* mutant: a burst of one entry too many
  /\ phase = "submit" /\ burst = 0
  /\ added + EntriesPerTick <= Cardinality(Requests)
  /\ burst' = EntriesPerTick + 1
  /\ UNCHANGED <<tesseraVars, phase, added, awaiting, counted, confirmed,
                 leafHashes, latencyVars>>

\* The ticker fires; the bound on the run is the number of Requests.
Tick ==
  /\ phase = "submit" /\ burst = 0
  /\ added + EntriesPerTick <= Cardinality(Requests)
  /\ burst' = EntriesPerTick
  /\ UNCHANGED <<tesseraVars, phase, added, awaiting, counted, confirmed,
                 leafHashes, latencyVars>>

AddEntry ==
  /\ burst > 0
  /\ Add(added, added)
  /\ awaiting' = awaiting \cup {added}
  /\ added' = added + 1
  /\ burst' = burst - 1
  /\ UNCHANGED <<phase, counted, confirmed, leafHashes, latencyVars>>

\* The library refuses the Add (pushback) or fails its batch: the leaf never
\* enters the log, later entries get smaller indices, and Await will fail.
AddRefused ==
  /\ burst > 0
  /\ awaiting' = awaiting \cup {added}
  /\ added' = added + 1
  /\ burst' = burst - 1
  /\ UNCHANGED <<tesseraVars, phase, counted, confirmed, leafHashes, latencyVars>>

\* The deadline is taken by the select only between two bursts.
Deadline ==
  /\ phase = "submit" /\ burst = 0
  /\ phase' = "wait"
  /\ UNCHANGED <<tesseraVars, throughputVars, latencyVars>>

\* Await fails: the entry is not counted, and unless it was refused it may be in
\* the log all the same.
AwaitFails(i) ==
  /\ phase \in {"submit", "wait"} /\ i \in awaiting
  /\ awaiting' = awaiting \ {i}
  /\ UNCHANGED <<tesseraVars, phase, burst, added, counted, confirmed,
                 leafHashes, latencyVars>>

Confirm(i) ==
  /\ phase \in {"submit", "wait"} /\ i \in awaiting
  /\ \E a \in Awaiters : AwaitReturns(a, i)
  /\ awaiting' = awaiting \ {i}
  /\ counted' = counted \cup {i}
  /\ confirmed' = confirmed + 1
  /\ UNCHANGED <<tesseraVars, phase, burst, added, leafHashes, latencyVars>>

StoreAppended(i) ==  \* mutant: hashes are appended as they are confirmed
  /\ i \in counted
  /\ leafHashes' = Append(leafHashes, i)
  /\ counted' = counted \ {i}
  /\ UNCHANGED <<tesseraVars, phase, burst, added, awaiting, confirmed,
                 latencyVars>>

StoreResized(i) ==  \* mutant: the slice is cut to the new length
  /\ i \in counted
  /\ leafHashes' = [j \in 1..(index[i] + 1) |->
       IF j = index[i] + 1 THEN i
       ELSE IF j <= Len(leafHashes) THEN leafHashes[j] ELSE Nil]
  /\ counted' = counted \ {i}
  /\ UNCHANGED <<tesseraVars, phase, burst, added, awaiting, confirmed,
                 latencyVars>>

\* One critical section of lhMu.
Store(i) ==
  /\ i \in counted
  /\ LET n == IF Len(leafHashes) > index[i] THEN Len(leafHashes) ELSE index[i] + 1
     IN  leafHashes' = [j \in 1..n |->
           IF j = index[i] + 1 THEN i
           ELSE IF j <= Len(leafHashes) THEN leafHashes[j] ELSE Nil]
  /\ counted' = counted \ {i}
  /\ UNCHANGED <<tesseraVars, phase, burst, added, awaiting, confirmed,
                 latencyVars>>

\* wg.Wait returns, and the counters are read.
Return ==
  /\ phase = "wait" /\ awaiting = {} /\ counted = {}
  /\ phase' = "reopen"
  /\ UNCHANGED <<tesseraVars, throughputVars, latencyVars>>

\* The deferred shutdown has ended, with all of the queue in the log or, when
\* it fails, which is only a warning, with the rest of it lost.  The latency
\* run opens the directory again, unless nothing was confirmed.
ReopenForLatency ==
  /\ phase = "reopen"
  /\ IF confirmed = 0 THEN phase' = "end" /\ UNCHANGED tesseraVars
                      ELSE phase' = "latency" /\ Reopen
  /\ UNCHANGED <<throughputVars, latencyVars>>

-----------------------------------------------------------------------------
(* Latency. *)

Idle(c) == phase = "latency" /\ asked[c] = Nil /\ c \notin measured

\* An index is drawn; a nil is skipped without a request.
Draw(c) ==
  /\ Idle(c) /\ draws[c] < MaxDraws
  /\ draws' = [draws EXCEPT ![c] = @ + 1]
  /\ \E i \in 0..(Len(leafHashes) - 1) :
       asked' = [asked EXCEPT ![c] = IF leafHashes[i + 1] = Nil THEN Nil ELSE i]
  /\ UNCHANGED <<tesseraVars, phase, throughputVars, measured, totalReqs,
                 durations, refused>>

\* The request is not answered in five seconds, or not with 200 and hashes.
RequestFails(c) ==
  /\ phase = "latency" /\ asked[c] # Nil
  /\ asked' = [asked EXCEPT ![c] = Nil]
  /\ UNCHANGED <<tesseraVars, phase, throughputVars, draws, measured, totalReqs,
                 durations, refused>>

\* The server answers for the checkpoint it reads (handleProve in LogApi), and
\* the answer is verified for the hash the throughput run stored.
ProofArrives(c) ==
  /\ phase = "latency" /\ asked[c] # Nil
  /\ asked[c] < checkpoint.size
  /\ LET i == asked[c]
         n == checkpoint.size
         ok == VerifyInclusion(i, n, leafHashes[i + 1],
                               InclusionProof(entries, i, n), checkpoint.root)
     IN  IF ok
         THEN /\ totalReqs' = totalReqs + 1
              /\ measured' = measured \cup {c}
              /\ UNCHANGED refused
         ELSE /\ refused' = refused + 1
              /\ UNCHANGED <<totalReqs, measured>>
  /\ asked' = [asked EXCEPT ![c] = Nil]
  /\ UNCHANGED <<tesseraVars, phase, throughputVars, draws, durations>>

KeepDuration(c) ==
  /\ c \in measured
  /\ durations' = durations + 1
  /\ measured' = measured \ {c}
  /\ UNCHANGED <<tesseraVars, phase, throughputVars, asked, draws, totalReqs,
                 refused>>

LevelEndsEarly ==  \* mutant: a client is done when its last answer arrived
  /\ phase = "latency" /\ \A c \in Clients : asked[c] = Nil
  /\ phase' = "end"
  /\ UNCHANGED <<tesseraVars, throughputVars, latencyVars>>

\* A client ends at the top of its loop only, and the level when all have.
LevelEnds ==
  /\ \A c \in Clients : Idle(c)
  /\ phase' = "end"
  /\ UNCHANGED <<tesseraVars, throughputVars, latencyVars>>

-----------------------------------------------------------------------------
Background ==
  /\ phase # "end"
  /\ \/ IntegrateBatch
     \/ PublishCheckpoint
     \/ \E a \in Awaiters : PollCheckpoint(a)
  /\ UNCHANGED <<phase, throughputVars, latencyVars>>

Next ==
  \/ Tick \/ AddEntry \/ AddRefused \/ Deadline \/ Return \/ ReopenForLatency \/ LevelEnds
  \/ \E i \in Requests : AwaitFails(i) \/ Confirm(i) \/ Store(i)
  \/ \E c \in Clients :
       Draw(c) \/ RequestFails(c) \/ ProofArrives(c) \/ KeepDuration(c)
  \/ Background

Spec == Init /\ [][Next]_vars
-----------------------------------------------------------------------------
(* Properties. *)

\* Every variable stays in its set.
TypeOK ==
  /\ queue \in Seq([request : Requests, leaf : Leaves])
  /\ entries \in Seq(Leaves)
  /\ index \in [Requests -> Nat \cup {Unresolved}]
  /\ checkpoint \in Checkpoints /\ awaited \in [Awaiters -> Checkpoints]
  /\ phase \in {"submit", "wait", "reopen", "latency", "end"}
  /\ burst \in 0..EntriesPerTick /\ added \in 0..Cardinality(Requests)
  /\ awaiting \subseteq Requests /\ counted \subseteq Requests
  /\ confirmed \in Nat
  /\ leafHashes \in Seq(Requests \cup {Nil})
  /\ asked \in [Clients -> Nat \cup {Nil}]
  /\ draws \in [Clients -> 0..MaxDraws] /\ measured \subseteq Clients
  /\ {totalReqs, durations, refused} \subseteq Nat

\* A hash is stored at the index of its leaf in the log, in whatever order the
\* goroutines take the mutex and with whichever of the entries failing.
HashesAtTheirIndex ==
  \A i \in 1..Len(leafHashes) :
    leafHashes[i] # Nil => i <= Len(entries) /\ leafHashes[i] = entries[i]

Stored == {i \in 1..Len(leafHashes) : leafHashes[i] # Nil}

\* The counter runs ahead of the slice by the entries between the two steps,
\* and the two agree when the run returns: the entries the throughput is
\* computed from are those the latency run can draw.
ConfirmedAreStored ==
  /\ confirmed = Cardinality(Stored) + Cardinality(counted)
  /\ phase = "latency" => confirmed = Cardinality(Stored)

\* No answered proof is dropped for a wrong hash, so the number of requests of
\* a latency level counts all that the server answered.
NoProofRefused == refused = 0

\* One duration for each verified request when the level ends: the percentiles
\* and the request count are of the same requests.
DurationsMatchRequests ==
  /\ durations + Cardinality(measured) = totalReqs
  /\ phase = "end" => durations = totalReqs
=============================================================================
