-------------------------- MODULE BenchmarkProofs ---------------------------
(***************************************************************************)
(* Proofs about Benchmark, for any number of entries, of entries in a tick *)
(* and of latency clients: the slice that the goroutines fill, and the     *)
(* counters that are read when they have ended.                            *)
(***************************************************************************)
EXTENDS Benchmark, SequenceTheorems, FiniteSetTheorems, TLAPS

\* A queued leaf is that of its request, and a resolved future names the entry
\* that holds it; one of an earlier process stays in the log.
LogInv ==
  /\ checkpoint.size <= Len(entries)
  /\ checkpoint.root = RootAt(entries, checkpoint.size)
  /\ \A i \in 1..Len(queue) : queue[i].leaf = queue[i].request
  /\ \A r \in Requests : index[r] # Unresolved =>
       index[r] < Len(entries) /\ entries[index[r] + 1] = r

\* An entry is added, awaited, counted and stored, in this order; only entries
\* that are neither awaited nor to be stored any more are in the slice.
SliceInv ==
  /\ burst + added <= Cardinality(Requests)
  /\ burst > 0 => phase = "submit"
  /\ \A i \in awaiting \cup counted : i < added
  /\ \A i \in counted : index[i] # Unresolved /\ i \notin awaiting
  /\ phase \in {"reopen", "latency"} => awaiting = {} /\ counted = {}
  /\ \A i \in Stored :
       /\ i <= Len(entries) /\ leafHashes[i] = entries[i]
       /\ leafHashes[i] < added /\ leafHashes[i] \notin awaiting \cup counted
  /\ confirmed = Cardinality(Stored) + Cardinality(counted)

\* Clients are at work during the latency run only, and ask for stored indices.
LatencyInv ==
  /\ \A c \in Clients : asked[c] # Nil =>
       phase = "latency" /\ asked[c] + 1 \in Stored /\ c \notin measured
  /\ measured # {} => phase = "latency"
  /\ durations + Cardinality(measured) = totalReqs
  /\ refused = 0

IInv == TypeOK /\ LogInv /\ SliceInv /\ LatencyInv

-----------------------------------------------------------------------------
(* Facts used by several steps. *)

\* The constants.
LEMMA Sizes ==
  /\ Cardinality(Requests) \in Nat /\ EntriesPerTick \in Nat /\ EntriesPerTick > 0
  /\ Requests = 0..(Cardinality(Requests) - 1) /\ Leaves = Requests
  BY EntriesAssumption, FS_CardinalityType

\* The sets whose sizes are compared are finite.
LEMMA FiniteParts ==
  ASSUME TypeOK
  PROVE  /\ IsFiniteSet(Stored) /\ Cardinality(Stored) \in Nat
         /\ IsFiniteSet(counted) /\ Cardinality(counted) \in Nat
         /\ IsFiniteSet(measured) /\ Cardinality(measured) \in Nat
         /\ Stored \subseteq 1..Len(leafHashes)
  <1>1. Stored \subseteq 1..Len(leafHashes) /\ Len(leafHashes) \in Nat
    BY LenProperties DEF Stored, TypeOK
  <1>2. IsFiniteSet(1..Len(leafHashes))
    BY <1>1, FS_Interval
  <1>3. IsFiniteSet(Stored) /\ IsFiniteSet(counted) /\ IsFiniteSet(measured)
    BY <1>1, <1>2, FS_Subset, EntriesAssumption, ClientsAssumption DEF TypeOK
  <1>. QED  BY <1>1, <1>3, FS_CardinalityType

\* The clients rest outside the latency run.
LEMMA LatencyRests ==
  ASSUME IInv, phase # "latency", UNCHANGED latencyVars
  PROVE  LatencyInv'
  BY DEF IInv, LatencyInv, latencyVars

\* A step that leaves the log alone.
LEMMA LogStays ==
  LogInv /\ UNCHANGED <<queue, entries, index, checkpoint>> => LogInv'
  BY DEF LogInv

\* What a step does that leaves the goroutines and the slice alone, and adds
\* nothing.
LEMMA SliceStays ==
  ASSUME SliceInv,
         UNCHANGED <<added, awaiting, counted, confirmed, leafHashes, entries, index>>,
         burst' + added <= Cardinality(Requests),
         burst' > 0 => phase' = "submit",
         phase' \in {"reopen", "latency"} => awaiting = {} /\ counted = {}
  PROVE  SliceInv'
  BY DEF SliceInv, Stored

\* A step that leaves the clients and the slice alone.
LEMMA LatencyStays ==
  ASSUME LatencyInv, UNCHANGED <<phase, leafHashes, latencyVars>>
  PROVE  LatencyInv'
  BY DEF LatencyInv, latencyVars, Stored

-----------------------------------------------------------------------------
(* The steps of the throughput run. *)

\* Nothing is added yet.
LEMMA InitIInv == Init => IInv
  <1>. SUFFICES ASSUME Init PROVE IInv
    OBVIOUS
  <1>1. /\ queue = <<>> /\ entries = <<>> /\ leafHashes = <<>>
        /\ Len(queue) = 0 /\ Len(entries) = 0 /\ Len(leafHashes) = 0
    BY EmptySeq DEF Init, TesseraInit
  <1>2. /\ <<>> \in Seq(Leaves) /\ <<>> \in Seq(Requests \cup {Nil})
        /\ <<>> \in Seq([request : Requests, leaf : Leaves])
        /\ RootAt(<<>>, 0) = <<>>
    BY EmptySeq DEF RootAt
  <1>3. /\ checkpoint = [size |-> 0, root |-> <<>>]
        /\ awaited = [a \in Awaiters |-> [size |-> 0, root |-> <<>>]]
        /\ [size |-> 0, root |-> <<>>] \in Checkpoints
    BY <1>2 DEF Init, TesseraInit, NothingPolled, CheckpointAt, Checkpoints
  <1>4. TypeOK
    <2>1. /\ queue \in Seq([request : Requests, leaf : Leaves])
          /\ entries \in Seq(Leaves) /\ leafHashes \in Seq(Requests \cup {Nil})
          /\ checkpoint \in Checkpoints /\ awaited \in [Awaiters -> Checkpoints]
      BY <1>1, <1>2, <1>3
    <2>2. index \in [Requests -> Nat \cup {Unresolved}]
      BY DEF Init, TesseraInit
    <2>. QED  BY <2>1, <2>2, Sizes, MaxDrawsAssumption DEF Init, TypeOK
  <1>5. LogInv
    <2>1. \A r \in Requests : index[r] = Unresolved
      BY DEF Init, TesseraInit
    <2>. QED  BY <1>1, <1>2, <1>3, <2>1 DEF LogInv
  <1>6. Stored = {} /\ Cardinality(Stored) = 0 /\ Cardinality(counted) = 0
        /\ Cardinality(measured) = 0
    <2>1. Stored = {} /\ counted = {} /\ measured = {}
      BY <1>1 DEF Stored, Init
    <2>. QED  BY <2>1, FS_EmptySet
  <1>7. SliceInv
    BY <1>6, Sizes DEF Init, SliceInv
  <1>8. LatencyInv
    BY <1>6 DEF Init, LatencyInv
  <1>. QED  BY <1>4, <1>5, <1>7, <1>8 DEF IInv

\* A tick starts a burst that the entries left are enough for.
LEMMA TickStep == IInv /\ Tick => IInv'
  <1>. SUFFICES ASSUME IInv, Tick PROVE IInv'
    OBVIOUS
  <1>. USE DEF IInv
  <1>1. /\ phase = "submit" /\ burst' = EntriesPerTick
        /\ added + EntriesPerTick <= Cardinality(Requests)
        /\ UNCHANGED <<tesseraVars, phase, added, awaiting, counted, confirmed,
                       leafHashes, latencyVars>>
    BY DEF Tick
  <1>2. TypeOK'
    BY <1>1, Sizes DEF TypeOK, tesseraVars, latencyVars
  <1>3. LogInv' /\ LatencyInv'
    BY <1>1, LogStays, LatencyRests DEF tesseraVars
  <1>4. SliceInv'
    BY <1>1, Sizes, SliceStays DEF TypeOK, tesseraVars
  <1>. QED  BY <1>2, <1>3, <1>4

\* The next entry of the burst is queued or refused, and awaited by a goroutine
\* of its own.
LEMMA AddStep == IInv /\ (AddEntry \/ AddRefused) => IInv'
  <1>. SUFFICES ASSUME IInv, AddEntry \/ AddRefused PROVE IInv'
    OBVIOUS
  <1>. USE DEF IInv
  <1>1. /\ burst > 0 /\ burst' = burst - 1 /\ added' = added + 1
        /\ awaiting' = awaiting \cup {added}
        /\ \/ queue' = Append(queue, [request |-> added, leaf |-> added])
           \/ queue' = queue
        /\ UNCHANGED <<entries, index, checkpoint, awaited, phase, counted,
                       confirmed, leafHashes, latencyVars>>
    BY DEF AddEntry, AddRefused, Add, tesseraVars
  <1>2. /\ added \in Nat /\ burst \in Nat /\ added + burst <= Cardinality(Requests)
        /\ added \in Requests /\ added \in Leaves /\ phase = "submit"
    BY <1>1, Sizes DEF TypeOK, SliceInv
  <1>3. /\ queue' \in Seq([request : Requests, leaf : Leaves])
        /\ \A i \in 1..Len(queue') : queue'[i].leaf = queue'[i].request
    <2>1. CASE queue' = queue
      BY <2>1 DEF TypeOK, LogInv
    <2>2. CASE queue' = Append(queue, [request |-> added, leaf |-> added])
      <3>1. [request |-> added, leaf |-> added] \in [request : Requests, leaf : Leaves]
        BY <1>2
      <3>2. /\ queue' \in Seq([request : Requests, leaf : Leaves])
            /\ Len(queue') = Len(queue) + 1 /\ Len(queue) \in Nat
            /\ \A i \in 1..Len(queue) : queue'[i] = queue[i]
            /\ queue'[Len(queue) + 1] = [request |-> added, leaf |-> added]
        BY <2>2, <3>1, AppendProperties, LenProperties DEF TypeOK
      <3>3. \A i \in 1..Len(queue') : i \in 1..Len(queue) \/ i = Len(queue) + 1
        BY <3>2
      <3>4. /\ queue'[Len(queue) + 1].leaf = added
            /\ queue'[Len(queue) + 1].request = added
        BY <3>2
      <3>. QED  BY <3>2, <3>3, <3>4 DEF LogInv
    <2>. QED  BY <1>1, <2>1, <2>2
  <1>4. TypeOK'
    <2>1. burst' \in 0..EntriesPerTick /\ added' \in 0..Cardinality(Requests)
      BY <1>1, <1>2, Sizes DEF TypeOK
    <2>. QED  BY <1>1, <1>2, <1>3, <2>1 DEF TypeOK, latencyVars
  <1>5. LogInv'
    BY <1>1, <1>3 DEF LogInv
  <1>6. SliceInv'
    <2>1. Stored' = Stored
      BY <1>1 DEF Stored
    <2>2. \A i \in awaiting' \cup counted' : i < added'
      BY <1>1, <1>2, Sizes DEF TypeOK, SliceInv
    <2>3. \A i \in counted' : index'[i] # Unresolved /\ i \notin awaiting'
      <3>1. \A i \in counted : i < added /\ i # added
        BY <1>2, Sizes DEF TypeOK, SliceInv
      <3>. QED  BY <1>1, <3>1 DEF SliceInv
    <2>4. ASSUME NEW i \in Stored
          PROVE  /\ i <= Len(entries) /\ leafHashes[i] = entries[i]
                 /\ leafHashes[i] < added' /\ leafHashes[i] \notin awaiting' \cup counted'
      <3>1. leafHashes[i] \in Requests
        BY <2>4, ElementOfSeq, LenProperties DEF Stored, TypeOK
      <3>2. /\ i <= Len(entries) /\ leafHashes[i] = entries[i]
            /\ leafHashes[i] < added /\ leafHashes[i] \notin awaiting \cup counted
        BY <2>4 DEF SliceInv
      <3>3. leafHashes[i] < added + 1 /\ leafHashes[i] # added
        BY <1>2, <3>1, <3>2, Sizes
      <3>. QED  BY <1>1, <3>2, <3>3
    <2>5. burst' + added' <= Cardinality(Requests)
      BY <1>1, <1>2
    <2>. QED  BY <1>1, <1>2, <2>1, <2>2, <2>3, <2>4, <2>5 DEF SliceInv
  <1>7. LatencyInv'
    BY <1>1, <1>2, LatencyRests
  <1>. QED  BY <1>4, <1>5, <1>6, <1>7

\* The run stops adding, and returns when all goroutines have ended.
LEMMA DeadlineStep == IInv /\ (Deadline \/ Return) => IInv'
  <1>. SUFFICES ASSUME IInv, Deadline \/ Return PROVE IInv'
    OBVIOUS
  <1>. USE DEF IInv
  <1>1. /\ phase # "latency" /\ UNCHANGED <<tesseraVars, throughputVars, latencyVars>>
        /\ phase' \in {"wait", "reopen"}
        /\ phase' = "reopen" => awaiting = {} /\ counted = {}
        /\ burst = 0
    BY Sizes DEF Deadline, Return, SliceInv, TypeOK
  <1>2. TypeOK'
    BY <1>1 DEF TypeOK, tesseraVars, throughputVars, latencyVars
  <1>3. LogInv' /\ LatencyInv'
    BY <1>1, LogStays, LatencyRests DEF tesseraVars
  <1>4. SliceInv'
    <2>1. burst' + added <= Cardinality(Requests) /\ ~(burst' > 0)
      BY <1>1 DEF SliceInv, throughputVars
    <2>. QED  BY <1>1, <2>1, SliceStays DEF tesseraVars, throughputVars
  <1>. QED  BY <1>2, <1>3, <1>4

\* An entry that is not confirmed is not counted.
LEMMA AwaitFailsStep ==
  ASSUME IInv, NEW i \in Requests, AwaitFails(i)
  PROVE  IInv'
  <1>. USE DEF IInv
  <1>1. /\ phase \in {"submit", "wait"} /\ awaiting' = awaiting \ {i}
        /\ UNCHANGED <<tesseraVars, phase, burst, added, counted, confirmed,
                       leafHashes, latencyVars>>
    BY DEF AwaitFails
  <1>2. TypeOK'
    BY <1>1 DEF TypeOK, tesseraVars, latencyVars
  <1>3. LogInv' /\ LatencyInv'
    BY <1>1, LogStays, LatencyRests DEF tesseraVars
  <1>4. SliceInv'
    BY <1>1 DEF SliceInv, Stored, tesseraVars
  <1>. QED  BY <1>2, <1>3, <1>4

\* An entry is counted before its hash is stored.
LEMMA ConfirmStep ==
  ASSUME IInv, NEW i \in Requests, Confirm(i)
  PROVE  IInv'
  <1>. USE DEF IInv
  <1>1. /\ phase \in {"submit", "wait"} /\ i \in awaiting /\ index[i] # Unresolved
        /\ awaiting' = awaiting \ {i} /\ counted' = counted \cup {i}
        /\ confirmed' = confirmed + 1
        /\ UNCHANGED <<tesseraVars, phase, burst, added, leafHashes, latencyVars>>
    BY DEF Confirm, AwaitReturns
  <1>2. TypeOK'
    BY <1>1 DEF TypeOK, tesseraVars, latencyVars
  <1>3. LogInv' /\ LatencyInv'
    BY <1>1, LogStays, LatencyRests DEF tesseraVars
  <1>4. SliceInv'
    <2>1. Stored' = Stored
      BY <1>1 DEF Stored
    <2>2. Cardinality(counted') = Cardinality(counted) + 1
      BY <1>1, FiniteParts, FS_AddElement DEF SliceInv
    <2>3. confirmed' = Cardinality(Stored') + Cardinality(counted')
      BY <1>1, <2>1, <2>2, FiniteParts DEF SliceInv
    <2>. QED  BY <1>1, <2>1, <2>3 DEF SliceInv, tesseraVars
  <1>. QED  BY <1>2, <1>3, <1>4

\* The hash goes to the index of its leaf, which no other entry has filled.
LEMMA StoreStep ==
  ASSUME IInv, NEW i \in Requests, Store(i)
  PROVE  IInv'
  <1>. USE DEF IInv
  <1>. DEFINE p == index[i] + 1
              n == IF Len(leafHashes) > index[i] THEN Len(leafHashes) ELSE p
  <1>1. /\ i \in counted /\ counted' = counted \ {i}
        /\ leafHashes' = [j \in 1..n |->
              IF j = p THEN i
              ELSE IF j <= Len(leafHashes) THEN leafHashes[j] ELSE Nil]
        /\ UNCHANGED <<tesseraVars, phase, burst, added, awaiting, confirmed,
                       latencyVars>>
    BY DEF Store
  <1>2. /\ index[i] \in Nat /\ index[i] < Len(entries) /\ entries[p] = i
        /\ i < added /\ i \notin awaiting
    BY <1>1 DEF TypeOK, LogInv, SliceInv
  <1>3. /\ Len(leafHashes) \in Nat /\ Len(entries) \in Nat
        /\ \A j \in 1..Len(leafHashes) : leafHashes[j] \in Requests \cup {Nil}
    BY ElementOfSeq, LenProperties DEF TypeOK
  <1>4. n \in Nat /\ p \in 1..n /\ Len(leafHashes) <= n
    BY <1>2, <1>3
  <1>. HIDE DEF n, p
  <1>5. leafHashes' \in Seq(Requests \cup {Nil}) /\ Len(leafHashes') = n
    <2>1. \A j \in 1..n : (IF j = p THEN i ELSE IF j <= Len(leafHashes)
                           THEN leafHashes[j] ELSE Nil) \in Requests \cup {Nil}
      BY <1>3, <1>4
    <2>. QED  BY <1>1, <1>4, <2>1
  <1>6. /\ leafHashes'[p] = i
        /\ \A j \in 1..n : j # p => leafHashes'[j] =
             IF j <= Len(leafHashes) THEN leafHashes[j] ELSE Nil
    BY <1>1, <1>4
  <1>7. i # Nil
    BY Sizes DEF Nil
  <1>8. Stored' = Stored \cup {p}
    BY <1>3, <1>4, <1>5, <1>6, <1>7 DEF Stored
  <1>9. p \notin Stored
    <2>. SUFFICES ASSUME p \in Stored PROVE FALSE
      OBVIOUS
    <2>1. leafHashes[p] = entries[p] /\ leafHashes[p] \notin counted
      BY DEF SliceInv
    <2>. QED  BY <1>1, <1>2, <2>1
  <1>10. TypeOK'
    BY <1>1, <1>5 DEF TypeOK, tesseraVars, latencyVars
  <1>11. phase \in {"submit", "wait", "end"}
    BY <1>1 DEF SliceInv, TypeOK
  <1>12. LogInv' /\ LatencyInv'
    BY <1>1, <1>11, LogStays, LatencyRests DEF tesseraVars
  <1>13. SliceInv'
    <2>1. /\ Cardinality(Stored') = Cardinality(Stored) + 1
          /\ Cardinality(counted') = Cardinality(counted) - 1
      BY <1>1, <1>8, <1>9, FiniteParts, FS_AddElement, FS_RemoveElement
    <2>2. confirmed' = Cardinality(Stored') + Cardinality(counted')
      BY <1>1, <2>1, FiniteParts DEF SliceInv
    <2>3. ASSUME NEW j \in Stored'
          PROVE  /\ j <= Len(entries) /\ leafHashes'[j] = entries[j]
                 /\ leafHashes'[j] < added
                 /\ leafHashes'[j] \notin awaiting \cup counted'
      <3>1. CASE j = p
        <4>1. p <= Len(entries)
          BY <1>2, <1>3 DEF p
        <4>. QED  BY <1>1, <1>2, <1>6, <3>1, <4>1
      <3>2. CASE j # p
        <4>1. j \in Stored /\ j \in 1..Len(leafHashes) /\ j \in 1..n
          BY <1>3, <1>4, <1>8, <3>2 DEF Stored
        <4>2. leafHashes'[j] = leafHashes[j]
          BY <1>6, <3>2, <4>1
        <4>. QED  BY <1>1, <4>1, <4>2 DEF SliceInv
      <3>. QED  BY <3>1, <3>2
    <2>. QED  BY <1>1, <2>2, <2>3 DEF SliceInv, tesseraVars
  <1>. QED  BY <1>10, <1>12, <1>13

\* A new process opens the log: it has no futures and an empty queue.
LEMMA ReopenStep == IInv /\ ReopenForLatency => IInv'
  <1>. SUFFICES ASSUME IInv, ReopenForLatency PROVE IInv'
    OBVIOUS
  <1>. USE DEF IInv
  <1>1. /\ phase = "reopen" /\ UNCHANGED <<throughputVars, latencyVars>>
        /\ awaiting = {} /\ counted = {} /\ burst = 0
    BY Sizes DEF ReopenForLatency, SliceInv, TypeOK
  <1>2. LatencyInv'
    BY <1>1, LatencyRests
  <1>3. CASE phase' = "end" /\ UNCHANGED tesseraVars
    <2>1. TypeOK'
      BY <1>1, <1>3 DEF TypeOK, tesseraVars, throughputVars, latencyVars
    <2>2. LogInv'
      BY <1>3, LogStays DEF tesseraVars
    <2>3. burst' + added <= Cardinality(Requests) /\ ~(burst' > 0)
      BY <1>1 DEF SliceInv, throughputVars
    <2>4. SliceInv'
      BY <1>1, <1>3, <2>3, SliceStays DEF tesseraVars, throughputVars
    <2>. QED  BY <1>2, <2>1, <2>2, <2>4
  <1>4. CASE phase' = "latency" /\ Reopen
    <2>1. /\ queue' = <<>> /\ index' = [r \in Requests |-> Unresolved]
          /\ awaited' = [a \in Awaiters |-> [size |-> 0, root |-> <<>>]]
          /\ UNCHANGED <<entries, checkpoint>>
      BY <1>4 DEF Reopen, NothingPolled, CheckpointAt, RootAt
    <2>2. /\ queue' \in Seq([request : Requests, leaf : Leaves]) /\ Len(queue') = 0
          /\ [size |-> 0, root |-> <<>>] \in Checkpoints
      BY <2>1, EmptySeq DEF Checkpoints
    <2>3. TypeOK'
      BY <1>1, <1>4, <2>1, <2>2 DEF TypeOK, throughputVars, latencyVars
    <2>4. LogInv'
      BY <2>1, <2>2 DEF LogInv
    <2>5. SliceInv'
      BY <1>1, <1>4, <2>1 DEF SliceInv, Stored, throughputVars
    <2>. QED  BY <1>2, <2>3, <2>4, <2>5
  <1>. QED  BY <1>3, <1>4 DEF ReopenForLatency

-----------------------------------------------------------------------------
(* The steps of the latency run. *)

\* A step of one client leaves the log and the slice as they were.
LEMMA ClientStays ==
  ASSUME IInv, UNCHANGED <<tesseraVars, phase, throughputVars>>
  PROVE  LogInv' /\ SliceInv'
  BY DEF IInv, LogInv, SliceInv, Stored, tesseraVars, throughputVars

\* A client asks for a stored index only.
LEMMA DrawStep ==
  ASSUME IInv, NEW c \in Clients, Draw(c)
  PROVE  IInv'
  <1>. USE DEF IInv
  <1>1. PICK i \in 0..(Len(leafHashes) - 1) :
          asked' = [asked EXCEPT ![c] = IF leafHashes[i + 1] = Nil THEN Nil ELSE i]
    BY DEF Draw
  <1>2. /\ phase = "latency" /\ c \notin measured /\ draws[c] < MaxDraws
        /\ draws' = [draws EXCEPT ![c] = draws[c] + 1]
        /\ UNCHANGED <<tesseraVars, phase, throughputVars, measured, totalReqs,
                       durations, refused>>
    BY DEF Draw, Idle
  <1>3. i + 1 \in 1..Len(leafHashes) /\ i \in Nat
    BY LenProperties DEF TypeOK
  <1>4. TypeOK'
    <2>1. draws' \in [Clients -> 0..MaxDraws]
      BY <1>2, MaxDrawsAssumption DEF TypeOK
    <2>2. asked' \in [Clients -> Nat \cup {Nil}]
      BY <1>1, <1>3 DEF TypeOK
    <2>. QED  BY <1>2, <2>1, <2>2 DEF TypeOK, tesseraVars, throughputVars
  <1>5. LatencyInv'
    <2>1. Stored' = Stored
      BY <1>2 DEF Stored, throughputVars
    <2>2. \A d \in Clients : asked'[d] # Nil =>
            asked'[d] + 1 \in Stored /\ d \notin measured
      BY <1>1, <1>2, <1>3 DEF LatencyInv, Stored, TypeOK
    <2>. QED  BY <1>2, <2>1, <2>2 DEF LatencyInv
  <1>. QED  BY <1>2, <1>4, <1>5, ClientStays

\* A request without an answer leaves nothing behind.
LEMMA RequestFailsStep ==
  ASSUME IInv, NEW c \in Clients, RequestFails(c)
  PROVE  IInv'
  <1>. USE DEF IInv
  <1>1. /\ asked' = [asked EXCEPT ![c] = Nil]
        /\ UNCHANGED <<tesseraVars, phase, throughputVars, draws, measured,
                       totalReqs, durations, refused>>
    BY DEF RequestFails
  <1>2. TypeOK'
    BY <1>1 DEF TypeOK, tesseraVars, throughputVars
  <1>3. LatencyInv'
    BY <1>1 DEF LatencyInv, Stored, throughputVars, TypeOK
  <1>. QED  BY <1>1, <1>2, <1>3, ClientStays

\* The stored hash is that of the entry the proof is for.
LEMMA StoredVerifies ==
  ASSUME IInv, NEW i \in Nat, i + 1 \in Stored, i < checkpoint.size
  PROVE  VerifyInclusion(i, checkpoint.size, leafHashes[i + 1],
           InclusionProof(entries, i, checkpoint.size), checkpoint.root)
  <1>. DEFINE n == checkpoint.size
              tree == RootAt(entries, n)
  <1>1. n \in 0..Len(entries) /\ entries \in Seq(Leaves) /\ checkpoint.root = tree
    BY LenProperties DEF IInv, TypeOK, LogInv, Checkpoints
  <1>2. /\ tree \in Seq(Leaves) /\ Len(tree) = n
        /\ \A j \in 1..n : tree[j] = entries[j]
    BY <1>1 DEF RootAt
  <1>3. i + 1 \in 1..n /\ leafHashes[i + 1] = entries[i + 1]
    BY <1>1 DEF IInv, SliceInv
  <1>. HIDE DEF tree
  <1>4. tree = [tree EXCEPT ![i + 1] = leafHashes[i + 1]]
    BY <1>2, <1>3, LenProperties
  <1>5. InclusionProof(entries, i, n) = [index |-> i, size |-> n, tree |-> tree]
    BY DEF InclusionProof, tree
  <1>. QED  BY <1>1, <1>4, <1>5 DEF VerifyInclusion

\* The answer is counted and its duration is due.
LEMMA ProofArrivesStep ==
  ASSUME IInv, NEW c \in Clients, ProofArrives(c)
  PROVE  IInv'
  <1>. USE DEF IInv
  <1>1. /\ phase = "latency" /\ asked[c] # Nil /\ asked[c] < checkpoint.size
        /\ asked' = [asked EXCEPT ![c] = Nil]
        /\ UNCHANGED <<tesseraVars, phase, throughputVars, draws, durations>>
    BY DEF ProofArrives
  <1>2. asked[c] \in Nat /\ asked[c] + 1 \in Stored
    BY <1>1 DEF TypeOK, LatencyInv
  <1>3. /\ totalReqs' = totalReqs + 1 /\ measured' = measured \cup {c}
        /\ refused' = refused
    BY <1>1, <1>2, StoredVerifies DEF ProofArrives
  <1>4. TypeOK'
    BY <1>1, <1>3 DEF TypeOK, tesseraVars, throughputVars
  <1>5. Cardinality(measured') = Cardinality(measured) + 1
    BY <1>1, <1>3, FiniteParts, FS_AddElement DEF LatencyInv
  <1>6. durations' + Cardinality(measured') = totalReqs'
    BY <1>1, <1>3, <1>5, FiniteParts DEF LatencyInv, TypeOK
  <1>7. LatencyInv'
    BY <1>1, <1>3, <1>6 DEF LatencyInv, Stored, throughputVars, TypeOK
  <1>. QED  BY <1>1, <1>4, <1>7, ClientStays

\* The duration is kept.
LEMMA KeepDurationStep ==
  ASSUME IInv, NEW c \in Clients, KeepDuration(c)
  PROVE  IInv'
  <1>. USE DEF IInv
  <1>1. /\ c \in measured /\ durations' = durations + 1 /\ measured' = measured \ {c}
        /\ UNCHANGED <<tesseraVars, phase, throughputVars, asked, draws, totalReqs,
                       refused>>
    BY DEF KeepDuration
  <1>2. TypeOK'
    BY <1>1 DEF TypeOK, tesseraVars, throughputVars
  <1>3. Cardinality(measured') = Cardinality(measured) - 1
    BY <1>1, FiniteParts, FS_RemoveElement
  <1>4. durations' + Cardinality(measured') = totalReqs'
    BY <1>1, <1>3, FiniteParts DEF LatencyInv, TypeOK
  <1>5. LatencyInv'
    BY <1>1, <1>4 DEF LatencyInv, Stored, throughputVars
  <1>. QED  BY <1>1, <1>2, <1>5, ClientStays

\* The level ends when no duration is due.
LEMMA LevelEndsStep == IInv /\ LevelEnds => IInv'
  <1>. SUFFICES ASSUME IInv, LevelEnds PROVE IInv'
    OBVIOUS
  <1>. USE DEF IInv
  <1>1. /\ phase' = "end" /\ UNCHANGED <<tesseraVars, throughputVars, latencyVars>>
        /\ phase = "latency" /\ measured = {} /\ \A c \in Clients : asked[c] = Nil
    BY ClientsAssumption DEF LevelEnds, Idle, TypeOK
  <1>2. TypeOK'
    BY <1>1 DEF TypeOK, tesseraVars, throughputVars, latencyVars
  <1>3. LogInv'
    BY <1>1, LogStays DEF tesseraVars
  <1>4. burst' + added <= Cardinality(Requests) /\ ~(burst' > 0)
    BY <1>1, Sizes DEF SliceInv, TypeOK, throughputVars
  <1>5. SliceInv'
    BY <1>1, <1>4, SliceStays DEF tesseraVars, throughputVars
  <1>6. LatencyInv'
    BY <1>1 DEF LatencyInv, latencyVars
  <1>. QED  BY <1>2, <1>3, <1>5, <1>6

-----------------------------------------------------------------------------
(* The steps of the library. *)

\* A batch resolves futures to the entries that hold their leaves.
LEMMA IntegrateStep ==
  IInv /\ IntegrateBatch /\ UNCHANGED <<phase, throughputVars, latencyVars>> => IInv'
  <1>. SUFFICES ASSUME IInv, IntegrateBatch,
                       UNCHANGED <<phase, throughputVars, latencyVars>>
                PROVE  IInv'
    OBVIOUS
  <1>. USE DEF IInv
  <1>1. PICK n \in 1..Len(queue) :
          /\ entries' = entries \o [i \in 1..n |-> queue[i].leaf]
          /\ index' = [r \in Requests |->
               IF \E i \in 1..n : queue[i].request = r
               THEN Len(entries) + Position(r, n) - 1
               ELSE index[r]]
          /\ queue' = SubSeq(queue, n + 1, Len(queue))
    BY DEF IntegrateBatch
  <1>2. UNCHANGED <<checkpoint, awaited>>
    BY DEF IntegrateBatch
  <1>3. /\ queue \in Seq([request : Requests, leaf : Leaves]) /\ Len(queue) \in Nat
        /\ entries \in Seq(Leaves) /\ Len(entries) \in Nat
        /\ \A i \in 1..Len(queue) : queue[i] \in [request : Requests, leaf : Leaves]
    BY LenProperties, ElementOfSeq DEF TypeOK
  <1>. DEFINE b == [i \in 1..n |-> queue[i].leaf]
  <1>4. b \in Seq(Leaves) /\ Len(b) = n /\ \A i \in 1..n : b[i] = queue[i].leaf
    <2>1. \A i \in 1..n : queue[i].leaf \in Leaves
      BY <1>3
    <2>. QED  BY <2>1
  <1>5. /\ queue' \in Seq([request : Requests, leaf : Leaves])
        /\ Len(queue') = Len(queue) - n
        /\ \A i \in 1..Len(queue') : n + i \in 1..Len(queue) /\ queue'[i] = queue[n + i]
    <2>1. /\ n + 1 \in Int /\ Len(queue) \in Int
          /\ \A i \in (n + 1)..Len(queue) :
               queue[i] \in [request : Requests, leaf : Leaves]
      BY <1>3
    <2>2. queue' \in Seq([request : Requests, leaf : Leaves])
      BY <1>1, <2>1, SubSeqProperties
    <2>3. /\ Len(queue') = Len(queue) - n
          /\ \A i \in 1..(Len(queue) - n) : queue'[i] = queue[n + i]
      BY <1>1, <1>3
    <2>. QED  BY <1>3, <2>2, <2>3
  <1>. HIDE DEF b
  <1>6. entries' = entries \o b
    BY <1>1 DEF b
  <1>7. /\ entries' \in Seq(Leaves) /\ Len(entries') = Len(entries) + n
        /\ \A j \in 1..Len(entries) : entries'[j] = entries[j]
        /\ \A j \in 1..n : entries'[Len(entries) + j] = b[j]
    <2>1. /\ entries' \in Seq(Leaves) /\ Len(entries') = Len(entries) + Len(b)
          /\ \A j \in 1..(Len(entries) + Len(b)) : entries'[j] =
               IF j <= Len(entries) THEN entries[j] ELSE b[j - Len(entries)]
      BY <1>3, <1>4, <1>6, ConcatProperties
    <2>2. ASSUME NEW j \in 1..n
          PROVE  /\ Len(entries) + j \in 1..(Len(entries) + n)
                 /\ ~(Len(entries) + j <= Len(entries))
                 /\ (Len(entries) + j) - Len(entries) = j
      BY <1>3
    <2>3. \A j \in 1..n : entries'[Len(entries) + j] = b[j]
      BY <1>4, <2>1, <2>2
    <2>4. \A j \in 1..Len(entries) : entries'[j] = entries[j]
      BY <1>3, <1>4, <2>1
    <2>. QED  BY <1>4, <2>1, <2>3, <2>4
  <1>8. ASSUME NEW r \in Requests
        PROVE  \/ index'[r] = index[r]
               \/ /\ index'[r] \in Nat /\ index'[r] < Len(entries')
                  /\ entries'[index'[r] + 1] = r
    <2>1. CASE ~ \E i \in 1..n : queue[i].request = r
      BY <1>1, <2>1
    <2>2. CASE \E i \in 1..n : queue[i].request = r
      <3>. DEFINE k == Position(r, n)
      <3>1. k \in 1..n /\ queue[k].request = r
        BY <2>2 DEF Position
      <3>2. index'[r] = Len(entries) + k - 1
        BY <1>1, <2>2
      <3>. HIDE DEF k
      <3>3. /\ index'[r] \in Nat /\ index'[r] < Len(entries')
            /\ index'[r] + 1 = Len(entries) + k
        BY <1>3, <1>7, <3>1, <3>2
      <3>4. k \in 1..Len(queue)
        BY <1>3, <3>1
      <3>5. entries'[Len(entries) + k] = r
        BY <1>4, <1>7, <3>1, <3>4 DEF LogInv
      <3>. QED  BY <3>3, <3>5
    <2>. QED  BY <2>1, <2>2
  <1>9. TypeOK'
    <2>1. index' \in [Requests -> Nat \cup {Unresolved}]
      <3>1. \A r \in Requests : index'[r] \in Nat \cup {Unresolved}
        BY <1>8 DEF TypeOK
      <3>. QED  BY <1>1, <3>1
    <2>. QED  BY <1>2, <1>5, <1>7, <2>1 DEF TypeOK, throughputVars, latencyVars
  <1>10. LogInv'
    <2>1. \A i \in 1..Len(queue') : queue'[i].leaf = queue'[i].request
      BY <1>5 DEF LogInv
    <2>2. ASSUME NEW r \in Requests, index'[r] # Unresolved
          PROVE  index'[r] < Len(entries') /\ entries'[index'[r] + 1] = r
      <3>1. CASE index'[r] = index[r]
        <4>1. /\ index[r] \in Nat /\ index[r] < Len(entries)
              /\ entries[index[r] + 1] = r
          BY <2>2, <3>1 DEF LogInv, TypeOK
        <4>2. index[r] + 1 \in 1..Len(entries) /\ index[r] < Len(entries')
          BY <1>3, <1>7, <4>1
        <4>. QED  BY <1>7, <3>1, <4>1, <4>2
      <3>. QED  BY <1>8, <3>1
    <2>3. checkpoint.size \in 0..Len(entries)
      BY <1>3 DEF LogInv, TypeOK, Checkpoints
    <2>4. RootAt(entries', checkpoint.size) = RootAt(entries, checkpoint.size)
      <3>1. CASE checkpoint.size = 0
        BY <3>1, SubSeqEmpty DEF RootAt
      <3>2. CASE checkpoint.size # 0
        BY <1>3, <1>4, <1>6, <2>3, <3>2, SubSeqOfConcat1 DEF RootAt
      <3>. QED  BY <3>1, <3>2
    <2>. QED  BY <1>2, <1>3, <1>7, <2>1, <2>2, <2>3, <2>4 DEF LogInv
  <1>11. SliceInv'
    <2>1. UNCHANGED <<phase, burst, added, awaiting, counted, confirmed, leafHashes>>
      BY DEF throughputVars
    <2>2. Stored' = Stored
      BY <2>1 DEF Stored
    <2>3. ASSUME NEW i \in Stored
          PROVE  i <= Len(entries') /\ leafHashes[i] = entries'[i]
      <3>1. i \in 1..Len(entries) /\ leafHashes[i] = entries[i]
        BY <1>3 DEF SliceInv, Stored
      <3>. QED  BY <1>3, <1>7, <3>1
    <2>4. ASSUME NEW i \in counted PROVE index'[i] # Unresolved
      <3>1. i \in Requests /\ index[i] # Unresolved
        BY <2>4 DEF SliceInv, TypeOK
      <3>. QED  BY <1>8, <3>1 DEF Unresolved
    <2>. QED  BY <2>1, <2>2, <2>3, <2>4 DEF SliceInv
  <1>12. LatencyInv'
    BY LatencyStays DEF throughputVars
  <1>. QED  BY <1>9, <1>10, <1>11, <1>12

\* A new checkpoint is a head of the log, and so is the copy of one.
LEMMA PublishStep ==
  ASSUME IInv, PublishCheckpoint \/ \E a \in Awaiters : PollCheckpoint(a),
         UNCHANGED <<phase, throughputVars, latencyVars>>
  PROVE  IInv'
  <1>. USE DEF IInv
  <1>1. UNCHANGED <<queue, entries, index>>
    BY DEF PublishCheckpoint, PollCheckpoint
  <1>2. Len(entries) \in Nat /\ RootAt(entries, Len(entries)) \in Seq(Leaves)
    BY LenProperties DEF TypeOK, RootAt
  <1>3. /\ checkpoint' \in Checkpoints /\ awaited' \in [Awaiters -> Checkpoints]
        /\ checkpoint'.size <= Len(entries)
        /\ checkpoint'.root = RootAt(entries, checkpoint'.size)
    <2>1. CASE PublishCheckpoint
      <3>1. checkpoint' = [size |-> Len(entries), root |-> RootAt(entries, Len(entries))]
        BY <2>1 DEF PublishCheckpoint, CheckpointAt
      <3>2. checkpoint'.size = Len(entries) /\ checkpoint' \in Checkpoints
        BY <1>2, <3>1 DEF Checkpoints
      <3>. QED  BY <1>2, <2>1, <3>1, <3>2 DEF PublishCheckpoint, TypeOK
    <2>2. CASE \E a \in Awaiters : PollCheckpoint(a)
      BY <2>2 DEF PollCheckpoint, TypeOK, LogInv
    <2>. QED  BY <2>1, <2>2
  <1>4. TypeOK'
    BY <1>1, <1>3 DEF TypeOK, throughputVars, latencyVars
  <1>5. LogInv'
    BY <1>1, <1>3 DEF LogInv
  <1>6. SliceInv'
    BY <1>1 DEF SliceInv, Stored, throughputVars
  <1>7. LatencyInv'
    BY LatencyStays DEF throughputVars
  <1>. QED  BY <1>4, <1>5, <1>6, <1>7

-----------------------------------------------------------------------------
\* Every step preserves the invariant.
LEMMA NextIInv == IInv /\ [Next]_vars => IInv'
  <1>. SUFFICES ASSUME IInv, [Next]_vars PROVE IInv'
    OBVIOUS
  <1>1. CASE UNCHANGED vars
    <2>1. UNCHANGED <<tesseraVars, phase, throughputVars, latencyVars, leafHashes>>
      BY <1>1 DEF vars, throughputVars
    <2>2. TypeOK'
      BY <2>1 DEF IInv, TypeOK, tesseraVars, throughputVars, latencyVars
    <2>. QED  BY <2>1, <2>2, ClientStays, LatencyStays DEF IInv
  <1>2. CASE Background
    BY <1>2, IntegrateStep, PublishStep DEF Background
  <1>3. ASSUME NEW i \in Requests, AwaitFails(i) \/ Confirm(i) \/ Store(i) PROVE IInv'
    BY <1>3, AwaitFailsStep, ConfirmStep, StoreStep
  <1>4. ASSUME NEW c \in Clients,
               Draw(c) \/ RequestFails(c) \/ ProofArrives(c) \/ KeepDuration(c)
        PROVE  IInv'
    BY <1>4, DrawStep, RequestFailsStep, ProofArrivesStep, KeepDurationStep
  <1>. QED
    BY <1>1, <1>2, <1>3, <1>4, TickStep, AddStep, DeadlineStep, ReopenStep,
       LevelEndsStep DEF Next

\* The inductive invariant of both runs.
THEOREM BenchmarkInvariance == Spec => []IInv
  BY InitIInv, NextIInv, PTL DEF Spec

\* Every variable stays in its set.
THEOREM BenchmarkTypeCorrect == Spec => []TypeOK
  BY BenchmarkInvariance, PTL DEF IInv

\* The shared slice holds each hash at its leaf's index in the log.
THEOREM HashesAreAtTheirIndex == Spec => []HashesAtTheirIndex
  <1>1. IInv => HashesAtTheirIndex
    BY DEF IInv, SliceInv, HashesAtTheirIndex, Stored
  <1>. QED  BY <1>1, BenchmarkInvariance, PTL

\* What was counted is what is in the slice when the latency run begins.
THEOREM CountIsOfStored == Spec => []ConfirmedAreStored
  <1>1. ASSUME IInv PROVE ConfirmedAreStored
    <2>1. Cardinality(Stored) \in Nat /\ Cardinality({}) = 0
      BY <1>1, FiniteParts, FS_EmptySet DEF IInv
    <2>2. confirmed = Cardinality(Stored) + Cardinality(counted)
      BY <1>1 DEF IInv, SliceInv
    <2>3. phase = "latency" => Cardinality(counted) = 0
      BY <1>1, <2>1 DEF IInv, SliceInv
    <2>. QED  BY <2>1, <2>2, <2>3 DEF ConfirmedAreStored
  <1>. QED  BY <1>1, BenchmarkInvariance, PTL

\* No proof that the server answers with is counted as failed.
THEOREM AnsweredProofsVerify == Spec => []NoProofRefused
  <1>1. IInv => NoProofRefused
    BY DEF IInv, LatencyInv, NoProofRefused
  <1>. QED  BY <1>1, BenchmarkInvariance, PTL

\* The durations are of the requests that were counted.
THEOREM DurationsAreOfRequests == Spec => []DurationsMatchRequests
  <1>1. ASSUME IInv PROVE DurationsMatchRequests
    <2>1. phase = "end" => measured = {}
      BY <1>1 DEF IInv, LatencyInv
    <2>2. Cardinality({}) = 0 /\ durations \in Nat
      BY <1>1, FS_EmptySet DEF IInv, TypeOK
    <2>. QED  BY <1>1, <2>1, <2>2 DEF IInv, LatencyInv, DurationsMatchRequests
  <1>. QED  BY <1>1, BenchmarkInvariance, PTL
=============================================================================
