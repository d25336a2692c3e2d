# Verification of the Tessera transparency prototype

TLA+ models, TLC runs and TLAPS proofs for the programs of this repository: a
REST service and several demos and benchmarks over a Tessera log on the local
file system, and a stand-alone verifier.

## The system

| Part | Source | State | Operations |
| --- | --- | --- | --- |
| Appender and awaiter (library) | used by `internal/api/handler.go` and all programs | queue, log entries, published checkpoint, awaiter's copy | Add, write a batch, publish, poll, Await, reopen |
| REST handlers | `internal/api/handler.go` | one goroutine for each request | submit, prove, sth, consistency |
| HTTP server | `internal/api/server.go` | listener, log directory | /checkpoint, tile files with cache headers, start, stop |
| Key files | `internal/signer/signer.go`, `loadOrGenKey` of each program | key file | load or generate and save |
| Token signing | `internal/signer`, `internal/schema` | the token | sign, verify, encode |
| Verifier | `cmd/verify` | flags, the checkpoint it read | verify inclusion, verify consistency |
| Correctness suite | `cmd/sprint4` part 3 | records, snapshots, counters | append in batches, check, report |
| Throughput and latency runs | `cmd/sprint4` parts 1 and 2 | shared slice and counters | add in bursts, confirm; ask and verify |
| Demos | `cmd/sprint1`, `1b`, `2`, `3` | position in the script, what the answers said | append, close, verify, stop the server |
| Run and reports | `run` and part 4 of `cmd/sprint4` | finished phases, CSV files, exit code | wipe, phases, deferred writers, table |

A client's submission goes from the handler into the appender's queue, from
there into the log in a batch, is covered by a checkpoint that is published on
a timer, and is answered when the awaiter, which polls that checkpoint on a
timer of its own, has seen it. The other handlers read the checkpoint file
themselves, and then the tiles. `/checkpoint` and the tiles are what the
verifier reads. All programs keep their keys in files that they create at their
first run.

What is hard here: three independent delays between adding and answering; two
copies of the checkpoint of different age; proofs built from tiles that are read
after the checkpoint, while the log grows; an Await that fails after the leaf
was queued; a process that ends between any two of these steps; key files
written in place, possibly by two programs; slices and counters shared by
goroutines that end in any order; programs that are started with `--fresh` on a
directory others have read; scripts that verify against a head they read a few
calls ago, while other clients submit; a server and an appender that are closed
in an order fixed by defers; reports written in a deferred function that some
error paths bypass; and a signature that covers an encoding of a token, not the
token.

## Modules

| Module | Models | State and actions |
| --- | --- | --- |
| `TesseraLog` | the library, from its use (external) | `Add`, `IntegrateBatch`, `PublishCheckpoint`, `PollCheckpoint`, `AwaitReturns`, `Reopen`; proofs by what they commit to |
| `AppendOnlyLog` | what the service promises, abstractly | `Grow`, `Publish`, `Answer` |
| `LogApi` | `internal/api/handler.go` over one `TesseraLog` | one program counter for each request; an action for each early return, wait and answer; `Restart` |
| `KeyFile` | `signer.New` and `loadOrGenKey` | the file and one program counter for each start; reading, generating, the write in two steps, short writes, deaths |
| `CorrectnessSuite` | `runCorrectnessPhase` | main goroutine, one goroutine for each entry, `TesseraLog` |
| `Sprint4Run` | `run` of `cmd/sprint4` around the suite | the wipe, the benchmark phases as single steps, every step of the suite (`Suite(step)`), the deferred writers with create, flush and failure apart, table and exit code |
| `Benchmark` | `runThroughput`, `runLatencyPhase`, `runLatencyLevel` | ticker loop, one goroutine for each entry, latency clients, `TesseraLog` |
| `VerifyCli` | `main` of `cmd/verify`, its auditor, the served directory | the stages of one invocation, caches, growth and `--fresh` of the log |
| `Demos` | `main` of `cmd/sprint1`, `sprint1b`, `sprint2`, `sprint3`, start and stop of the server | each program is a sequence of steps (`Script`) that one main goroutine executes over `LogApi`; other clients; shutdown of appender and server in two steps each |
| `TokenSigner` | `internal/signer` over `internal/schema` | a token in memory, its last encoding; sign, verify, encode, decode as either kind, edit |
| `LogApiProofs`, `AppendOnlyLogProofs`, `KeyFileProofs`, `DemosProofs`, `Sprint4RunProofs`, `BenchmarkProofs`, `VerifyCliProofs`, `TokenSignerProofs` | | theorems and proofs |
| `MC*` | | instances for TLC |

`LogApi`, `CorrectnessSuite`, `Benchmark` and `VerifyCli` each extend
`TesseraLog`, as each of those programs opens an appender of its own (the
verifier only reads its directory). `LogApi` instantiates `AppendOnlyLog` with
a refinement mapping (`Promise`): log = entries, head = size of the published
checkpoint, heads and receipts = what the answers given so far say. `Demos`
extends `LogApi` and takes its actions as they are, so what is proved of `LogApi`
carries over by construction; an Add and Await of a script that does not go over
HTTP is the same action as a submission that does. `Sprint4Run` extends
`CorrectnessSuite` in the same way. A program may have several awaiters over one
log, each with a copy of the checkpoint of its own age (`Awaiters`, `awaited`):
`cmd/sprint2` has one of its own (`main.go:119`) beside that of the REST handlers
(`handler.go:36`), while the calls of sprint 3 go over HTTP. Any awaiter may
answer any submission in `LogApi`, and `Demos` says which one does (`AwaiterOf`).

Conventions. A root hash is identified with the leaves it commits to, which is
what collision resistance gives; a proof with the tree it was built from, and to
verify it is to recompute the root with the claimed leaf in its place. A token
is a model value, or its submission number where all tokens differ. Definitions
marked `mutant` are faulty variants of the definition that follows them; no
specification uses them, they show that a property can fail.

## Runs

| Run | Question | Bounds | Result |
| --- | --- | --- | --- |
| `api_safety` | are the answers true of the log and of each other, and do handlers and appender implement `AppendOnlyLog`? | 3 requests of any kind, 2 leaves, batches up to 2, parameters 0..2 or invalid, 1 restart | holds |
| `api_liveness` | is every request answered, every entry published? | 2 requests, 1 leaf, 2 restarts | holds |
| `api_new_root` | does `/log/consistency` answer with the root at `to`? | 3 requests, 1 leaf | violated |
| `key_restarts` | is the key a program signs with the one on disk? | 4 starts one after the other, deaths and short writes | holds |
| `key_read_error` | is the key stable when a read fails? | 2 starts | violated |
| `sprint4_run` | are records, snapshots, verdict, table and files right, and does the program end? | 3 batches of 4 entries, library batches up to 3, 3 tamper tests, files of earlier runs in every combination that occurs | holds |
| `sprint4_lost` | do the results of finished phases reach their files? | the same | violated |
| `benchmark` | do slice, counters and measured requests agree? | 2 bursts of 2 entries, 2 latency clients, 2 draws each | holds |
| `verify_cli` | is what the verifier prints true, and does an auditor follow one log only? | 3 leaves added, 2 invocations, 1 start with `--fresh` | holds |
| `verify_fresh` | are tiles immutable? | 2 leaves added, 1 start with `--fresh` | violated |
| `demos` | when may a demo call the log broken, does its server outlive its appender, does it end? | each of the 4 programs, on an empty log or that of an earlier server, 1 other client, batches up to 2, at most 4 leaves, `FarIndex` 2 | holds |
| `token_signer` | does a signer accept exactly what it signed? | 2 keys, 2 kinds, 3 texts of which one is not UTF-8, 2 bodies, 2 contents signed | holds |

Why the bounds are enough. The relations checked are between two answers and
the log, or between an answer and a later state; three requests leave one to
make the log grow between the other two, and two leaves make a wrong leaf
distinguishable. Batches of two differ from single entries and from the whole
queue. In the suite and the benchmark, a batch of the harness takes several
batches of the library and the reverse, and goroutines end in every order.
Two invocations are a pinned head and its continuation. Requests and leaves
are symmetric where a symmetry is declared; it is not used for liveness.
`MaxSize`, `MaxRestarts`, `MaxInvocations`, `MaxFresh`, `MaxDraws` and
`MaxSigned` only bound the environment. In `demos` the batches of sprint 1b are
shortened to two entries: the last, which is awaited, and one that stands for
those before it, which are not. With library batches of two, a batch is still
written whole, in parts, or with the next one due. `FarIndex` stands for 99999 and
is within reach, so that a log that large happens. One other client is enough: what
it does to a demo is to make the log grow, or to be in a handler when the server
stops. In `token_signer` two signed contents are a token and another whose
signature is put on it.

`CHECK_DEADLOCK FALSE` stands where the modelled programs end: all requests of
the instance answered, all starts done, the process exited. Only `token_signer`
never ends.

### The properties

- `ReceiptSound`, `NoRegression`, `ProofsVerify`, `ConsistencyToHeadVerifies`
  and `NoDuplicateSequencing` relate answers to the log. `NoRegression` is the
  delicate one: submissions are answered from the awaiter's copy, other requests
  from the file, and it holds because the copy is never newer than the file and
  an awaited index is not covered by any head shown before its request. Its
  second part, `NeverBackdated`, says the latter of receipts: a leaf is confirmed
  beyond every tree its client had been told of, so a leaf submitted again gets an
  entry of its own, and the tree has grown between two receipts, as sprints 2 and 3 expect.
- `EveryRequestEnds` and `EntriesPublished` need weak fairness of the batch
  timer, the publication timer, the awaiter's poll and each handler. The timers
  never stop while the process lives, and the Go scheduler runs every runnable
  goroutine. Clients, failures and restarts get no fairness. `RunEnds` (sprint 4) and
  `DemoEnds` assume the same of their goroutines and, in addition, that the main
  goroutine goes on; that a user starts a demo is not assumed. `DemoEnds` needs
  the handlers' fairness too, since a shutdown waits for the indices of other
  clients and a stop of the server for their handlers.
- `KeyOnDisk`: starts that do not overlap, that can read the file, and that
  nobody removes it; deaths and short writes may happen at any step.
- `LogIndexIsSubmissionIndex` is the comment at `cmd/sprint4/main.go:570-572`
  that allows the records to be written without a lock. An Add may be refused
  (`AddRefused`); later entries are then recorded a slot early, until the goroutine
  of the refused one ends the process (`AwaitRefused`), so the property also says
  that no such record is ever checked. `SnapshotsEndBatches`
  says what `bwg.Wait` is for. `OnlyUnreadFails` and `ZeroMeansAllPassed` say
  that the verdict is right in both directions, the latter also that success
  means complete files. `TableAgreesWithExit` relates the table, computed from
  what passed, to the exit code, computed from what failed; `FilesOfOneRun` says
  that the wipe leaves no figures of another run beside those reported.
- `ConfirmedAreStored` and `HashesAtTheirIndex` relate the atomic counter to the
  slice behind the mutex; `NoProofRefused` and `DurationsMatchRequests` say that
  the latency figures are about the requests counted.
- `AcceptedHeadsAreOneLog`: although `--fresh` makes a log that is not
  append-only under one key, an auditor who goes on only from heads the verifier
  found consistent never follows two logs. `TrueClaimsPass` says
  that without `--fresh` no true claim is refused, with two exceptions
  (`Unsupported`): a consistency claim to a size before the head that was read,
  which the verifier refuses because it has no root for it (`main.go:120-128`),
  and one from the empty tree, which has no proof.
- `FalseAlarms`: the demos verify proofs against heads they read earlier. For
  sprints 1 and 2 that is right, because the head is that of their last Await and
  the proofs are built at its size. Sprint 3 verifies answers against its own
  earlier head, and so reports a right log as broken when another client submits
  in between, or when the log is so large that index 99999 exists. Sprint 1b
  overwrites the futures of all entries of a batch but the last, so it does not
  learn that one of them was refused; its hard-coded indices are then wrong and it
  reports a right log as broken, with checkpoints smaller than the sizes 5 and 10
  that it announces (`cmd/sprint1b/main.go:71`, 88): `CheckpointsAsAnnounced`
  without `NoneRefused` does not hold.
- `BatchCheckpoints`: unless that happened (`NoneRefused`), the heads that sprint 1b
  awaits are exactly those of its batches, however the library cuts its own.
  `ConsistencyIsChecked`: the branch of sprints 2 and 3 that skips the consistency
  check is never taken.
- `ClosedToNobody`: sprint 3 stops its server before its appender, so no client
  meets a closed appender unless the stop ran into its limit of 5 s. Sprint 2 is
  exempt: it shuts the appender down first, and then its server answers
  submissions with 500, which no document rules out.
  `refused` and `gaveUp` record when that happens.
- `AcceptedWasSigned` and `GenuineIsAccepted` are the two directions of signature
  checking, over a JSON encoding that replaces invalid text, leaves out an empty
  signature and tells the kinds apart by field names only.

### What the violated properties show

- `NewRootIsRootAtTo`: `/log/consistency` answers with the root of the current
  checkpoint also when `to` is smaller, so the proof does not verify against
  `new_root` (`handler.go:195`).
- `StableKey`: `signer.New` takes a failed read of an existing key file for a
  missing key and overwrites it (`signer.go:51`). The model has a second way to
  the same end, which no run exercises: two programs started together on an empty
  key directory (`Exclusive = FALSE`, `signer.go:70`).
- `FinishedResultsPersist`: `run` promises that results of completed phases are
  always persisted (`cmd/sprint4/main.go:161-163`), but `fatalf` in a later phase,
  or in the writer of an earlier file, ends the process without them.
- `TilesAreImmutable`: tiles are served as `immutable` for a day and documented
  as immutable and content-addressed (`docs/PUBLIC_ACCESS.md:16`), yet their
  paths are positions and `--fresh` writes another log there.

Seen while reading and not checked: sprint 3 runs the verifier in a hard-coded
directory (`cmd/sprint3/main.go:247`), so its last step fails elsewhere; a
`--fresh` run of sprint 4 whose Run A confirmed nothing prints "not run - pass
--fresh" (897-916); a nil and an empty byte field encode as `null` and `""`, so
two tokens that are one in Proto3 have two leaf hashes (`token.go:8-12`); `docs/PUBLIC_ACCESS.md:83-85` uses a flag
`--token_index` that `cmd/verify` does not have; lines 119-120 call the entry
signer's key the log's verifier key, while checkpoints are signed with another;
its workflow commits the tiles and not the keys, so each scheduled run would
sign with a new key. `cmd/verify` run with `--from` and without `--to` exits 0
and checks nothing.

## Proofs

`LogApiProofs` proves, for all values of the constants, `TypeOK`,
`ReceiptSound`, `NoRegression`, `ProofsVerify`, `ConsistencyToHeadVerifies` and the refinement `Spec => KeepsPromise`. None of the properties is inductive: they
speak of answers, and what makes an answer true was established by the handler's
earlier steps. The invariant `IInv` therefore adds to `TypeOK`

- `HeadsInv`: the published checkpoint, each awaiter's copy and every handler's
  view are roots of prefixes of the log, and no copy is newer than the file;
- `HandlerInv`: what the early returns have established for a handler under way;
- `QueueInv`, `IndexInv`: a queued leaf and a resolved future belong to an
  accepted submission, and the future names an entry that is its leaf;
- `ReplyInv`: what an answer says is true of the log as it is now;
- `BeforeInv`: a request sent after an answer will be told at least that size, at
  each stage of its handler (`WillTellAtLeast`).

The one fact under all of them is that the log only grows at its end
(`LogGrows`, `RootAtConcat`). `NeverBackdated` is kept because
`BeforeInv` bounds the index of a future while its handler still waits; with it
goes `AskedInv`, an answer is about what was asked, which the demos need. TLC
checked `IInv` before the proof. The theorems rest on the assumptions on the
constants and nothing else.

`NoDuplicateSequencing` follows from two more invariants. `UniqueInv`: a request
is queued once at most and holds no place of the log meanwhile, and no two
requests share a place; a place is held by the future or, after a restart, by
the answer alone. `CountInv`: no more leaves are queued or sequenced than
submissions have passed their early returns, each of which adds one. Counting
needs that the requests are finitely many, which the theorem assumes.

`AppendOnlyLogProofs` proves that the promise is worth having: any two heads
ever shown are prefixes of one another (`NoSplitView`), and receipts stay true
(`ReceiptsAreKept`). With `Refinement` they hold of the service.

`KeyFileProofs` proves `TypeOK` as it stands, and `KeyOnDisk` and `StableKey` from
two conditions: starts do not overlap, and an existing file can be read. Both also
rest on the file not being removed, for which the model has no step. The run
`key_read_error` shows that the second condition cannot be left out.

`TokenSignerProofs` proves all three properties of `TokenSigner` for any keys,
texts and bodies. The invariant says that a signature on the token or on the wire
is empty, forged or over contents that its key signed, and that a token nobody
has changed since carries its author's signature over its own contents.

`DemosProofs` proves that every step of a demo is a step of `LogApi` or none, so
the theorems of `LogApiProofs` hold inside the demos (`DemosKeepThePromise`). On
top of them it proves all safety properties of `Demos`, for any number of other
clients, any batch size, any log left by an earlier server and any `FarIndex`. What
a program concludes depends on where it stands in its script, so the invariant
`DInv` says for each position

- which calls have been made (`SentInv`), with what (`CallInv`: a query is made of
  answers that are final by then), and which were answered as expected
  (`AnsweredInv`);
- which answers were received before a call was made, and that every earlier Add
  has reached the queue or failed (`OrderInv`): with `NeverBackdated` and `BeforeInv` of
  `LogApi` this orders the heads that the later checks compare (`State2`, `State3`,
  `Grown3`);
- what a call may be answered with (`StatusInv`), so that the only unexpected
  status that is no error of the server is 200 for `FarIndex`;
- for sprint 1b, that unless an entry was refused the log followed by the queue is
  a prefix of its four entries, and how long it is for each state of their calls
  (`BatchInv`): it makes the positions and sizes taken for granted right;
- where the appender and the server are closed (`ClosedInv`).

From these each check passes (`Passes1`, `Passes1b`, `Passes2`), for sprint 3
unless the log has grown past its head (`Passes3`), and for sprint 1b unless an
entry was refused. TLC checked `DInv` before the
proof. The scripts are constant tuples, so a position is a case (`Script1` to
`Script3`), and the argument for a program goes over the steps of its script.

`Sprint4RunProofs` first proves the properties of the suite, for any number of
batches and of entries in a batch. Its invariant `SInv` says that the log followed
by the queue holds the submissions in their order, because one goroutine alone
calls Add (`LogInv`), so a future resolves to its submission number, or behind a
refused entry to a smaller one (`InOrder`, `Fits`); that every finished goroutine
has written its own record, of an entry an awaited checkpoint covers (`RecordsInv`); and that the snapshots are the trees of whole batches, none
of whose entries is still awaited (`SnapshotsInv`). From these a check over a log
that can be read passes (`CheckInv`).

Then it proves that a step of the run is a step of the suite or leaves
it alone, so the run inherits all of this (`SuiteIsRightInTheRun`), and from the invariant `RInv`
that success means that all passed, that
table and exit code agree and that no file of an earlier run stays. `RInv` relates the
stage of the run to the phases that have returned (`FinishedInv`), the number of
flushed reports to what is in the files (`FilesInv`), and the return of the suite
to its counts (`CountInv`); none of the three properties is inductive without
them. `TableAndExitAgree` assumes that every check has something to check: for a
check with nothing planned `passOrFail` says FAIL and the exit code does not.

`BenchmarkProofs` proves all properties of `Benchmark`. `SliceInv` says that an
entry in the slice is neither awaited nor about to be stored, which makes the
place that a goroutine fills its own and lets the counter be the size of the
slice and of the set of entries still to be stored. `LatencyInv` says that a
client asks for a place that is filled, and that a counted request whose duration
is not kept yet keeps the level from ending.

`VerifyCliProofs` proves all safety properties of `VerifyCli`. `StageInv` says
what each stage has printed and that the head read is whole; `AuditInv` that the
pinned head extends all those accepted (the old root among the flags may be any
root: an auditor goes on only from a claim about the pinned one, `Pin`); `LogInv`
that a tile in a cache has the width its path names; and `UndisturbedInv` that,
without a start with `--fresh`, the checkpoint read and the tiles cached are still
prefixes of the log. The first three hold with `--fresh` too, and carry
`PrintedIsTrue` and `AcceptedHeadsAreOneLog`; only `TrueClaimsPass` needs the last.

Only model-checked are the liveness properties `EveryRequestEnds`,
`EntriesPublished`, `RunEnds` and `DemoEnds`, which need fairness and ENABLED and
so are beyond the proof system. Every safety property that a run finds to hold is
proved as well.

## Not modelled

The Merkle hashing below roots and proofs, which is in libraries, and checkpoint
signatures; rates, durations, percentiles, directory sizes and the other figures
of the reports; formatting and logging. A failed removal of the log directory
only warns in sprints 1 and 1b, which would then go on with an old log under a
new key; the model takes the removal to succeed. A start of sprint 4 with `--fresh`
also removes its key directory, which lies inside its output directory
(`cmd/sprint4/main.go:58-61`, 137) and so gets new keys; `KeyFile` is about a
directory that stays. Of the texts of a token only the one that both kinds name
is put through the encoding; those of one kind (`host_id`, `issuer_id`, ...) are
encoded in the same way, and the model keeps them in a body that the encoding
leaves alone. JSON decoding also accepts other
spellings of a token (white space, letter case of names); the model only decodes
what was encoded. Ed25519 and SHA-256 are ideal.

## State of the plan

1. Done: all modules of the table above, their runs and their proofs.
2. Done: proofs of every safety property the runs check.
3. Left: `Merkle`, RFC 6962 roots and proofs over symbolic hashes as recursive
   functions, checked against the identification used in `TesseraLog`.
