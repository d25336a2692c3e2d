-------------------------------- MODULE Demos --------------------------------
(***************************************************************************)
(* The main functions of cmd/sprint1, sprint1b, sprint2 and sprint3, each  *)
(* a straight-line script over one appender.  Sprints 2 and 3 also run the *)
(* REST server, so other clients submit leaves while the script runs, and  *)
(* both may be started on the log of an earlier process.  Every step of    *)
(* the log is a step of LogApi; an Add and Await of the script itself are  *)
(* taken as a submission that does not come over HTTP.  Beside the awaiter *)
(* of the REST server, sprints 1, 1b and 2 have one of their own.          *)
(***************************************************************************)
EXTENDS LogApi

CONSTANTS Clients,   \* the other clients of the REST server
          Other,     \* the leaf they submit
          Tampered,  \* what is claimed in the negative tests
          FarIndex   \* the index sprint 3 takes to be out of range, 99999

\* The calls of the scripts; a call that submits is named for its leaf.  The
\* batches of sprint 1b are shortened to two entries: the last, which is
\* awaited, and one that stands for those before it, which are not.
Entries1b == {"entry00", "entry04", "entry05", "entry09"}
OwnLeaves == {"leaf", "htt", "build", "deploy"} \cup Entries1b
Queries == {"sth", "proveHtt", "proveBuild", "consistency", "far", "empty"}
Own == OwnLeaves \cup Queries

ASSUME DemoRequests == Requests = Own \cup Clients /\ Own \cap Clients = {}
ASSUME DemoLeaves == Leaves = OwnLeaves \cup {Other} /\ Tampered \notin Leaves
ASSUME DemoOps == Ops = {"submit", "prove", "sth", "consistency"}
ASSUME DemoAwaiters == Awaiters = {"server", "own"}
ASSUME FarIndexAssumption == FarIndex \in 0..MaxSize

VARIABLES program,    \* which program runs; first an earlier server
          at,         \* the step of its script
          open,       \* the appender takes leaves
          listening,  \* the REST server takes connections
          exit,       \* how the program ended
          cause,      \* why it failed
          refused,    \* history: requests that met a closed appender
          gaveUp      \* history: the server's stop ran into its 5 s limit

demoVars == <<program, at, open, listening, exit, cause, refused, gaveUp>>

Running == "running"

DemoInit ==
  /\ Init
  /\ program = "server"
  /\ at = 1
  /\ open = TRUE /\ listening = TRUE
  /\ exit = Running /\ cause = "none"
  /\ refused = {} /\ gaveUp = FALSE

-----------------------------------------------------------------------------
(* The scripts. *)

Send(r) == [do |-> "send", r |-> r]
Expect(r, status) == [do |-> "expect", r |-> r, status |-> status]

\* The checks name the calls whose answers give the head and the proof; a
\* proof may also be built from the tiles on disk.
Include(leaf, head, from) ==
  [do |-> "include", leaf |-> leaf, head |-> head, from |-> from]
Tamper(leaf, head) ==
  [do |-> "tamper", leaf |-> leaf, head |-> head, from |-> "tiles"]
Extend(old, head, from) ==
  [do |-> "extend", old |-> old, head |-> head, from |-> from]
Forge(old, head) ==
  [do |-> "forge", old |-> old, head |-> head, from |-> "tiles"]

\* The next n steps are taken only if the tree has grown from one head to the
\* other.
IfGrew(old, head, n) == [do |-> "compare", old |-> old, head |-> head, skip |-> n]

Close == [do |-> "close"]  \* shutdown of the appender
Stop == [do |-> "stop"]    \* graceful stop of the server
Cli == [do |-> "cli", from |-> "tiles"]  \* cmd/verify as a subprocess

Sprint1 ==
  <<Send("leaf"), Expect("leaf", 200), Close,
    Include("leaf", "leaf", "tiles"), Tamper("leaf", "leaf")>>

Sprint1bFirst ==  \* mutant: the first entry of each batch is awaited
  <<Send("entry00"), Send("entry04"), Expect("entry00", 200),
    Send("entry05"), Send("entry09"), Expect("entry05", 200),
    Close>>

Sprint1b ==
  <<Send("entry00"), Send("entry04"), Expect("entry04", 200),
    Send("entry05"), Send("entry09"), Expect("entry09", 200),
    Close,
    Include("entry00", "entry09", "tiles"),
    Include("entry04", "entry09", "tiles"),
    Include("entry09", "entry09", "tiles"),
    Extend("entry04", "entry09", "tiles"), Forge("entry04", "entry09")>>

Sprint2AtOnce ==  \* mutant: the three tokens are added before any is awaited
  <<Send("htt"), Send("build"), Send("deploy"),
    Expect("htt", 200), Expect("build", 200), Expect("deploy", 200),
    IfGrew("htt", "deploy", 1), Extend("htt", "deploy", "tiles")>>

Sprint2 ==
  <<Send("htt"), Expect("htt", 200), Send("build"), Expect("build", 200),
    Send("deploy"), Expect("deploy", 200), Close,
    Include("htt", "deploy", "tiles"), Include("build", "deploy", "tiles"),
    Include("deploy", "deploy", "tiles"),
    IfGrew("htt", "deploy", 1), Extend("htt", "deploy", "tiles"),
    Tamper("htt", "deploy"), Stop>>

Sprint3Calls ==
  <<Send("htt"), Expect("htt", 200), Send("build"), Expect("build", 200),
    Send("sth"), Expect("sth", 200),
    Send("proveHtt"), Expect("proveHtt", 200), Include("htt", "sth", "proveHtt"),
    Send("proveBuild"), Expect("proveBuild", 200),
    Include("build", "sth", "proveBuild"),
    IfGrew("htt", "sth", 3),
    Send("consistency"), Expect("consistency", 200),
    Extend("htt", "sth", "consistency"),
    Send("far"), Expect("far", 404), Send("empty"), Expect("empty", 400), Cli>>

\* mutant: the defers are swapped
Sprint3CloseFirst == Sprint3Calls \o <<Close, Stop>>

\* The defers run in the reverse of the order they were registered in.
Sprint3 == Sprint3Calls \o <<Stop, Close>>

Script ==
  [server |-> <<>>, sprint1 |-> Sprint1, sprint1b |-> Sprint1b,
   sprint2 |-> Sprint2, sprint3 |-> Sprint3]

OwnCall(r) ==
  CASE r = "sth" -> [op |-> "sth"]
    [] r = "proveHtt" -> [op |-> "prove", index |-> reply["htt"].index]
    [] r = "proveBuild" -> [op |-> "prove", index |-> reply["build"].index]
    [] r = "consistency" -> [op |-> "consistency", from |-> reply["htt"].size,
                             to |-> reply["sth"].size]
    [] r = "far" -> [op |-> "prove", index |-> FarIndex]
    [] r = "empty" -> [op |-> "submit", leaf |-> NoLeaf]
    [] OTHER -> [op |-> "submit", leaf |-> r]

-----------------------------------------------------------------------------
(* The main goroutine. *)

Started == program # "server" /\ exit = Running
Step == Script[program][at]
Doing(what) == Started /\ at <= Len(Script[program]) /\ Step.do \in what

Proceed ==
  /\ at' = at + 1
  /\ UNCHANGED <<program, exit, cause>>

Fail(why) ==
  /\ exit' = "failed" /\ cause' = why
  /\ UNCHANGED <<program, at>>

\* Sprints 1 and 1b remove the log directory, and so do the others with
\* --fresh; without it the log of an earlier process is opened.  That the
\* server cannot listen is a warning to sprint 2 and fatal to sprint 3.
Start(p, up) ==
  /\ program = "server"
  /\ \/ (\A r \in Requests : pc[r] = "idle") /\ UNCHANGED vars
     \/ p \in {"sprint2", "sprint3"} /\ Restart
  /\ up \in IF p \in {"sprint2", "sprint3"} THEN BOOLEAN ELSE {FALSE}
  /\ program' = p /\ listening' = up
  /\ exit' = IF p = "sprint3" /\ ~up THEN "failed" ELSE exit
  /\ cause' = IF p = "sprint3" /\ ~up THEN "error" ELSE cause
  /\ UNCHANGED <<at, open, refused, gaveUp>>

\* Add is called in the order of the script, whether or not it is awaited.
Call(r) ==
  /\ Doing({"send"}) /\ Step.r = r
  /\ \A q \in Own : pc[q] # "handling"
  /\ Arrive(r) /\ call'[r] = OwnCall(r)
  /\ Proceed
  /\ UNCHANGED <<open, listening, refused, gaveUp>>

Grew(old, head) == reply[old].size < reply[head].size

Compare ==
  /\ Doing({"compare"})
  /\ at' = at + 1 + (IF Grew(Step.old, Step.head) THEN 0 ELSE Step.skip)
  /\ UNCHANGED <<vars, program, open, listening, exit, cause, refused, gaveUp>>

Receive ==
  /\ Doing({"expect"})
  /\ pc[Step.r] = "done"
  /\ LET status == reply[Step.r].status IN
       IF status = Step.status THEN Proceed
       ELSE Fail(IF status = 500 THEN "error" ELSE "refused")
  /\ UNCHANGED <<vars, open, listening, refused, gaveUp>>

IndexAssumed(leaf) ==  \* mutant: every demo takes the indices for granted
  [leaf |-> 0, entry00 |-> 0, entry04 |-> 1, entry05 |-> 2, entry09 |-> 3,
   htt |-> 0, build |-> 1, deploy |-> 2][leaf]

\* Sprint 1b takes the indices for granted, the others use those answered.
IndexOf(leaf) ==
  IF program = "sprint1b"
  THEN [entry00 |-> 0, entry04 |-> 1, entry05 |-> 2, entry09 |-> 3][leaf]
  ELSE reply[leaf].index

Included(s, leaf) ==
  LET i == IndexOf(s.leaf)
      n == reply[s.head].size
      p == IF s.from = "tiles" THEN InclusionProof(entries, i, n)
                               ELSE reply[s.from].proof
  IN  VerifyInclusion(i, n, leaf, p, reply[s.head].root)

Extended(s, root) ==
  LET m == reply[s.old].size
      n == reply[s.head].size
      p == IF s.from = "tiles" THEN ConsistencyProof(entries, m, n)
                               ELSE reply[s.from].proof
  IN  VerifyConsistency(m, n, p, root, reply[s.head].root)

\* The subprocess verifies the first token against the head it reads itself.
CliVerifies ==
  LET i == reply["htt"].index
      n == checkpoint.size
  IN  VerifyInclusion(i, n, "htt", InclusionProof(entries, i, n), checkpoint.root)

Passes(s) ==
  \/ s.do = "include" /\ Included(s, s.leaf)
  \/ s.do = "tamper" /\ ~Included(s, Tampered)
  \/ s.do = "extend" /\ Extended(s, reply[s.old].root)
  \/ s.do = "forge" /\ ~Extended(s, <<Tampered>>)
  \/ s.do = "cli" /\ CliVerifies

Checks == {"include", "tamper", "extend", "forge", "cli"}

\* The library builds no proof for an index beyond the tree.
NoProof(s) ==
  s.do = "include" /\ s.from = "tiles" /\ IndexOf(s.leaf) >= reply[s.head].size

Check ==
  /\ Doing(Checks)
  /\ IF Passes(Step) THEN Proceed
     ELSE Fail(IF NoProof(Step) THEN "error" ELSE "refused")
  /\ UNCHANGED <<vars, open, listening, refused, gaveUp>>

\* A tile cannot be read, or the subprocess cannot be started.
CheckFails ==
  /\ Doing(Checks)
  /\ Step.from = "tiles"
  /\ Fail("error")
  /\ UNCHANGED <<vars, open, listening, refused, gaveUp>>

\* shutdown first makes Add fail, then waits until the published checkpoint
\* covers every index that was handed out.
ShutDown ==
  /\ Doing({"close"}) /\ open
  /\ open' = FALSE
  /\ UNCHANGED <<vars, program, at, listening, exit, cause, refused, gaveUp>>

ShutDownReturns ==
  /\ Doing({"close"}) /\ ~open
  /\ \A r \in Requests : index[r] < checkpoint.size
  /\ Proceed
  /\ UNCHANGED <<vars, open, listening, refused, gaveUp>>

ShutDownFails ==
  /\ Doing({"close"}) /\ ~open
  /\ Fail("error")
  /\ UNCHANGED <<vars, open, listening, refused, gaveUp>>

\* Stopping the server closes the listener and waits for the handlers under
\* way, for 5 seconds at most.
StopListening ==
  /\ Doing({"stop"}) /\ listening
  /\ listening' = FALSE
  /\ UNCHANGED <<vars, program, at, open, exit, cause, refused, gaveUp>>

StopReturns ==
  /\ Doing({"stop"}) /\ ~listening
  /\ gaveUp' = \E c \in Clients : InFlight(c)
  /\ Proceed
  /\ UNCHANGED <<vars, open, listening, refused>>

End ==
  /\ Started /\ at > Len(Script[program])
  /\ exit' = "ok"
  /\ UNCHANGED <<vars, program, at, open, listening, cause, refused, gaveUp>>

-----------------------------------------------------------------------------
(* The server and the library. *)

ClientArrives(c) ==
  /\ exit = Running /\ listening
  /\ Arrive(c) /\ call'[c] = [op |-> "submit", leaf |-> Other]
  /\ UNCHANGED demoVars

\* Sprint 1b awaits only the last entry of a batch: the futures of the others
\* are overwritten.
Awaited(r) ==
  r \in Clients \/ \E i \in 1..Len(Script[program]) :
    Script[program][i].do = "expect" /\ Script[program][i].r = r

\* The handlers and the calls over HTTP have the awaiter of the server.
AwaiterOf(r) ==
  IF r \in Clients \/ program = "sprint3" THEN "server" ELSE "own"

Serve(r) ==
  /\ exit = Running
  /\ \/ SubmitReject(r)
     \/ open /\ SubmitAdd(r)
     \/ Awaited(r) /\ SubmitReply(r, AwaiterOf(r))
     \/ Prove(r) \/ STHReply(r) \/ Consistency(r)
  /\ UNCHANGED demoVars

\* Add may refuse a leaf, and Await may fail.  Nobody learns of the refusal of
\* an entry that is not awaited, and the script goes on.
ServeFails(r) ==
  /\ exit = Running
  /\ \/ open /\ pc[r] = "handling" /\ SubmitFail(r)
     \/ pc[r] = "awaiting" /\ Awaited(r) /\ SubmitFail(r)
     \/ ReadFail(r)
  /\ UNCHANGED demoVars

\* Add of a closed appender is an error.
Refuse(r) ==
  /\ exit = Running /\ ~open
  /\ pc[r] = "handling" /\ SubmitFail(r)
  /\ refused' = refused \cup {r}
  /\ UNCHANGED <<program, at, open, listening, exit, cause, gaveUp>>

Library(step) == exit = Running /\ step /\ UNCHANGED <<apiVars, demoVars>>

\* The awaiters each program creates.
Created(a) ==
  CASE program \in {"server", "sprint3"} -> a = "server"
    [] program \in {"sprint1", "sprint1b"} -> a = "own"
    [] OTHER -> TRUE

Poll(a) == Created(a) /\ PollCheckpoint(a)

Timers == IntegrateBatch \/ PublishCheckpoint \/ \E a \in Awaiters : Poll(a)

-----------------------------------------------------------------------------
Programs == {"sprint1", "sprint1b", "sprint2", "sprint3"}

MainStep ==
  \/ \E r \in Own : Call(r)
  \/ Compare \/ Receive \/ Check
  \/ ShutDown \/ ShutDownReturns \/ StopListening \/ StopReturns \/ End

DemoNext ==
  \/ \E p \in Programs, up \in BOOLEAN : Start(p, up)
  \/ MainStep
  \/ CheckFails \/ ShutDownFails
  \/ \E c \in Clients : ClientArrives(c)
  \/ \E r \in Requests : Serve(r) \/ ServeFails(r) \/ Refuse(r)
  \/ Library(Timers)

\* As in LogApi.  When a user starts a program is up to the user.
DemoFairness ==
  /\ WF_<<vars, demoVars>>(MainStep)
  /\ \A r \in Requests : WF_<<vars, demoVars>>(Serve(r) \/ Refuse(r))
  /\ WF_<<vars, demoVars>>(Library(IntegrateBatch))
  /\ WF_<<vars, demoVars>>(Library(PublishCheckpoint))
  /\ \A a \in Awaiters : WF_<<vars, demoVars>>(Library(Poll(a)))

DemoSpec == DemoInit /\ [][DemoNext]_<<vars, demoVars>>
FairDemoSpec == DemoSpec /\ DemoFairness
-----------------------------------------------------------------------------
(* Properties. *)

DemoTypeOK ==
  /\ TypeOK
  /\ program \in Programs \cup {"server"}
  /\ at \in 1..(Len(Script[program]) + 1)
  /\ open \in BOOLEAN /\ listening \in BOOLEAN
  /\ exit \in {Running, "ok", "failed"}
  /\ cause \in {"none", "error", "refused"}
  /\ (exit = "failed") = (cause # "none")
  /\ refused \subseteq Requests
  /\ gaveUp \in BOOLEAN

\* Sprint 1b alone goes on when a leaf was refused: an Add whose future it has
\* overwritten (main.go:78, 92).
NoneRefused ==
  \A r \in {"entry00", "entry05"} : pc[r] = "done" => reply[r].status = 200

\* A demo calls an honest log broken for one of three reasons only: in sprint 3
\* the log grew between its tree head and its proofs (main.go:154-176), or is so
\* large that the index taken to be out of range is not (main.go:219), both the
\* doing of other clients or of an earlier process; sprint 1b checks hard-coded
\* indices (main.go:113-118) though it had ignored that an entry was refused.
\* Sprints 1 and 2, and sprint 1b otherwise, verify against a head that covers
\* all they added, at the indices they were told, and never fail.
FalseAlarms ==
  cause = "refused" =>
    \/ /\ program = "sprint3"
       /\ \/ checkpoint.size > reply["sth"].size
          \/ checkpoint.size > FarIndex
    \/ program = "sprint1b" /\ ~NoneRefused

BatchSize(r) == IF r \in {"entry00", "entry04"} THEN 2 ELSE 4

\* "await checkpoint cp1 (size 5)" and "cp2 (size 10)" (sprint1b main.go:71,
\* 88).  By itself this does not hold: when an entry that is not awaited is
\* refused, the program goes on with smaller checkpoints.
CheckpointsAsAnnounced ==
  program = "sprint1b" =>
    \A r \in Entries1b : Answered(r, "submit") => reply[r].size = BatchSize(r)

\* Unless an entry was refused, awaiting the last of a batch gives the head of
\* exactly the batches so far: the positions and sizes that the rest of sprint
\* 1b takes for granted are right.
BatchCheckpoints == NoneRefused => CheckpointsAsAnnounced

\* No demo skips its consistency check, as their messages allow for: the head
\* the first token was answered with does not cover the last one, although a
\* batch and a checkpoint may take in several leaves.
ConsistencyIsChecked == Doing({"compare"}) => Grew(Step.old, Step.head)

\* The server is stopped before the appender it submits to is shut down: only
\* in sprint 2, which shuts the appender down first, and where the stop gave
\* up waiting, does a client meet a closed appender.
ClosedToNobody == refused # {} => program = "sprint2" \/ gaveUp

\* A program that was started ends, whatever its clients do.
DemoEnds == program # "server" ~> exit # Running
=============================================================================
