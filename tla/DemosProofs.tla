----------------------------- MODULE DemosProofs -----------------------------
(***************************************************************************)
(* The demos do nothing to the log that LogApi does not allow, so what     *)
(* LogApiProofs shows of LogApi holds inside every demo.  With that, each  *)
(* demo is right about the log: its checks pass, whatever batches, ticks   *)
(* and other clients come between its steps, unless others grow the log    *)
(* past the head that sprint 3 checks against, or sprint 1b has ignored    *)
(* that an entry was refused.                                              *)
(***************************************************************************)
EXTENDS Demos, LogApiProofs

\* Each step of a demo is a step of LogApi, or leaves its variables alone.
LEMMA DemoStepIsLogStep == DemoNext => [Next]_vars
<1> SUFFICES ASSUME DemoNext PROVE [Next]_vars
  OBVIOUS
<1>1. ASSUME NEW p \in Programs, NEW up \in BOOLEAN, Start(p, up)
      PROVE  [Next]_vars
  BY <1>1 DEF Start, Next
<1>2. CASE MainStep
  <2>1. ASSUME NEW r \in Own, Call(r) PROVE [Next]_vars
    BY <2>1, DemoRequests DEF Call, Next
  <2>2. CASE Compare \/ Receive \/ Check \/ ShutDown \/ ShutDownReturns
             \/ StopListening \/ StopReturns \/ End
    BY <2>2 DEF Compare, Receive, Check, ShutDown, ShutDownReturns,
                StopListening, StopReturns, End
  <2> QED BY <1>2, <2>1, <2>2 DEF MainStep
<1>3. CASE CheckFails \/ ShutDownFails
  BY <1>3 DEF CheckFails, ShutDownFails
<1>4. ASSUME NEW c \in Clients, ClientArrives(c) PROVE [Next]_vars
  BY <1>4, DemoRequests DEF ClientArrives, Next
<1>5. ASSUME NEW r \in Requests, Serve(r) \/ ServeFails(r) \/ Refuse(r)
      PROVE  [Next]_vars
  <2>1. AwaiterOf(r) \in Awaiters
    BY DemoAwaiters DEF AwaiterOf
  <2> QED BY <1>5, <2>1 DEF Serve, ServeFails, Refuse, Next, Handle, Submit
<1>6. CASE Library(Timers)
  BY <1>6 DEF Library, Timers, Poll, Next, Background
<1> QED BY <1>1, <1>2, <1>3, <1>4, <1>5, <1>6 DEF DemoNext

\* Every behaviour of a demo, its server and its clients is one of LogApi.
LEMMA DemosRefineLogApi == DemoSpec => Spec
<1>1. DemoInit => Init
  BY DEF DemoInit
<1>2. [DemoNext]_<<vars, demoVars>> => [Next]_vars
  <2>1. UNCHANGED <<vars, demoVars>> => UNCHANGED vars
    OBVIOUS
  <2> QED BY <2>1, DemoStepIsLogStep
<1> QED BY <1>1, <1>2, PTL DEF DemoSpec, Spec

\* In particular the answers the demos print are true of the log, and the log
\* keeps its promise to the other clients.
THEOREM DemosKeepThePromise == DemoSpec => []ReceiptSound /\ KeepsPromise
BY DemosRefineLogApi, ReceiptsAreSound, Refinement
-----------------------------------------------------------------------------
(***************************************************************************)
(* The invariant.  It says, for the position the script has reached, which *)
(* calls were sent and which were answered, and with what.                 *)
(***************************************************************************)

Steps == Script[program]
Sends(i, r) == Steps[i].do = "send" /\ Steps[i].r = r
Expects(i, r) == Steps[i].do = "expect" /\ Steps[i].r = r

\* The steps that have been taken; no script repeats or skips one.
Passed == 1..(at - 1)

\* Before a program starts, only other clients have called.
ServerInv ==
  program = "server" =>
    /\ at = 1 /\ open /\ exit = Running
    /\ \A r \in Own : pc[r] = "idle"

\* Where the script may stand, and why it ended.
ControlInv ==
  /\ program \in Programs \cup {"server"}
  /\ at \in 1..(Len(Steps) + 1)
  /\ open \in BOOLEAN /\ listening \in BOOLEAN /\ gaveUp \in BOOLEAN
  /\ exit \in {Running, "ok", "failed"}
  /\ cause \in {"none", "error", "refused"}
  /\ (exit = "failed") = (cause # "none")
  /\ refused \subseteq Requests

\* An entry of the log is the leaf of a request.
EntriesInv == (\A r \in Requests : pc[r] = "idle") => entries = <<>>

\* The calls sent are those whose send has been passed.
SentInv ==
  program # "server" =>
    \A r \in Own : pc[r] # "idle" <=> \E i \in Passed : Sends(i, r)

\* A call that is sent asks what the script says.
CallInv == \A r \in Own : pc[r] # "idle" => call[r] = OwnCall(r)

\* An answer that was waited for had the status expected.
AnsweredInv ==
  \A i \in Passed : Steps[i].do = "expect" =>
    /\ pc[Steps[i].r] = "done"
    /\ reply[Steps[i].r].status = Steps[i].status

\* A call is sent after the answers waited for before it, and after every
\* earlier call has been handed on to the log or answered.
OrderInv ==
  \A j \in Passed : Steps[j].do = "send" =>
    \A i \in 1..(j - 1) :
      /\ Steps[i].do = "expect" => Steps[i].r \in before[Steps[j].r]
      /\ Steps[i].do = "send" => pc[Steps[i].r] # "handling"

\* What the calls may be answered with.
StatusInv ==
  \A r \in Own : pc[r] = "done" =>
    CASE r = "empty" -> reply[r].status = 400
      [] r = "far" -> \/ reply[r].status \in {404, 500}
                      \/ reply[r].status = 200 /\ FarIndex < checkpoint.size
      [] OTHER -> reply[r].status \in {200, 500}

\* The appender and the server are closed where the script says so.
ClosedInv ==
  /\ ~open => \E i \in 1..at : i <= Len(Steps) /\ Steps[i].do = "close"
  /\ program \in {"sprint1", "sprint1b"} =>
       ~listening /\ \A c \in Clients : pc[c] = "idle"
  /\ (\E i \in Passed : Steps[i].do = "stop") =>
       ~listening /\ (gaveUp \/ \A c \in Clients : ~InFlight(c))
  /\ refused # {} => ~open

Entry1b == <<"entry00", "entry04", "entry05", "entry09">>
Added == Len(entries) + Len(queue)

\* Unless one is refused, sprint 1b adds its entries in their order; nothing
\* else is added.
BatchInv ==
  program = "sprint1b" /\ NoneRefused =>
    /\ \A r \in Own : pc[r] # "lost"
    /\ pc["entry00"] # "done" /\ pc["entry05"] # "done"
    /\ Added <= 4
    /\ \A i \in 1..Len(entries) : entries[i] = Entry1b[i]
    /\ \A i \in 1..Len(queue) : queue[i].request = Entry1b[Len(entries) + i]
    /\ \A k \in 1..4 :
         /\ pc[Entry1b[k]] \in {"idle", "handling"} => Added < k
         /\ pc[Entry1b[k]] = "awaiting" \/ Answered(Entry1b[k], "submit")
              => k <= Added

DInv ==
  /\ ServerInv /\ ControlInv /\ EntriesInv /\ SentInv /\ CallInv /\ AnsweredInv
  /\ OrderInv /\ StatusInv /\ ClosedInv /\ BatchInv
  /\ BatchCheckpoints /\ FalseAlarms /\ ClosedToNobody

-----------------------------------------------------------------------------
(***************************************************************************)
(* What the scripts say, step by step.                                     *)
(***************************************************************************)

\* No script is changed by what happens, so each has its length.
LEMMA Lengths ==
  /\ Len(Sprint1) = 5 /\ Len(Sprint1b) = 12
  /\ Len(Sprint2) = 14 /\ Len(Sprint3) = 23
BY DEF Sprint1, Sprint1b, Sprint2, Sprint3, Sprint3Calls

\* The script that runs is that of the program.
LEMMA StepsOf ==
  /\ program = "server" => Steps = <<>> /\ Len(Steps) = 0
  /\ program = "sprint1" => Steps = Sprint1 /\ Len(Steps) = 5
  /\ program = "sprint1b" => Steps = Sprint1b /\ Len(Steps) = 12
  /\ program = "sprint2" => Steps = Sprint2 /\ Len(Steps) = 14
  /\ program = "sprint3" => Steps = Sprint3 /\ Len(Steps) = 23
BY Lengths DEF Steps, Script

\* Sprint 1 adds one leaf, and shuts the appender down when it is answered.
LEMMA Script1 ==
  ASSUME NEW i \in 1..5
  PROVE  /\ Sprint1[i].do = "send" => i = 1 /\ Sprint1[i].r = "leaf"
         /\ Sprint1[i].do = "expect" =>
              i = 2 /\ Sprint1[i].r = "leaf" /\ Sprint1[i].status = 200
         /\ i = 1 <=> Sprint1[i].do = "send"
         /\ i = 2 <=> Sprint1[i].do = "expect"
         /\ i = 3 <=> Sprint1[i].do = "close"
         /\ Sprint1[i].do \notin {"stop", "compare"}
BY DEF Sprint1, Send, Expect, Include, Tamper, Close

\* Sprint 1b adds two batches of two and waits for the last of each.
LEMMA Script1b ==
  ASSUME NEW i \in 1..12
  PROVE  /\ i \in {1, 2, 4, 5} <=> Sprint1b[i].do = "send"
         /\ i = 1 => Sprint1b[i].r = "entry00"
         /\ i = 2 => Sprint1b[i].r = "entry04"
         /\ i = 4 => Sprint1b[i].r = "entry05"
         /\ i = 5 => Sprint1b[i].r = "entry09"
         /\ i \in {3, 6} <=> Sprint1b[i].do = "expect"
         /\ i \in {3, 6} => Sprint1b[i].status = 200
         /\ i = 3 => Sprint1b[i].r = "entry04"
         /\ i = 6 => Sprint1b[i].r = "entry09"
         /\ i = 7 <=> Sprint1b[i].do = "close"
         /\ Sprint1b[i].do \notin {"stop", "compare"}
BY DEF Sprint1b, Send, Expect, Include, Extend, Forge, Close

\* Sprint 2 adds three leaves and waits for each.
LEMMA Script2 ==
  ASSUME NEW i \in 1..14
  PROVE  /\ i \in {1, 3, 5} <=> Sprint2[i].do = "send"
         /\ i \in {2, 4, 6} <=> Sprint2[i].do = "expect"
         /\ i \in {1, 2} => Sprint2[i].r = "htt"
         /\ i \in {3, 4} => Sprint2[i].r = "build"
         /\ i \in {5, 6} => Sprint2[i].r = "deploy"
         /\ i \in {2, 4, 6} => Sprint2[i].status = 200
         /\ i = 7 <=> Sprint2[i].do = "close"
         /\ i = 11 <=> Sprint2[i].do = "compare"
         /\ i = 11 => Sprint2[i].old = "htt" /\ Sprint2[i].head = "deploy"
         /\ i = 14 <=> Sprint2[i].do = "stop"
BY DEF Sprint2, Send, Expect, Include, Tamper, Extend, IfGrew, Close, Stop

\* Sprint 3 makes nine calls, each after the answer to the last, and stops the
\* server before it shuts the appender down.
LEMMA Script3 ==
  ASSUME NEW i \in 1..23
  PROVE  /\ i \in {1, 3, 5, 7, 10, 14, 17, 19} <=> Sprint3[i].do = "send"
         /\ i \in {2, 4, 6, 8, 11, 15, 18, 20} <=> Sprint3[i].do = "expect"
         /\ i \in {1, 2} => Sprint3[i].r = "htt"
         /\ i \in {3, 4} => Sprint3[i].r = "build"
         /\ i \in {5, 6} => Sprint3[i].r = "sth"
         /\ i \in {7, 8} => Sprint3[i].r = "proveHtt"
         /\ i \in {10, 11} => Sprint3[i].r = "proveBuild"
         /\ i \in {14, 15} => Sprint3[i].r = "consistency"
         /\ i \in {17, 18} => Sprint3[i].r = "far"
         /\ i \in {19, 20} => Sprint3[i].r = "empty"
         /\ i \in {2, 4, 6, 8, 11, 15} => Sprint3[i].status = 200
         /\ i = 18 => Sprint3[i].status = 404
         /\ i = 20 => Sprint3[i].status = 400
         /\ i = 13 <=> Sprint3[i].do = "compare"
         /\ i = 13 => Sprint3[i].old = "htt" /\ Sprint3[i].head = "sth"
         /\ i = 22 <=> Sprint3[i].do = "stop"
         /\ i = 23 <=> Sprint3[i].do = "close"
BY DEF Sprint3, Sprint3Calls, Send, Expect, Include, Extend, IfGrew, Cli, Close,
       Stop

\* Every call of a script is one of its own.
LEMMA StepCalls ==
  ASSUME program \in Programs \cup {"server"}, NEW i \in 1..Len(Steps),
         Steps[i].do \in {"send", "expect"}
  PROVE  Steps[i].r \in Own
<1> USE StepsOf DEF Own, OwnLeaves, Queries, Entries1b
<1>1. CASE program = "sprint1"
  <2>1. Steps = Sprint1 /\ Len(Steps) = 5
    BY <1>1
  <2>2. i \in 1..5
    BY <2>1
  <2> QED BY <2>1, <2>2, Script1
<1>2. CASE program = "sprint1b"
  <2>1. Steps = Sprint1b /\ Len(Steps) = 12
    BY <1>2
  <2>2. i \in 1..12
    BY <2>1
  <2> QED BY <2>1, <2>2, Script1b
<1>3. CASE program = "sprint2"
  <2>1. Steps = Sprint2 /\ Len(Steps) = 14
    BY <1>3
  <2>2. i \in 1..14
    BY <2>1
  <2> QED BY <2>1, <2>2, Script2
<1>4. CASE program = "sprint3"
  <2>1. Steps = Sprint3 /\ Len(Steps) = 23
    BY <1>4
  <2>2. i \in 1..23
    BY <2>1
  <2> QED BY <2>1, <2>2, Script3
<1>5. CASE program = "server"
  BY <1>5
<1> QED BY <1>1, <1>2, <1>3, <1>4, <1>5 DEF Programs

-----------------------------------------------------------------------------
(***************************************************************************)
(* What a step may do.                                                     *)
(***************************************************************************)

\* The script moves on by one step, and only where that step allows it.
LEMMA Advance ==
  ASSUME DemoNext, ControlInv, ConsistencyIsChecked, at' # at
  PROVE  /\ program # "server" /\ program' = program
         /\ exit = Running
         /\ at \in 1..Len(Steps) /\ at' = at + 1
         /\ \/ \E r \in Own : Call(r) /\ Sends(at, r)
            \/ /\ UNCHANGED vars
               /\ Steps[at].do = "expect" =>
                    /\ pc[Steps[at].r] = "done"
                    /\ reply[Steps[at].r].status = Steps[at].status
               /\ Steps[at].do # "send"
               /\ Steps[at].do = "close" => ~open
               /\ Steps[at].do = "stop" => StopReturns
<1> USE DEF Steps, Step, Doing, Started, Proceed, Fail, ControlInv
<1>1. ASSUME NEW p \in Programs, NEW up \in BOOLEAN, Start(p, up) PROVE FALSE
  BY <1>1 DEF Start
<1>2. CASE MainStep
  <2>1. ASSUME NEW r \in Own, Call(r)
        PROVE  at' = at + 1 /\ Sends(at, r)
    BY <2>1 DEF Call, Sends
  <2>2. CASE Compare
    BY <2>2 DEF Compare, ConsistencyIsChecked
  <2>3. CASE Receive
    BY <2>3 DEF Receive
  <2>4. CASE Check
    BY <2>4 DEF Check, Checks
  <2>5. CASE ShutDown \/ StopListening \/ End
    BY <2>5 DEF ShutDown, StopListening, End
  <2>6. CASE ShutDownReturns
    BY <2>6 DEF ShutDownReturns
  <2>7. CASE StopReturns
    BY <2>7 DEF StopReturns
  <2>8. \A r \in Own : Call(r) => program # "server" /\ exit = Running
                                   /\ program' = program /\ at <= Len(Steps)
    BY DEF Call
  <2> QED BY <1>2, <2>1, <2>2, <2>3, <2>4, <2>5, <2>6, <2>7, <2>8 DEF MainStep
<1>3. CASE CheckFails \/ ShutDownFails
  BY <1>3 DEF CheckFails, ShutDownFails
<1>4. ASSUME NEW c \in Clients, ClientArrives(c) PROVE FALSE
  BY <1>4 DEF ClientArrives, demoVars
<1>5. ASSUME NEW r \in Requests, Serve(r) \/ ServeFails(r) \/ Refuse(r) PROVE FALSE
  BY <1>5 DEF Serve, ServeFails, Refuse, demoVars
<1>6. CASE Library(Timers)
  BY <1>6 DEF Library, demoVars
<1> QED BY <1>1, <1>2, <1>3, <1>4, <1>5, <1>6 DEF DemoNext

\* Otherwise the program stays what it is, unless it is started.
LEMMA Standing ==
  ASSUME DemoNext, ControlInv, at' = at
  PROVE  \/ program' = program
         \/ \E p \in Programs, up \in BOOLEAN : Start(p, up)
<1>1. CASE MainStep
  BY <1>1 DEF MainStep, Call, Compare, Receive, Check, ShutDown, ShutDownReturns,
     StopListening, StopReturns, End, Proceed, Fail
<1> QED BY <1>1 DEF DemoNext, CheckFails, ShutDownFails, Fail, ClientArrives,
     Serve, ServeFails, Refuse, Library, demoVars

\* A call starts by a step of the script, or of the client that makes it.
LEMMA LeavesIdle ==
  ASSUME DemoNext, TypeOK, NEW r \in Requests, pc[r] = "idle", pc'[r] # "idle"
  PROVE  /\ Arrive(r)
         /\ r \in Own => Call(r)
         /\ r \notin Own => ClientArrives(r)
<1> USE DEF TypeOK, Goto, Answer
<1>1. ASSUME NEW p \in Programs, NEW up \in BOOLEAN, Start(p, up) PROVE FALSE
  BY <1>1 DEF Start, Restart, InFlight, vars, apiVars
<1>2. CASE MainStep
  <2>1. ASSUME NEW q \in Own, Call(q) PROVE r \in Own /\ Call(r) /\ Arrive(r)
    BY <2>1 DEF Call, Arrive
  <2>2. ASSUME UNCHANGED vars PROVE FALSE
    BY <2>2 DEF vars, apiVars
  <2> QED BY <1>2, <2>1, <2>2 DEF MainStep, Compare, Receive, Check, ShutDown,
       ShutDownReturns, StopListening, StopReturns, End
<1>3. CASE CheckFails \/ ShutDownFails
  BY <1>3 DEF CheckFails, ShutDownFails, vars, apiVars
<1>4. ASSUME NEW c \in Clients, ClientArrives(c)
      PROVE  r \notin Own /\ ClientArrives(r) /\ Arrive(r)
  BY <1>4, DemoRequests DEF ClientArrives, Arrive
<1>5. ASSUME NEW q \in Requests, Serve(q) \/ ServeFails(q) \/ Refuse(q) PROVE FALSE
  BY <1>5 DEF Serve, ServeFails, Refuse, SubmitReject, SubmitAdd, SubmitReply,
     Prove, ProveReject, ProveOutOfRange, ProveRead, ProveReply, STHReply,
     Consistency, ConsistencyReject, ConsistencyRead, ConsistencyReply,
     SubmitFail, ReadFail, Handling
<1>6. CASE Library(Timers)
  BY <1>6 DEF Library, apiVars
<1> QED BY <1>1, <1>2, <1>3, <1>4, <1>5, <1>6 DEF DemoNext

\* A call's steps once it has arrived: an answer, or a step of its handler.
LEMMA StaysCalled ==
  ASSUME DemoNext, TypeOK, NEW r \in Requests, pc[r] # "idle"
  PROVE  /\ pc'[r] # "idle" /\ call'[r] = call[r] /\ before'[r] = before[r]
         /\ pc'[r] = "handling" => pc[r] = "handling"
         /\ pc[r] = "done" => pc'[r] = "done" /\ reply'[r] = reply[r]
<1>1. [Next]_vars
  BY DemoStepIsLogStep
<1>2. /\ pc'[r] # "idle" /\ call'[r] = call[r] /\ before'[r] = before[r]
      /\ pc[r] = "done" => pc'[r] = "done" /\ reply'[r] = reply[r]
  BY <1>1, CallStays, AnswerStays
<1>3. pc'[r] = "handling" => pc[r] = "handling"
  BY <1>1 DEF Next, vars, apiVars, Arrive, Handle, Submit, Prove, Consistency,
     SubmitReject, SubmitAdd, SubmitReply, ProveReject, ProveOutOfRange,
     ProveRead, ProveReply, STHReply, ConsistencyReject, ConsistencyRead,
     ConsistencyReply, SubmitFail, ReadFail, Restart, InFlight, Answer, Goto,
     TypeOK
<1> QED BY <1>2, <1>3

\* A step starts a program, moves the script by one, or leaves it where it is;
\* only a send starts a call.
LEMMA Moves ==
  ASSUME DemoNext, ControlInv, ConsistencyIsChecked
  PROVE  \/ \E p \in Programs, up \in BOOLEAN : Start(p, up)
         \/ /\ program' = program /\ Steps' = Steps
            /\ \/ at' = at
               \/ at' = at + 1 /\ at \in 1..Len(Steps) /\ program # "server"
<1>1. CASE at' = at
  <2>1. CASE program' = program
    BY <1>1, <2>1 DEF Steps
  <2> QED BY <1>1, <2>1, Standing
<1>2. CASE at' # at
  BY <1>2, Advance DEF Steps
<1> QED BY <1>1, <1>2

\* Positions are numbers.
LEMMA Positions ==
  ASSUME ControlInv
  PROVE  at \in Nat /\ Len(Steps) \in Nat
<1>1. Len(Steps) \in Nat
  BY StepsOf DEF ControlInv, Programs
<1> QED BY <1>1 DEF ControlInv

\* A program starts with its own calls still to make.
LEMMA StartKeeps ==
  ASSUME NEW p \in Programs, NEW up \in BOOLEAN, Start(p, up), TypeOK, ServerInv,
         ControlInv
  PROVE  /\ program = "server" /\ program' = p
         /\ at = 1 /\ at' = 1 /\ open /\ open' /\ exit = Running
         /\ \A r \in Own : pc[r] = "idle" /\ pc'[r] = "idle"
         /\ p \in {"sprint1", "sprint1b"} =>
              /\ ~listening'
              /\ \A r \in Requests : pc[r] = "idle" /\ pc'[r] = "idle"
              /\ UNCHANGED <<queue, entries>>
         /\ Passed' = {}
<1>1. program = "server" /\ program' = p /\ at = 1 /\ at' = 1 /\ open /\ open'
  BY DEF Start, ServerInv, ControlInv
<1>2. \A r \in Own : pc[r] = "idle" /\ r \in Requests
  BY <1>1, DemoRequests DEF ServerInv
<1>3. \A r \in Own : pc'[r] = "idle"
  BY <1>2 DEF Start, vars, apiVars, Restart, InFlight, TypeOK
<1>4. p \in {"sprint1", "sprint1b"} =>
        /\ ~listening'
        /\ \A r \in Requests : pc[r] = "idle" /\ pc'[r] = "idle"
        /\ UNCHANGED <<queue, entries>>
  BY DEF Start, vars, apiVars, tesseraVars
<1> QED BY <1>1, <1>2, <1>3, <1>4 DEF ServerInv, Passed

\* A script is left only at its end, and a program fails for one reason.
LEMMA ControlStep ==
  ASSUME DemoNext, TypeOK, ControlInv, ServerInv, ConsistencyIsChecked
  PROVE  ControlInv'
<1>1. /\ program' \in Programs \cup {"server"}
      /\ at' \in 1..(Len(Steps') + 1)
  <2>1. CASE \E p \in Programs, up \in BOOLEAN : Start(p, up)
    <3>1. program' \in Programs /\ at' = 1
      BY <2>1, StartKeeps
    <3>2. Steps' \in {Sprint1, Sprint1b, Sprint2, Sprint3}
      BY <3>1 DEF Steps, Script, Programs
    <3> QED BY <3>1, <3>2, Lengths
  <2>2. CASE program' = program /\ Steps' = Steps /\ at' = at
    BY <2>2 DEF ControlInv
  <2>3. CASE program' = program /\ Steps' = Steps /\ at' = at + 1
             /\ at \in 1..Len(Steps)
    BY <2>3, Positions DEF ControlInv
  <2> QED BY <2>1, <2>2, <2>3, Moves
<1>2. /\ open' \in BOOLEAN /\ listening' \in BOOLEAN /\ gaveUp' \in BOOLEAN
      /\ exit' \in {Running, "ok", "failed"}
      /\ cause' \in {"none", "error", "refused"}
      /\ (exit' = "failed") = (cause' # "none")
      /\ refused' \subseteq Requests
  BY DEF ControlInv, DemoNext, Start, MainStep, Call, Compare, Receive, Check,
     CheckFails, ShutDown, ShutDownReturns, ShutDownFails, StopListening,
     StopReturns, End, ClientArrives, Serve, ServeFails, Refuse, Library,
     demoVars, Proceed, Fail, Started, Doing, Running
<1> QED BY <1>1, <1>2 DEF ControlInv

\* Until a program is started none of its calls is made.
LEMMA ServerStep ==
  ASSUME DemoNext, TypeOK, ControlInv, ServerInv, ConsistencyIsChecked
  PROVE  ServerInv'
<1> SUFFICES ASSUME program' = "server" PROVE ServerInv'
  BY DEF ServerInv
<1>1. CASE \E p \in Programs, up \in BOOLEAN : Start(p, up)
  BY <1>1, StartKeeps DEF Programs
<1>2. CASE program' = program /\ at' = at
  <2>1. ASSUME NEW r \in Own PROVE pc'[r] = "idle"
    <3>1. pc[r] = "idle" /\ r \in Requests
      BY <1>2, DemoRequests DEF ServerInv
    <3>2. ~ Call(r)
      BY <1>2 DEF Call, Doing, Started
    <3> QED BY <3>1, <3>2, LeavesIdle
  <2>2. open /\ exit = Running /\ ~Started
    BY <1>2 DEF ServerInv, Started
  <2>3. ~(MainStep \/ CheckFails \/ ShutDownFails)
    BY <2>2 DEF MainStep, Call, Compare, Receive, Check, CheckFails, ShutDown,
       ShutDownReturns, ShutDownFails, StopListening, StopReturns, End, Doing
  <2>4. ASSUME NEW p \in Programs, NEW up \in BOOLEAN, Start(p, up) PROVE FALSE
    BY <2>4, StartKeeps DEF Programs
  <2>5. open' /\ exit' = Running
    BY <2>2, <2>3, <2>4 DEF DemoNext, ClientArrives, Serve, ServeFails, Refuse,
       Library, demoVars
  <2> QED BY <1>2, <2>1, <2>5 DEF ServerInv
<1> QED BY <1>1, <1>2, Moves

\* An entry is a queued leaf first, and a queued leaf is that of a request.
LEMMA EntriesStep ==
  ASSUME DemoNext, IInv, EntriesInv
  PROVE  EntriesInv'
<1> SUFFICES ASSUME \A r \in Requests : pc'[r] = "idle" PROVE entries' = <<>>
  BY DEF EntriesInv
<1>0. TypeOK /\ [Next]_vars
  BY DemoStepIsLogStep DEF IInv
<1>1. \A r \in Requests : pc[r] = "idle"
  BY <1>0, StaysCalled
<1>2. Len(queue) = 0
  <2>1. Len(queue) \in Nat
    BY <1>0, LenProperties DEF TypeOK
  <2>2. ASSUME Len(queue) > 0 PROVE FALSE
    <3>1. 1 \in 1..Len(queue)
      BY <2>1, <2>2
    <3> QED BY <1>0, <1>1, <3>1, QueueMember DEF IInv, QueueInv, Accepted
  <2> QED BY <2>1, <2>2
<1>3. ~ IntegrateBatch
  BY <1>2 DEF IntegrateBatch
<1>4. entries' = entries
  BY <1>0, <1>3 DEF Next, vars, tesseraVars, Arrive, Handle, Submit, Prove,
     Consistency, SubmitReject, SubmitAdd, SubmitReply, ProveReject,
     ProveOutOfRange, ProveRead, ProveReply, STHReply, ConsistencyReject,
     ConsistencyRead, ConsistencyReply, SubmitFail, ReadFail, Background,
     PublishCheckpoint, PollCheckpoint, Add, Restart, Reopen
<1> QED BY <1>1, <1>4 DEF EntriesInv

\* Each send is passed by making its call, and no call is made otherwise.
LEMMA SentStep ==
  ASSUME DemoNext, TypeOK, ControlInv, ServerInv, SentInv, ConsistencyIsChecked
  PROVE  SentInv'
<1> SUFFICES ASSUME program' # "server", NEW r \in Own
             PROVE  (pc[r] # "idle" <=> \E i \in Passed : Sends(i, r))'
  BY DEF SentInv
<1>0. r \in Requests
  BY DemoRequests
<1>1. CASE \E p \in Programs, up \in BOOLEAN : Start(p, up)
  BY <1>1, StartKeeps
<1>2. CASE program' = program /\ Steps' = Steps /\ at' = at
  <2>1. ~ Call(r)
    BY <1>2 DEF Call, Proceed, ControlInv
  <2>2. pc[r] = "idle" <=> pc'[r] = "idle"
    BY <1>0, <2>1, LeavesIdle, StaysCalled
  <2> QED BY <1>2, <2>2 DEF SentInv, Passed, Sends
<1>3. CASE /\ program' = program /\ Steps' = Steps
           /\ at' = at + 1 /\ at \in 1..Len(Steps) /\ program # "server"
  <2>1. Passed' = Passed \cup {at} /\ at \in Int
    BY <1>3 DEF Passed, ControlInv
  <2>2. pc[r] # "idle" <=> \E i \in Passed : Sends(i, r)
    BY <1>3 DEF SentInv
  <2>3. CASE pc[r] # "idle"
    BY <1>0, <1>3, <2>1, <2>2, <2>3, StaysCalled DEF Sends
  <2>4. CASE pc[r] = "idle" /\ Call(r)
    <3>1. pc'[r] = "handling" /\ Sends(at, r)
      BY <1>0, <2>4 DEF Call, Arrive, Goto, TypeOK, Doing, Sends, Step, Steps
    <3> QED BY <1>3, <2>1, <3>1 DEF Sends
  <2>5. CASE pc[r] = "idle" /\ ~Call(r)
    <3>1. pc'[r] = "idle"
      BY <1>0, <2>5, LeavesIdle
    <3>2. ~ Sends(at, r)
      BY <1>3, <2>5, Advance DEF Sends, ControlInv
    <3> QED BY <1>3, <2>1, <2>2, <2>5, <3>1, <3>2 DEF Sends
  <2> QED BY <2>3, <2>4, <2>5
<1> QED BY <1>1, <1>2, <1>3, Moves

\* A wait is passed only on the status it expects, and an answer is final.
LEMMA AnsweredStep ==
  ASSUME DemoNext, TypeOK, ControlInv, ServerInv, AnsweredInv, ConsistencyIsChecked
  PROVE  AnsweredInv'
<1> SUFFICES ASSUME NEW i \in Passed', Steps'[i].do = "expect"
             PROVE  /\ pc'[Steps'[i].r] = "done"
                    /\ reply'[Steps'[i].r].status = Steps'[i].status
  BY DEF AnsweredInv
<1>1. CASE \E p \in Programs, up \in BOOLEAN : Start(p, up)
  BY <1>1, StartKeeps
<1>2. CASE program' = program /\ Steps' = Steps /\ i \in Passed
  <2>1. Steps[i].r \in Requests
    BY <1>2, StepCalls, DemoRequests DEF ControlInv, Passed
  <2> QED BY <1>2, <2>1, StaysCalled DEF AnsweredInv
<1>3. CASE /\ program' = program /\ Steps' = Steps
           /\ i = at /\ at' = at + 1
  BY <1>3, Advance DEF ControlInv, Sends, vars, apiVars
<1>4. /\ program' = program /\ Steps' = Steps /\ at' \in {at, at + 1}
      => i \in Passed \/ (i = at /\ at' = at + 1)
  BY Positions DEF Passed
<1> QED BY <1>1, <1>2, <1>3, <1>4, Moves

\* Call notes the answers there are when it sends, all those waited for so far
\* among them, and is not made while an earlier Add is still to come.
LEMMA OrderStep ==
  ASSUME DemoNext, TypeOK, ControlInv, ServerInv, AnsweredInv, OrderInv, SentInv,
         ConsistencyIsChecked
  PROVE  OrderInv'
<1> SUFFICES ASSUME NEW j \in Passed', Steps'[j].do = "send", NEW i \in 1..(j - 1)
             PROVE  /\ Steps'[i].do = "expect" => Steps'[i].r \in before'[Steps'[j].r]
                    /\ Steps'[i].do = "send" => pc'[Steps'[i].r] # "handling"
  BY DEF OrderInv
<1>1. CASE \E p \in Programs, up \in BOOLEAN : Start(p, up)
  BY <1>1, StartKeeps
<1>2. ASSUME program' = program, Steps' = Steps, at' \in {at, at + 1},
             program # "server"
      PROVE  /\ i \in Passed
             /\ Steps[i].do \in {"send", "expect"} =>
                  Steps[i].r \in Own /\ Steps[i].r \in Requests
  <2>1. i \in Passed /\ i \in 1..Len(Steps)
    BY <1>2 DEF Passed, ControlInv
  <2> QED BY <2>1, StepCalls, DemoRequests DEF ControlInv
<1>3. CASE program' = program /\ Steps' = Steps /\ program # "server"
           /\ j \in Passed /\ at' \in {at, at + 1}
  <2>1. Steps[j].r \in Own /\ Steps[j].r \in Requests
    BY <1>3, StepCalls, DemoRequests DEF ControlInv, Passed
  <2>2. pc[Steps[j].r] # "idle"
    BY <1>3, <2>1 DEF SentInv, Sends
  <2>3. before'[Steps[j].r] = before[Steps[j].r]
    BY <2>1, <2>2, StaysCalled
  <2>4. ASSUME Steps[i].do = "send" PROVE pc'[Steps[i].r] # "handling"
    <3>1. pc[Steps[i].r] # "handling"
      BY <1>3, <2>4 DEF OrderInv
    <3>2. pc[Steps[i].r] # "idle"
      BY <1>2, <1>3, <2>4 DEF SentInv, Sends
    <3> QED BY <1>2, <1>3, <2>4, <3>1, <3>2, StaysCalled
  <2> QED BY <1>3, <2>3, <2>4 DEF OrderInv
<1>4. CASE /\ program' = program /\ Steps' = Steps /\ program # "server"
           /\ j = at /\ at' = at + 1
  <2>1. PICK r \in Own : Call(r) /\ Sends(at, r)
    BY <1>4, Advance DEF ControlInv
  <2>2. /\ before'[r] = {q \in Requests : pc[q] = "done"}
        /\ \A q \in Own : pc[q] # "handling"
        /\ \A q \in Own : q # r => pc'[q] = pc[q]
        /\ pc[r] = "idle"
    BY <2>1, DemoRequests DEF Call, Arrive, Goto, TypeOK
  <2>3. ASSUME Steps[i].do = "expect" PROVE Steps[i].r \in before'[r]
    BY <1>2, <1>4, <2>2, <2>3 DEF AnsweredInv
  <2>4. ASSUME Steps[i].do = "send" PROVE pc'[Steps[i].r] # "handling"
    <3>1. pc[Steps[i].r] # "idle"
      BY <1>2, <1>4, <2>4 DEF SentInv, Sends
    <3> QED BY <1>2, <1>4, <2>2, <2>4, <3>1
  <2> QED BY <1>4, <2>1, <2>3, <2>4 DEF Sends
<1>5. at' \in {at, at + 1} => j \in Passed \/ (j = at /\ at' = at + 1)
  BY Positions DEF Passed
<1>6. CASE program = "server" /\ at' = at
  BY <1>6 DEF ServerInv, Passed
<1> QED BY <1>1, <1>3, <1>4, <1>5, <1>6, Moves

-----------------------------------------------------------------------------
(***************************************************************************)
(* What has been answered at each position of a script.                    *)
(***************************************************************************)

ScriptInv == ControlInv /\ ServerInv /\ SentInv /\ CallInv /\ AnsweredInv /\ OrderInv

\* What the scripts ask.
LEMMA OwnCalls ==
  /\ \A r \in OwnLeaves : OwnCall(r) = [op |-> "submit", leaf |-> r]
  /\ OwnCall("empty") = [op |-> "submit", leaf |-> NoLeaf]
  /\ OwnCall("sth") = [op |-> "sth"]
  /\ OwnCall("proveHtt") = [op |-> "prove", index |-> reply["htt"].index]
  /\ OwnCall("proveBuild") = [op |-> "prove", index |-> reply["build"].index]
  /\ OwnCall("far") = [op |-> "prove", index |-> FarIndex]
  /\ OwnCall("consistency") =
       [op |-> "consistency", from |-> reply["htt"].size, to |-> reply["sth"].size]
BY DEF OwnCall, OwnLeaves, Entries1b

\* A proof is asked for after the answers it is about.
LEMMA QueriesFollow ==
  ASSUME ControlInv, ServerInv, SentInv, AnsweredInv
  PROVE  /\ \A r \in Queries : pc[r] # "idle" => program = "sprint3"
         /\ pc["proveHtt"] # "idle" => at > 7 /\ pc["htt"] = "done"
         /\ pc["proveBuild"] # "idle" => at > 10 /\ pc["build"] = "done"
         /\ pc["consistency"] # "idle" =>
              at > 14 /\ pc["htt"] = "done" /\ pc["sth"] = "done"
<1>1. ASSUME NEW r \in Queries, pc[r] # "idle"
      PROVE  /\ program = "sprint3"
             /\ \E i \in Passed : i \in 1..23 /\ Steps = Sprint3 /\ Sends(i, r)
  <2>1. r \in Own /\ r \notin OwnLeaves
    BY DEF Own, Queries, OwnLeaves, Entries1b
  <2>2. program # "server"
    BY <1>1, <2>1 DEF ServerInv
  <2>3. PICK i \in Passed : Sends(i, r)
    BY <1>1, <2>1, <2>2 DEF SentInv
  <2>4. i \in 1..Len(Steps)
    BY Positions DEF Passed, ControlInv
  <2>5. program \notin {"sprint1", "sprint1b", "sprint2"}
    <3>1. ASSUME program = "sprint1" PROVE FALSE
      <4>1. Steps = Sprint1 /\ Len(Steps) = 5
        BY <3>1, StepsOf
      <4>2. i \in 1..5
        BY <2>4, <4>1
      <4> QED BY <2>1, <2>3, <4>1, <4>2, Script1 DEF Sends, OwnLeaves
    <3>2. ASSUME program = "sprint1b" PROVE FALSE
      <4>1. Steps = Sprint1b /\ Len(Steps) = 12
        BY <3>2, StepsOf
      <4>2. i \in 1..12
        BY <2>4, <4>1
      <4> QED BY <2>1, <2>3, <4>1, <4>2, Script1b DEF Sends, OwnLeaves, Entries1b
    <3>3. ASSUME program = "sprint2" PROVE FALSE
      <4>1. Steps = Sprint2 /\ Len(Steps) = 14
        BY <3>3, StepsOf
      <4>2. i \in 1..14
        BY <2>4, <4>1
      <4> QED BY <2>1, <2>3, <4>1, <4>2, Script2 DEF Sends, OwnLeaves
    <3> QED BY <3>1, <3>2, <3>3
  <2>6. program = "sprint3"
    BY <2>2, <2>5 DEF ControlInv, Programs
  <2> QED BY <2>3, <2>4, <2>6, StepsOf
<1>3. ASSUME pc["proveHtt"] # "idle"
      PROVE  at > 7 /\ pc["htt"] = "done"
  <2>1. PICK i \in Passed : i \in 1..23 /\ Steps = Sprint3 /\ Sends(i, "proveHtt")
    BY <1>1, <1>3 DEF Queries
  <2>2. i = 7
    BY <2>1, Script3 DEF Sends
  <2>3. at > 7 /\ 2 \in Passed
    BY <2>2, Positions DEF Passed
  <2> QED BY <2>1, <2>3, Script3 DEF AnsweredInv
<1>4. ASSUME pc["proveBuild"] # "idle"
      PROVE  at > 10 /\ pc["build"] = "done"
  <2>1. PICK i \in Passed : i \in 1..23 /\ Steps = Sprint3 /\ Sends(i, "proveBuild")
    BY <1>1, <1>4 DEF Queries
  <2>2. i = 10
    BY <2>1, Script3 DEF Sends
  <2>3. at > 10 /\ 4 \in Passed
    BY <2>2, Positions DEF Passed
  <2> QED BY <2>1, <2>3, Script3 DEF AnsweredInv
<1>5. ASSUME pc["consistency"] # "idle"
      PROVE  at > 14 /\ pc["htt"] = "done" /\ pc["sth"] = "done"
  <2>1. PICK i \in Passed : i \in 1..23 /\ Steps = Sprint3 /\ Sends(i, "consistency")
    BY <1>1, <1>5 DEF Queries
  <2>2. i = 14
    BY <2>1, Script3 DEF Sends
  <2>3. at > 14 /\ 2 \in Passed /\ 6 \in Passed
    BY <2>2, Positions DEF Passed
  <2> QED BY <2>1, <2>3, Script3 DEF AnsweredInv
<1> QED BY <1>1, <1>3, <1>4, <1>5

\* What a query asks is read from answers that are already final.
LEMMA CallStep ==
  ASSUME DemoNext, TypeOK, ScriptInv
  PROVE  CallInv'
<1> USE DEF ScriptInv
<1> SUFFICES ASSUME NEW r \in Own, pc'[r] # "idle" PROVE call'[r] = OwnCall(r)'
  BY DEF CallInv
<1>0. r \in Requests /\ {"htt", "build", "sth"} \subseteq Requests
  BY DemoRequests DEF Own, OwnLeaves, Queries
<1>1. CASE pc[r] = "idle"
  <2>1. call'[r] = OwnCall(r) /\ reply' = reply
    BY <1>0, <1>1, LeavesIdle DEF Call, Arrive
  <2> QED BY <2>1 DEF OwnCall
<1>2. CASE pc[r] # "idle"
  <2>1. call'[r] = OwnCall(r)
    BY <1>0, <1>2, StaysCalled DEF CallInv
  <2>2. /\ r = "proveHtt" => reply'["htt"] = reply["htt"]
        /\ r = "proveBuild" => reply'["build"] = reply["build"]
        /\ r = "consistency" =>
             reply'["htt"] = reply["htt"] /\ reply'["sth"] = reply["sth"]
    BY <1>0, <1>2, QueriesFollow, StaysCalled
  <2> QED BY <2>1, <2>2 DEF OwnCall
<1> QED BY <1>1, <1>2

\* A passed wait for 200 was for a receipt, a head or a proof.
LEMMA Received ==
  ASSUME ScriptInv, NEW i \in Passed, Steps[i].do = "expect", Steps[i].status = 200
  PROVE  /\ pc[Steps[i].r] = "done" /\ reply[Steps[i].r].status = 200
         /\ Steps[i].r \in Own /\ Steps[i].r \in Requests
         /\ call[Steps[i].r] = OwnCall(Steps[i].r)
<1>1. i \in 1..Len(Steps)
  BY Positions DEF ScriptInv, Passed, ControlInv
<1>2. Steps[i].r \in Own /\ Steps[i].r \in Requests
  BY <1>1, StepCalls, DemoRequests DEF ScriptInv, ControlInv
<1> QED BY <1>2 DEF ScriptInv, AnsweredInv, CallInv

\* Sprint 1, past its wait.
LEMMA State1 ==
  ASSUME ScriptInv, program = "sprint1", at > 2
  PROVE  Answered("leaf", "submit") /\ call["leaf"].leaf = "leaf"
<1>1. 2 \in Passed /\ Steps = Sprint1
  BY Positions, StepsOf DEF Passed, ScriptInv
<1>2. Steps[2].do = "expect" /\ Steps[2].r = "leaf" /\ Steps[2].status = 200
  BY <1>1, Script1
<1> QED BY <1>1, <1>2, Received, OwnCalls DEF Answered, OwnLeaves

\* Sprint 1b: which entries have been added and which batches awaited.
LEMMA State1b ==
  ASSUME ScriptInv, program = "sprint1b"
  PROVE  /\ \A r \in Own : pc[r] # "idle" => r \in Entries1b
         /\ at > 3 => Answered("entry04", "submit")
         /\ at > 6 => Answered("entry09", "submit")
         /\ \A r \in Entries1b : pc[r] # "idle" =>
              call[r] = [op |-> "submit", leaf |-> r]
         /\ pc["entry00"] # "idle" <=> at > 1
         /\ pc["entry04"] # "idle" <=> at > 2
         /\ pc["entry05"] # "idle" <=> at > 4
         /\ pc["entry09"] # "idle" <=> at > 5
         /\ pc["entry04"] # "idle" => pc["entry00"] # "handling"
         /\ pc["entry05"] # "idle" => pc["entry04"] # "handling"
         /\ pc["entry09"] # "idle" => pc["entry05"] # "handling"
<1>0. Steps = Sprint1b /\ Len(Steps) = 12
  BY StepsOf
<1>1. Steps = Sprint1b /\ at \in 1..13
  BY <1>0 DEF ScriptInv, ControlInv
<1>2. \A i \in Passed : i \in 1..12
  BY <1>1 DEF Passed
<1>3. \A r \in Own : pc[r] # "idle" <=> \E i \in Passed : Sends(i, r)
  BY DEF ScriptInv, SentInv
<1>4. Entries1b \subseteq Own /\ Entries1b \subseteq OwnLeaves
  BY DEF Own, OwnLeaves
<1>5. \A r \in Own : pc[r] # "idle" => r \in Entries1b
  BY <1>1, <1>2, <1>3, Script1b DEF Sends, Entries1b
<1>6. /\ pc["entry00"] # "idle" <=> 1 \in Passed
      /\ pc["entry04"] # "idle" <=> 2 \in Passed
      /\ pc["entry05"] # "idle" <=> 4 \in Passed
      /\ pc["entry09"] # "idle" <=> 5 \in Passed
  BY <1>1, <1>2, <1>3, <1>4, Script1b DEF Sends, Entries1b
<1>7. /\ at > 3 => Answered("entry04", "submit")
      /\ at > 6 => Answered("entry09", "submit")
  <2>1. at > 3 => 3 \in Passed
    BY <1>1 DEF Passed
  <2>2. at > 6 => 6 \in Passed
    BY <1>1 DEF Passed
  <2>3. OwnCall("entry04").op = "submit" /\ OwnCall("entry09").op = "submit"
    BY <1>4, OwnCalls DEF Entries1b
  <2> QED BY <1>1, <2>1, <2>2, <2>3, Received, Script1b DEF Answered
<1>8. /\ pc["entry04"] # "idle" => pc["entry00"] # "handling"
      /\ pc["entry05"] # "idle" => pc["entry04"] # "handling"
      /\ pc["entry09"] # "idle" => pc["entry05"] # "handling"
  <2>1. /\ 2 \in Passed => 1 \in 1..(2 - 1)
        /\ 4 \in Passed => 2 \in 1..(4 - 1)
        /\ 5 \in Passed => 4 \in 1..(5 - 1)
    OBVIOUS
  <2> QED BY <1>1, <1>6, <2>1, Script1b DEF ScriptInv, OrderInv
<1>9. \A r \in Entries1b : pc[r] # "idle" => call[r] = [op |-> "submit", leaf |-> r]
  BY <1>4, OwnCalls DEF ScriptInv, CallInv
<1> QED BY <1>1, <1>5, <1>6, <1>7, <1>8, <1>9 DEF Passed

\* Sprint 2: its receipts, the last one asked for after the others were shown.
LEMMA State2 ==
  ASSUME ScriptInv, program = "sprint2"
  PROVE  /\ at > 2 => Answered("htt", "submit") /\ call["htt"].leaf = "htt"
         /\ at > 4 => Answered("build", "submit") /\ call["build"].leaf = "build"
         /\ at > 6 => /\ Answered("deploy", "submit") /\ call["deploy"].leaf = "deploy"
                      /\ "htt" \in before["deploy"] /\ "build" \in before["deploy"]
<1>0. Steps = Sprint2 /\ Len(Steps) = 14
  BY StepsOf
<1>1. Steps = Sprint2 /\ at \in 1..15
  BY <1>0 DEF ScriptInv, ControlInv
<1>2. /\ at > 2 => 2 \in Passed
      /\ at > 4 => 4 \in Passed
      /\ at > 6 => 6 \in Passed /\ 5 \in Passed
  BY <1>1 DEF Passed
<1>3. \A r \in {"htt", "build", "deploy"} : OwnCall(r) = [op |-> "submit", leaf |-> r]
  BY OwnCalls DEF OwnLeaves
<1>4. ASSUME at > 2 PROVE Answered("htt", "submit") /\ call["htt"].leaf = "htt"
  <2>1. Steps[2].do = "expect" /\ Steps[2].r = "htt" /\ Steps[2].status = 200
    BY <1>1, Script2
  <2> QED BY <1>2, <1>3, <1>4, <2>1, Received DEF Answered
<1>5. ASSUME at > 4 PROVE Answered("build", "submit") /\ call["build"].leaf = "build"
  <2>1. Steps[4].do = "expect" /\ Steps[4].r = "build" /\ Steps[4].status = 200
    BY <1>1, Script2
  <2> QED BY <1>2, <1>3, <1>5, <2>1, Received DEF Answered
<1>6. ASSUME at > 6 PROVE Answered("deploy", "submit") /\ call["deploy"].leaf = "deploy"
  <2>1. Steps[6].do = "expect" /\ Steps[6].r = "deploy" /\ Steps[6].status = 200
    BY <1>1, Script2
  <2> QED BY <1>2, <1>3, <1>6, <2>1, Received DEF Answered
<1>7. ASSUME at > 6 PROVE "htt" \in before["deploy"] /\ "build" \in before["deploy"]
  <2>1. /\ Steps[2].do = "expect" /\ Steps[2].r = "htt"
        /\ Steps[4].do = "expect" /\ Steps[4].r = "build"
        /\ Steps[5].do = "send" /\ Steps[5].r = "deploy"
    BY <1>1, Script2
  <2>2. 2 \in 1..(5 - 1) /\ 4 \in 1..(5 - 1)
    OBVIOUS
  <2> QED BY <1>2, <1>7, <2>1, <2>2 DEF ScriptInv, OrderInv
<1> QED BY <1>4, <1>5, <1>6, <1>7

\* Sprint 3: its answers, and which of them were shown before which call.
LEMMA State3 ==
  ASSUME ScriptInv, program = "sprint3"
  PROVE  /\ at > 2 => Answered("htt", "submit") /\ call["htt"].leaf = "htt"
         /\ at > 4 => Answered("build", "submit") /\ call["build"].leaf = "build"
         /\ at > 3 => "htt" \in before["build"]
         /\ at > 6 => Answered("sth", "sth")
         /\ at > 5 => "htt" \in before["sth"] /\ "build" \in before["sth"]
         /\ at > 7 => "sth" \in before["proveHtt"]
         /\ at > 8 => /\ Answered("proveHtt", "prove")
                      /\ call["proveHtt"].index = reply["htt"].index
         /\ at > 10 => "sth" \in before["proveBuild"]
         /\ at > 11 => /\ Answered("proveBuild", "prove")
                       /\ call["proveBuild"].index = reply["build"].index
         /\ at > 15 => /\ Answered("consistency", "consistency")
                       /\ call["consistency"].from = reply["htt"].size
                       /\ call["consistency"].to = reply["sth"].size
<1>0. Steps = Sprint3 /\ Len(Steps) = 23
  BY StepsOf
<1>1. Steps = Sprint3 /\ at \in 1..24
  BY <1>0 DEF ScriptInv, ControlInv
<1>2. \A i \in 1..23 : i < at => i \in Passed
  BY <1>1 DEF Passed
<1>3. \A r \in {"htt", "build"} : OwnCall(r) = [op |-> "submit", leaf |-> r]
  BY OwnCalls DEF OwnLeaves
<1>4. ASSUME NEW i \in 1..23, i < at, i \in {2, 4, 6, 8, 11, 15}
      PROVE  /\ Steps[i].do = "expect" /\ Steps[i].status = 200
             /\ pc[Steps[i].r] = "done" /\ reply[Steps[i].r].status = 200
             /\ call[Steps[i].r] = OwnCall(Steps[i].r)
  BY <1>1, <1>2, <1>4, Script3, Received
<1>5. /\ at > 2 => Answered("htt", "submit") /\ call["htt"].leaf = "htt"
      /\ at > 4 => Answered("build", "submit") /\ call["build"].leaf = "build"
  <2>1. Steps[2].r = "htt" /\ Steps[4].r = "build"
    BY <1>1, Script3
  <2> QED BY <1>1, <1>3, <1>4, <2>1 DEF Answered
<1>6. at > 6 => Answered("sth", "sth")
  <2>1. Steps[6].r = "sth"
    BY <1>1, Script3
  <2> QED BY <1>1, <1>4, <2>1, OwnCalls DEF Answered
<1>7. /\ at > 8 => /\ Answered("proveHtt", "prove")
                   /\ call["proveHtt"].index = reply["htt"].index
      /\ at > 11 => /\ Answered("proveBuild", "prove")
                    /\ call["proveBuild"].index = reply["build"].index
      /\ at > 15 => /\ Answered("consistency", "consistency")
                    /\ call["consistency"].from = reply["htt"].size
                    /\ call["consistency"].to = reply["sth"].size
  <2>1. Steps[8].r = "proveHtt" /\ Steps[11].r = "proveBuild"
        /\ Steps[15].r = "consistency"
    BY <1>1, Script3
  <2> QED BY <1>1, <1>4, <2>1, OwnCalls DEF Answered
<1>8. /\ at > 3 => "htt" \in before["build"]
      /\ at > 5 => "htt" \in before["sth"] /\ "build" \in before["sth"]
      /\ at > 7 => "sth" \in before["proveHtt"]
      /\ at > 10 => "sth" \in before["proveBuild"]
  <2>1. ASSUME NEW j \in 1..23, j < at, Steps[j].do = "send",
               NEW i \in 1..(j - 1), Steps[i].do = "expect"
        PROVE  Steps[i].r \in before[Steps[j].r]
    BY <1>2, <2>1 DEF ScriptInv, OrderInv
  <2>2. /\ Steps[2].r = "htt" /\ Steps[4].r = "build" /\ Steps[6].r = "sth"
        /\ Steps[3].r = "build" /\ Steps[5].r = "sth"
        /\ Steps[7].r = "proveHtt" /\ Steps[10].r = "proveBuild"
        /\ \A i \in {2, 4, 6} : Steps[i].do = "expect"
        /\ \A j \in {3, 5, 7, 10} : Steps[j].do = "send"
    BY <1>1, Script3
  <2>3. /\ 2 \in 1..(3 - 1) /\ 2 \in 1..(5 - 1) /\ 4 \in 1..(5 - 1)
        /\ 6 \in 1..(7 - 1) /\ 6 \in 1..(10 - 1)
    OBVIOUS
  <2>4. at > 3 => "htt" \in before["build"]
    BY <2>1, <2>2, <2>3
  <2>5. at > 5 => "htt" \in before["sth"] /\ "build" \in before["sth"]
    BY <2>1, <2>2, <2>3
  <2>6. at > 7 => "sth" \in before["proveHtt"]
    BY <2>1, <2>2, <2>3
  <2>7. at > 10 => "sth" \in before["proveBuild"]
    BY <2>1, <2>2, <2>3
  <2> QED BY <2>4, <2>5, <2>6, <2>7
<1> QED BY <1>5, <1>6, <1>7, <1>8

\* The head of sprint 3 covers a leaf submitted after the first receipt.
LEMMA Grown3 ==
  ASSUME IInv, NeverBackdated, ScriptInv, program = "sprint3", at > 6
  PROVE  /\ reply["htt"].size \in 0..checkpoint.size
         /\ reply["sth"].size \in 0..checkpoint.size
         /\ reply["htt"].size < reply["sth"].size
         /\ reply["build"].size <= reply["sth"].size
<1>1. at \in Nat
  BY Positions DEF ScriptInv
<1>2. /\ Answered("htt", "submit") /\ Answered("build", "submit")
      /\ Answered("sth", "sth") /\ "htt" \in before["build"]
      /\ "build" \in before["sth"] /\ {"htt", "build", "sth"} \subseteq Requests
  BY <1>1, State3, DemoRequests DEF Own, OwnLeaves, Queries
<1>3. TellsSize("htt") /\ TellsSize("build") /\ TellsSize("sth")
  BY <1>2 DEF Answered, TellsSize
<1>4. /\ reply["htt"].size <= reply["build"].index
      /\ reply["build"].index \in 0..(reply["build"].size - 1)
      /\ reply["build"].size <= reply["sth"].size
      /\ reply["htt"].size \in 0..checkpoint.size
      /\ reply["build"].size \in 0..checkpoint.size
      /\ reply["sth"].size \in 0..checkpoint.size
  BY <1>2, <1>3 DEF NeverBackdated, IInv, ReplyInv, BeforeInv, WillTellAtLeast
<1> QED BY <1>4

\* Each of the two checks of consistency is between heads of different sizes:
\* a leaf between them was submitted after the first head was shown.
LEMMA Checked ==
  ASSUME IInv, NeverBackdated, ScriptInv
  PROVE  ConsistencyIsChecked
<1> SUFFICES ASSUME Doing({"compare"}) PROVE Grew(Step.old, Step.head)
  BY DEF ConsistencyIsChecked
<1>0. /\ program # "server" /\ at \in 1..Len(Steps) /\ Step = Steps[at]
      /\ Steps[at].do = "compare"
  BY Positions DEF Doing, Started, Step, Steps, ScriptInv, ControlInv
<1>1. CASE program = "sprint2"
  <2>0. Steps = Sprint2 /\ Len(Steps) = 14
    BY <1>1, StepsOf
  <2>1. at = 11 /\ Step.old = "htt" /\ Step.head = "deploy"
    <3>1. at \in 1..14
      BY <1>0, <2>0
    <3> QED BY <1>0, <2>0, <3>1, Script2
  <2>2. /\ Answered("htt", "submit") /\ Answered("deploy", "submit")
        /\ "htt" \in before["deploy"] /\ {"htt", "deploy"} \subseteq Requests
    BY <1>1, <2>1, State2, DemoRequests DEF Own, OwnLeaves
  <2>3. TellsSize("htt") /\ TellsSize("deploy")
    BY <2>2 DEF Answered, TellsSize
  <2>4. /\ reply["htt"].size <= reply["deploy"].index
        /\ reply["deploy"].index \in 0..(reply["deploy"].size - 1)
        /\ reply["htt"].size \in 0..checkpoint.size
        /\ reply["deploy"].size \in 0..checkpoint.size
    BY <2>2, <2>3 DEF NeverBackdated, IInv, ReplyInv
  <2> QED BY <2>1, <2>4 DEF Grew
<1>2. CASE program = "sprint3"
  <2>0. Steps = Sprint3 /\ Len(Steps) = 23
    BY <1>2, StepsOf
  <2>1. at = 13 /\ Step.old = "htt" /\ Step.head = "sth"
    <3>1. at \in 1..23
      BY <1>0, <2>0
    <3> QED BY <1>0, <2>0, <3>1, Script3
  <2> QED BY <1>2, <2>1, Grown3 DEF Grew
<1>3. CASE program = "sprint1"
  <2>0. Steps = Sprint1 /\ Len(Steps) = 5
    BY <1>3, StepsOf
  <2>1. at \in 1..5
    BY <1>0, <2>0
  <2> QED BY <1>0, <2>0, <2>1, Script1
<1>4. CASE program = "sprint1b"
  <2>0. Steps = Sprint1b /\ Len(Steps) = 12
    BY <1>4, StepsOf
  <2>1. at \in 1..12
    BY <1>0, <2>0
  <2> QED BY <1>0, <2>0, <2>1, Script1b
<1> QED BY <1>0, <1>1, <1>2, <1>3, <1>4 DEF ScriptInv, ControlInv, Programs

-----------------------------------------------------------------------------
(***************************************************************************)
(* The appender and the server, open and closed.                           *)
(***************************************************************************)

\* What opens and closes them.
LEMMA Gates ==
  ASSUME DemoNext
  PROVE  \/ \E p \in Programs, up \in BOOLEAN : Start(p, up)
         \/ /\ \/ open' = open
               \/ ShutDown
            /\ ~open => ~open'
            /\ ~listening => ~listening'
            /\ \/ gaveUp' = gaveUp
               \/ StopReturns
            /\ \/ refused' = refused
               \/ \E r \in Requests : Refuse(r)
<1>1. CASE MainStep
  BY <1>1 DEF MainStep, Call, Compare, Receive, Check, ShutDown, ShutDownReturns,
     StopListening, StopReturns, End
<1>2. CASE CheckFails \/ ShutDownFails
  BY <1>2 DEF CheckFails, ShutDownFails
<1>3. CASE \E c \in Clients : ClientArrives(c)
  BY <1>3 DEF ClientArrives, demoVars
<1>4. CASE \E r \in Requests : Serve(r) \/ ServeFails(r)
  BY <1>4 DEF Serve, ServeFails, demoVars
<1>5. CASE \E r \in Requests : Refuse(r)
  BY <1>5 DEF Refuse
<1>6. CASE Library(Timers)
  BY <1>6 DEF Library, demoVars
<1> QED BY <1>1, <1>2, <1>3, <1>4, <1>5, <1>6 DEF DemoNext

\* A request that is over stays over.
LEMMA StaysOver ==
  ASSUME DemoNext, TypeOK, NEW r \in Requests, pc[r] # "idle", ~InFlight(r)
  PROVE  pc'[r] = pc[r]
<1>1. [Next]_vars
  BY DemoStepIsLogStep
<1>2. pc[r] \in {"done", "lost"}
  BY DEF TypeOK, InFlight
<1> QED BY <1>1, <1>2 DEF Next, vars, apiVars, Arrive, Handle, Submit, Prove,
     Consistency, SubmitReject, SubmitAdd, SubmitReply, ProveReject,
     ProveOutOfRange, ProveRead, ProveReply, STHReply, ConsistencyReject,
     ConsistencyRead, ConsistencyReply, SubmitFail, ReadFail, Restart, InFlight,
     Answer, Goto, Handling, TypeOK

\* The position of a script whose appender is shut down.
LEMMA WhereClosed ==
  ASSUME ScriptInv, ClosedInv, ~open
  PROVE  /\ program # "server"
         /\ program = "sprint1" => at > 2
         /\ program = "sprint1b" => at > 6
         /\ program = "sprint3" => at > 22
<1>1. PICK i \in 1..at : i <= Len(Steps) /\ Steps[i].do = "close"
  BY DEF ClosedInv
<1>2. at \in Nat /\ i \in 1..Len(Steps)
  BY <1>1, Positions DEF ScriptInv
<1>3. CASE program = "sprint1"
  <2>1. Steps = Sprint1 /\ Len(Steps) = 5
    BY <1>3, StepsOf
  <2>2. i \in 1..5
    BY <1>2, <2>1
  <2>3. i = 3
    BY <1>1, <2>1, <2>2, Script1
  <2> QED BY <1>2, <1>3, <2>3
<1>4. CASE program = "sprint1b"
  <2>1. Steps = Sprint1b /\ Len(Steps) = 12
    BY <1>4, StepsOf
  <2>2. i \in 1..12
    BY <1>2, <2>1
  <2>3. i = 7
    BY <1>1, <2>1, <2>2, Script1b
  <2> QED BY <1>2, <1>4, <2>3
<1>5. CASE program = "sprint3"
  <2>1. Steps = Sprint3 /\ Len(Steps) = 23
    BY <1>5, StepsOf
  <2>2. i \in 1..23
    BY <1>2, <2>1
  <2>3. i = 23
    BY <1>1, <2>1, <2>2, Script3
  <2> QED BY <1>2, <1>5, <2>3
<1>6. program # "server"
  BY DEF ScriptInv, ServerInv
<1> QED BY <1>3, <1>4, <1>5, <1>6

\* The appender is closed at its place in the script, and so is the server.
LEMMA ClosedStep ==
  ASSUME DemoNext, TypeOK, ScriptInv, ClosedInv, ConsistencyIsChecked
  PROVE  ClosedInv'
<1> USE DEF ScriptInv
<1>1. CASE \E p \in Programs, up \in BOOLEAN : Start(p, up)
  <2>1. PICK p \in Programs, up \in BOOLEAN : Start(p, up)
    BY <1>1
  <2>2. /\ open /\ open' /\ program' = p /\ Passed' = {}
        /\ p \in {"sprint1", "sprint1b"} =>
             ~listening' /\ \A r \in Requests : pc'[r] = "idle"
    BY <2>1, StartKeeps
  <2>3. refused' = {}
    BY <2>1, <2>2 DEF Start, ClosedInv
  <2> QED BY <2>2, <2>3, DemoRequests DEF ClosedInv
<1>2. CASE ~\E p \in Programs, up \in BOOLEAN : Start(p, up)
  <2>1. /\ program' = program /\ Steps' = Steps
        /\ \/ at' = at
           \/ at' = at + 1 /\ at \in 1..Len(Steps) /\ program # "server"
    BY <1>2, Moves
  <2>2. at \in Nat /\ 1..at \subseteq 1..at' /\ Passed \subseteq Passed'
    BY <2>1, Positions DEF Passed
  <2>3. \A c \in Clients : c \in Requests /\ c \notin Own
    BY DemoRequests
  <2>4. ~open' => \E i \in 1..at' : i <= Len(Steps) /\ Steps[i].do = "close"
    <3>1. CASE ~open
      BY <2>2, <3>1 DEF ClosedInv
    <3>2. CASE open /\ ShutDown
      <4>1. Steps[at].do = "close" /\ at <= Len(Steps) /\ at' = at
        BY <3>2 DEF ShutDown, Doing, Step, Steps
      <4>2. at \in 1..at'
        BY <4>1 DEF ControlInv
      <4> QED BY <4>1, <4>2
    <3> QED BY <1>2, <3>1, <3>2, Gates DEF ControlInv
  <2>5. ASSUME program \in {"sprint1", "sprint1b"}
        PROVE  ~listening' /\ \A c \in Clients : pc'[c] = "idle"
    <3>1. ~listening /\ \A c \in Clients : pc[c] = "idle"
      BY <2>5 DEF ClosedInv
    <3>2. \A c \in Clients : ~ClientArrives(c)
      BY <3>1 DEF ClientArrives
    <3> QED BY <1>2, <2>3, <3>1, <3>2, Gates, LeavesIdle
  <2>6. ASSUME NEW i \in Passed', Steps[i].do = "stop"
        PROVE  ~listening' /\ (gaveUp' \/ \A c \in Clients : ~InFlight(c)')
    <3>1. CASE i \in Passed /\ ~StopReturns
      <4>1. ~listening /\ (gaveUp \/ \A c \in Clients : ~InFlight(c))
        BY <2>6, <3>1 DEF ClosedInv
      <4>2. ~listening' /\ gaveUp' = gaveUp
        BY <1>2, <3>1, <4>1, Gates
      <4>3. ASSUME NEW c \in Clients, ~InFlight(c) PROVE ~InFlight(c)'
        <5>1. ~ClientArrives(c)
          BY <4>1 DEF ClientArrives
        <5> QED BY <2>3, <4>3, <5>1, LeavesIdle, StaysOver DEF InFlight
      <4> QED BY <4>1, <4>2, <4>3
    <3>2. CASE StopReturns
      BY <3>2 DEF StopReturns, InFlight, vars, apiVars
    <3>3. CASE i \notin Passed
      <4>1. i = at /\ at' # at
        BY <2>1, <3>3, Positions DEF Passed
      <4>2. StopReturns
        <5>1. ~ \E r \in Own : Sends(at, r)
          BY <2>6, <4>1 DEF Sends
        <5> QED BY <2>6, <4>1, <5>1, Advance
      <4> QED BY <3>2, <4>2
    <3> QED BY <3>1, <3>2, <3>3
  <2>7. refused' # {} => ~open'
    <3>1. CASE refused' = refused
      BY <1>2, <3>1, Gates DEF ClosedInv
    <3>2. CASE \E r \in Requests : Refuse(r)
      BY <3>2 DEF Refuse
    <3> QED BY <1>2, <3>1, <3>2, Gates
  <2> QED BY <2>1, <2>4, <2>5, <2>6, <2>7 DEF ClosedInv
<1> QED BY <1>1, <1>2

\* When the appender is closed no call of the script is about to add, and a
\* client is only where the server gave up waiting for it.
LEMMA QuietWhenClosed ==
  ASSUME ScriptInv, ClosedInv, ~open, program # "sprint2",
         NEW r \in Requests, pc[r] = "handling"
  PROVE  program = "sprint3" /\ gaveUp
<1> USE DEF ScriptInv
<1>0. program \in {"sprint1", "sprint1b", "sprint3"}
  BY WhereClosed DEF ControlInv, Programs
<1>1. CASE r \in Clients
  <2>1. program = "sprint3"
    BY <1>0, <1>1 DEF ClosedInv
  <2>2. Steps = Sprint3 /\ 22 \in Passed
    BY <2>1, StepsOf, WhereClosed, Positions DEF Passed
  <2>3. Steps[22].do = "stop"
    BY <2>2, Script3
  <2> QED BY <1>1, <2>1, <2>2, <2>3 DEF ClosedInv, InFlight
<1>2. CASE r \in Own
  <2>1. PICK i \in Passed : Sends(i, r)
    BY <1>0, <1>2 DEF SentInv
  <2>2. i \in Nat /\ i < at /\ at \in Nat /\ i \in 1..Len(Steps)
    BY Positions DEF Passed, ControlInv
  <2>3. CASE program = "sprint1"
    <3>1. Steps = Sprint1 /\ Len(Steps) = 5
      BY <2>3, StepsOf
    <3>2. i \in 1..5
      BY <2>2, <3>1
    <3>3. r = "leaf"
      BY <2>1, <3>1, <3>2, Script1 DEF Sends
    <3> QED BY <2>3, <3>3, State1, WhereClosed DEF Answered
  <2>4. CASE program = "sprint1b"
    <3>1. at > 6
      BY <2>4, WhereClosed
    <3>2. r \in Entries1b /\ pc["entry04"] = "done" /\ pc["entry09"] = "done"
          /\ pc["entry00"] # "handling" /\ pc["entry05"] # "handling"
      BY <1>2, <2>2, <2>4, <3>1, State1b DEF Answered
    <3> QED BY <3>2 DEF Entries1b
  <2>5. CASE program = "sprint3"
    <3>1. Steps = Sprint3 /\ Len(Steps) = 23 /\ at > 22
      BY <2>5, StepsOf, WhereClosed
    <3>2. i \in 1..23
      BY <2>2, <3>1
    <3>3. i \in {1, 3, 5, 7, 10, 14, 17, 19}
      BY <2>1, <3>1, <3>2, Script3 DEF Sends
    <3>4. i + 1 \in Passed /\ i + 1 \in 1..23
      BY <2>2, <3>1, <3>3 DEF Passed
    <3>5. Steps[i + 1].do = "expect"
      <4>1. i + 1 \in {2, 4, 6, 8, 11, 15, 18, 20}
        BY <3>3
      <4> QED BY <3>1, <3>4, <4>1, Script3
    <3>6. Steps[i + 1].r = r
      <4>1. \A j \in {1, 3, 5, 7, 10, 14, 17, 19} : Steps[j + 1].r = Steps[j].r
        BY <3>1, Script3
      <4> QED BY <2>1, <3>3, <4>1 DEF Sends
    <3> QED BY <3>4, <3>5, <3>6 DEF AnsweredInv
  <2> QED BY <1>0, <2>3, <2>4, <2>5
<1> QED BY <1>1, <1>2, DemoRequests

\* A call that meets a closed appender is one that a stop gave up waiting for,
\* or one that sprint 2 let in.
LEMMA NobodyStep ==
  ASSUME DemoNext, TypeOK, ScriptInv, ClosedInv, ClosedToNobody,
         ConsistencyIsChecked
  PROVE  ClosedToNobody'
<1> USE DEF ScriptInv
<1> SUFFICES ASSUME refused' # {}, program' # "sprint2" PROVE gaveUp'
  BY DEF ClosedToNobody
<1>1. CASE \E p \in Programs, up \in BOOLEAN : Start(p, up)
  <2>1. open /\ refused' = refused
    BY <1>1, StartKeeps DEF Start
  <2> QED BY <2>1 DEF ClosedInv
<1>2. CASE \E r \in Requests : Refuse(r)
  <2>1. PICK r \in Requests : Refuse(r)
    BY <1>2
  <2>2. program' = program /\ gaveUp' = gaveUp /\ ~open /\ pc[r] = "handling"
    BY <2>1 DEF Refuse
  <2> QED BY <2>2, QuietWhenClosed
<1>3. CASE ~(\E p \in Programs, up \in BOOLEAN : Start(p, up)) /\ refused' = refused
  <2>1. program' = program /\ gaveUp /\ ~open
    BY <1>3, Moves DEF ClosedToNobody, ClosedInv
  <2>2. ASSUME StopReturns PROVE FALSE
    <3>1. /\ at \in 1..Len(Steps) /\ Steps[at].do = "stop" /\ program # "server"
      BY <2>2, Positions DEF StopReturns, Doing, Started, Step, Steps, ControlInv
    <3>2. CASE program = "sprint1"
      <4>1. Steps = Sprint1 /\ Len(Steps) = 5
        BY <3>2, StepsOf
      <4>2. at \in 1..5
        BY <3>1, <4>1
      <4> QED BY <3>1, <4>1, <4>2, Script1
    <3>3. CASE program = "sprint1b"
      <4>1. Steps = Sprint1b /\ Len(Steps) = 12
        BY <3>3, StepsOf
      <4>2. at \in 1..12
        BY <3>1, <4>1
      <4> QED BY <3>1, <4>1, <4>2, Script1b
    <3>4. CASE program = "sprint3"
      <4>1. Steps = Sprint3 /\ Len(Steps) = 23 /\ at > 22
        BY <2>1, <3>4, StepsOf, WhereClosed
      <4>2. at \in 1..23
        BY <3>1, <4>1
      <4> QED BY <3>1, <4>1, <4>2, Script3
    <3> QED BY <2>1, <3>1, <3>2, <3>3, <3>4 DEF ControlInv, Programs
  <2> QED BY <1>3, <2>1, <2>2, Gates
<1> QED BY <1>1, <1>2, <1>3, Gates

-----------------------------------------------------------------------------
(***************************************************************************)
(* What the calls are answered with.                                       *)
(***************************************************************************)

\* An answer is given by a step of the handler.
LEMMA Answers ==
  ASSUME DemoNext, TypeOK, NEW r \in Requests, pc[r] # "done", pc'[r] = "done"
  PROVE  Handle(r) \/ SubmitFail(r) \/ ReadFail(r)
<1>1. [Next]_vars
  BY DemoStepIsLogStep
<1> QED BY <1>1 DEF Next, vars, apiVars, Arrive, Handle, Submit, Prove,
     Consistency, SubmitReject, SubmitAdd, SubmitReply, ProveReject,
     ProveOutOfRange, ProveRead, ProveReply, STHReply, ConsistencyReject,
     ConsistencyRead, ConsistencyReply, SubmitFail, ReadFail, Restart, InFlight,
     Answer, Goto, TypeOK

\* The calls of the scripts are well formed, so a call fails only inside the
\* server; but the index taken to be out of range may be in it.
LEMMA StatusStep ==
  ASSUME DemoNext, IInv, NeverBackdated, ScriptInv, StatusInv
  PROVE  StatusInv'
<1> USE DEF ScriptInv
<1>0. TypeOK /\ [Next]_vars
  BY DemoStepIsLogStep DEF IInv
<1> SUFFICES ASSUME NEW r \in Own, pc'[r] = "done"
             PROVE  CASE r = "empty" -> reply'[r].status = 400
                      [] r = "far" -> \/ reply'[r].status \in {404, 500}
                                      \/ /\ reply'[r].status = 200
                                         /\ FarIndex < checkpoint'.size
                      [] OTHER -> reply'[r].status \in {200, 500}
  BY DEF StatusInv
<1>1. r \in Requests
  BY DemoRequests
<1>2. checkpoint.size \in Nat /\ checkpoint'.size \in Nat
      /\ checkpoint.size <= checkpoint'.size /\ FarIndex \in Nat
  <2>1. checkpoint.size <= checkpoint'.size
    BY <1>0, LogGrows DEF IInv
  <2>2. TypeOK'
    BY <1>0, TypeOKStep
  <2> QED BY <1>0, <2>1, <2>2, FarIndexAssumption, MaxSizeAssumption
          DEF TypeOK, Checkpoints
<1>3. CASE pc[r] = "done"
  <2>1. reply'[r] = reply[r]
    BY <1>0, <1>1, <1>3, StaysCalled
  <2> QED BY <1>2, <1>3, <2>1 DEF StatusInv
<1>4. CASE pc[r] # "done"
  <2>1. Handle(r) \/ SubmitFail(r) \/ ReadFail(r)
    BY <1>0, <1>1, <1>4, Answers
  <2>2. pc[r] # "idle" /\ call[r] = OwnCall(r)
    BY <2>1 DEF Handle, Submit, Prove, Consistency, SubmitReject, SubmitAdd,
       SubmitReply, ProveReject, ProveOutOfRange, ProveRead, ProveReply, STHReply,
       ConsistencyReject, ConsistencyRead, ConsistencyReply, SubmitFail, ReadFail,
       Handling, CallInv
  <2>3. pc[r] = "awaiting" => call[r].op = "submit" /\ call[r].leaf \in Leaves
    BY <1>1 DEF IInv, HandlerInv, Accepted
  <2>4. pc[r] = "building" => call[r].op \in {"prove", "consistency"}
    BY <1>1 DEF IInv, HandlerInv
  <2>5. SubmitFail(r) \/ ReadFail(r) => reply'[r].status = 500
    BY <1>0, <1>1 DEF SubmitFail, ReadFail, Answer, Failure, TypeOK
  <2>6. SubmitReject(r) => reply'[r].status = 400
    BY <1>0, <1>1 DEF SubmitReject, Answer, Failure, TypeOK
  <2>7. (\E a \in Awaiters : SubmitReply(r, a)) \/ ProveReply(r) \/ STHReply(r) \/ ConsistencyReply(r)
        => reply'[r].status = 200
    BY <1>0, <1>1 DEF SubmitReply, ProveReply, STHReply, ConsistencyReply, Answer,
       TypeOK
  <2>8. ProveOutOfRange(r) => reply'[r].status = 404
    BY <1>0, <1>1 DEF ProveOutOfRange, Answer, TypeOK
  <2>9. /\ SubmitReject(r) \/ (\E a \in Awaiters : SubmitReply(r, a))
           \/ ProveReject(r) \/ ProveOutOfRange(r) \/ ProveReply(r) \/ STHReply(r)
           \/ ConsistencyReject(r) \/ ConsistencyReply(r)
           \/ SubmitFail(r) \/ ReadFail(r)
    BY <1>0, <1>1, <2>1 DEF Handle, Submit, Prove, Consistency, SubmitAdd,
       ProveRead, ConsistencyRead, Goto, TypeOK
  <2>10. CASE r \in OwnLeaves
    <3>1. /\ call[r] = [op |-> "submit", leaf |-> r] /\ r \in Leaves /\ r # NoLeaf
          /\ r # "empty" /\ r # "far"
      BY <2>2, <2>10, OwnCalls, DemoLeaves, NoLeafAssumption DEF OwnLeaves, Entries1b
    <3> QED BY <2>4, <2>5, <2>7, <2>9, <3>1 DEF SubmitReject, ProveReject,
         ProveOutOfRange, ProveReply, STHReply, ConsistencyReject, Handling
  <2>11. CASE r = "empty"
    <3>1. call[r] = [op |-> "submit", leaf |-> NoLeaf]
      BY <2>2, <2>11, OwnCalls
    <3>2. \A a \in Awaiters : ~SubmitReply(r, a)
      BY <2>3, <3>1, NoLeafAssumption DEF SubmitReply
    <3> QED BY <2>3, <2>4, <2>6, <2>9, <2>11, <3>1, <3>2, NoLeafAssumption
         DEF SubmitReject, SubmitFail, ReadFail, ProveReject,
         ProveOutOfRange, ProveReply, STHReply, ConsistencyReject,
         ConsistencyReply, Handling
  <2>12. CASE r = "sth"
    <3>1. call[r] = [op |-> "sth"]
      BY <2>2, <2>12, OwnCalls
    <3> QED BY <2>4, <2>5, <2>7, <2>9, <2>12, <3>1 DEF SubmitReject, ProveReject,
         ProveOutOfRange, ProveReply, ConsistencyReject, ConsistencyReply, Handling
  <2>13. CASE r \in {"proveHtt", "proveBuild"}
    <3>1. program = "sprint3" /\ at > 4 /\ at > 6
      BY <2>2, <2>13, QueriesFollow, Positions DEF Queries
    <3>2. /\ Answered("htt", "submit") /\ Answered("build", "submit")
          /\ {"htt", "build"} \subseteq Requests
      BY <3>1, State3, Positions, DemoRequests DEF Own, OwnLeaves
    <3>3. TellsSize("htt") /\ TellsSize("build")
      BY <3>2 DEF Answered, TellsSize
    <3>4. \A q \in {"htt", "build"} :
            /\ reply[q].index \in 0..(reply[q].size - 1)
            /\ reply[q].size \in 0..checkpoint.size
      BY <3>2, <3>3 DEF IInv, ReplyInv
    <3>5. \A q \in {"htt", "build"} :
            reply[q].index < checkpoint.size /\ reply[q].index \in Nat
      BY <1>2, <3>4
    <3>6. PICK q \in {"htt", "build"} : call[r] = [op |-> "prove", index |-> reply[q].index]
      BY <2>2, <2>13, OwnCalls
    <3>7. /\ call[r].op = "prove" /\ call[r].index # Invalid
          /\ ~(call[r].index >= checkpoint.size)
      BY <1>2, <3>5, <3>6 DEF Invalid
    <3> QED BY <2>5, <2>7, <2>9, <2>13, <3>7 DEF SubmitReject, ProveReject,
         ProveOutOfRange, ConsistencyReject, STHReply, Handling
  <2>14. CASE r = "consistency"
    <3>1. program = "sprint3" /\ at > 6
      BY <2>2, <2>14, QueriesFollow, Positions DEF Queries
    <3>2. /\ reply["htt"].size \in 0..checkpoint.size
          /\ reply["sth"].size \in 0..checkpoint.size
          /\ reply["htt"].size < reply["sth"].size
      BY <3>1, Grown3
    <3>3. call[r] = [op |-> "consistency", from |-> reply["htt"].size,
                     to |-> reply["sth"].size]
      BY <2>2, <2>14, OwnCalls
    <3>4. /\ call[r].op = "consistency" /\ ValidRange(call[r])
          /\ ~(call[r].to > checkpoint.size)
      BY <1>2, <3>2, <3>3 DEF ValidRange, Invalid
    <3> QED BY <2>5, <2>7, <2>9, <2>14, <3>4 DEF SubmitReject, ProveReject,
         ProveOutOfRange, ConsistencyReject, STHReply, Handling
  <2>15. CASE r = "far"
    <3>1. call[r] = [op |-> "prove", index |-> FarIndex] /\ FarIndex # Invalid
      BY <1>2, <2>2, <2>15, OwnCalls DEF Invalid
    <3>2. ProveReply(r) => FarIndex < checkpoint'.size
      <4>1. ProveReply(r) => FarIndex \in 0..(view[r].size - 1)
        BY <1>1, <3>1 DEF ProveReply, IInv, HandlerInv
      <4>2. view[r].size <= checkpoint.size /\ view[r].size \in Nat
        BY <1>0, <1>1 DEF IInv, HeadsInv, TypeOK, Checkpoints
      <4> QED BY <1>2, <4>1, <4>2
    <3>3. \A a \in Awaiters : ~SubmitReply(r, a)
      BY <2>3, <3>1 DEF SubmitReply
    <3> QED BY <2>3, <2>5, <2>7, <2>8, <2>9, <2>15, <3>1, <3>2, <3>3 DEF SubmitReject,
         ProveReject, ConsistencyReject, ConsistencyReply, STHReply,
         Handling
  <2> QED BY <2>10, <2>11, <2>12, <2>13, <2>14, <2>15 DEF Own, Queries
<1> QED BY <1>3, <1>4

-----------------------------------------------------------------------------
(***************************************************************************)
(* The two batches of sprint 1b.                                           *)
(***************************************************************************)

\* An idle service has an empty log.
LEMMA NothingYet ==
  ASSUME IInv, EntriesInv, \A r \in Requests : pc[r] = "idle"
  PROVE  /\ queue = <<>> /\ entries = <<>>
         /\ Len(queue) = 0 /\ Len(entries) = 0
<1>1. Len(queue) \in Nat /\ queue \in Seq([request : Requests, leaf : Leaves])
  BY LenProperties DEF IInv, TypeOK
<1>2. ASSUME Len(queue) > 0 PROVE FALSE
  <2>1. 1 \in 1..Len(queue)
    BY <1>1, <1>2
  <2> QED BY <2>1, QueueMember DEF IInv, QueueInv, Accepted
<1>3. Len(queue) = 0
  BY <1>1, <1>2
<1> QED BY <1>1, <1>3, EmptySeq DEF EntriesInv

\* While sprint 1b runs only its four entries are called, and only the last of
\* a batch is answered, unless another is refused.
LEMMA BatchSteps ==
  ASSUME DemoNext, IInv, ScriptInv, ClosedInv, ConsistencyIsChecked,
         program = "sprint1b", program' = "sprint1b", NoneRefused'
  PROVE  \/ UNCHANGED <<queue, entries, pc, reply, call>>
         \/ \E r \in Entries1b : Call(r)
         \/ \E r \in Entries1b : SubmitAdd(r)
         \/ \E r \in {"entry04", "entry09"} :
              (\E a \in Awaiters : SubmitReply(r, a)) \/ SubmitFail(r)
         \/ IntegrateBatch /\ UNCHANGED apiVars
<1> USE DEF ScriptInv
<1>0. TypeOK
  BY DEF IInv
<1>1. Steps = Sprint1b /\ Len(Steps) = 12
  BY StepsOf
<1>2. ASSUME NEW p \in Programs, NEW up \in BOOLEAN, Start(p, up) PROVE FALSE
  BY <1>2 DEF Start
<1>3. CASE MainStep
  <2>1. ASSUME NEW r \in Own, Call(r) PROVE r \in Entries1b
    <3>1. Sends(at, r) /\ at \in 1..12
      BY <1>1, <2>1, Positions DEF Call, Doing, Sends, Step, Steps, ControlInv
    <3> QED BY <1>1, <3>1, Script1b DEF Sends, Entries1b
  <2> QED BY <1>3, <2>1 DEF MainStep, Compare, Receive, Check, ShutDown,
       ShutDownReturns, StopListening, StopReturns, End, vars, tesseraVars, apiVars
<1>4. CASE CheckFails \/ ShutDownFails
  BY <1>4 DEF CheckFails, ShutDownFails, vars, tesseraVars, apiVars
<1>5. ASSUME NEW c \in Clients, ClientArrives(c) PROVE FALSE
  BY <1>5 DEF ClientArrives, ClosedInv
<1>6. ASSUME NEW r \in Requests, Serve(r) \/ ServeFails(r) \/ Refuse(r)
      PROVE  \/ \E q \in Entries1b : SubmitAdd(q)
             \/ \E q \in {"entry04", "entry09"} :
                  (\E a \in Awaiters : SubmitReply(q, a)) \/ SubmitFail(q)
  <2>1. pc[r] \in {"handling", "awaiting", "building"}
    BY <1>6 DEF Serve, ServeFails, Refuse, SubmitReject, SubmitAdd, SubmitReply,
       Prove, ProveReject, ProveOutOfRange, ProveRead, ProveReply, STHReply,
       Consistency, ConsistencyReject, ConsistencyRead, ConsistencyReply,
       SubmitFail, ReadFail, Handling
  <2>2. r \notin Clients /\ r \in Own
    BY <2>1, DemoRequests DEF ClosedInv
  <2>3. r \in Entries1b /\ call[r] = [op |-> "submit", leaf |-> r]
    BY <2>1, <2>2, State1b
  <2>4. pc[r] # "building" /\ r # NoLeaf
    BY <2>3, DemoLeaves, NoLeafAssumption DEF IInv, HandlerInv, OwnLeaves
  <2>5. Awaited(r) => r \in {"entry04", "entry09"}
    <3>1. ASSUME NEW i \in 1..12, Steps[i].do = "expect", Steps[i].r = r
          PROVE  r \in {"entry04", "entry09"}
      BY <1>1, <3>1, Script1b
    <3> QED BY <1>1, <2>2, <3>1 DEF Awaited, Steps
  <2>6. ~Refuse(r)
    BY QuietWhenClosed DEF Refuse
  <2>7. SubmitFail(r) => r \in {"entry04", "entry09"}
    <3>1. SubmitFail(r) => pc'[r] = "done" /\ reply'[r].status = 500
      BY <1>0 DEF SubmitFail, Answer, Failure, Goto, TypeOK
    <3> QED BY <2>3, <3>1 DEF NoneRefused, Entries1b
  <2>8. AwaiterOf(r) \in Awaiters
    BY DemoAwaiters DEF AwaiterOf
  <2> QED BY <1>6, <2>3, <2>4, <2>5, <2>6, <2>7, <2>8 DEF Serve, ServeFails, SubmitReject,
       Prove, ProveReject, ProveOutOfRange, ProveRead, ProveReply, STHReply,
       Consistency, ConsistencyReject, ConsistencyRead, ConsistencyReply, ReadFail,
       Handling
<1>7. CASE Library(Timers)
  BY <1>7 DEF Library, Timers, Poll, PublishCheckpoint, PollCheckpoint, apiVars
<1> QED BY <1>2, <1>3, <1>4, <1>5, <1>6, <1>7 DEF DemoNext

\* The calls of sprint 1b are submissions named for their leaves.
LEMMA EntryAsked ==
  ASSUME ScriptInv, program = "sprint1b", NEW r \in Entries1b, pc[r] # "idle"
  PROVE  call[r].op = "submit" /\ call[r].leaf = r
<1>1. call[r] = [op |-> "submit", leaf |-> r]
  BY State1b
<1> QED BY <1>1

\* An entry is added after all those before it in the script, so it is added at
\* its place.
LEMMA AddsInOrder ==
  ASSUME IInv, ScriptInv, BatchInv, program = "sprint1b", NoneRefused,
         NEW m \in 1..4, pc[Entry1b[m]] = "handling"
  PROVE  Added = m - 1
<1> DEFINE e00 == "entry00" e04 == "entry04" e05 == "entry05" e09 == "entry09"
<1>1. /\ Entry1b[1] = e00 /\ Entry1b[2] = e04 /\ Entry1b[3] = e05 /\ Entry1b[4] = e09
      /\ {e00, e04, e05, e09} \subseteq Own /\ {e00, e04, e05, e09} \subseteq Requests
      /\ {e00, e04, e05, e09} = Entries1b
  BY DemoRequests DEF Entry1b, Own, OwnLeaves, Entries1b
<1>2. Added \in Nat /\ at \in Nat
  BY LenProperties, Positions DEF Added, IInv, TypeOK, ScriptInv
<1>3. Added < m
  BY DEF BatchInv
<1>4. \A r \in Entries1b : pc[r] \notin {"idle", "handling", "done"} => pc[r] = "awaiting"
  <2>1. \A r \in Entries1b : pc[r] # "lost"
    BY <1>1 DEF BatchInv
  <2>2. \A r \in Entries1b : pc[r] # "idle" => call[r].op = "submit"
    BY EntryAsked
  <2>3. \A r \in Entries1b : pc[r] # "building"
    BY <1>1, <2>2 DEF IInv, HandlerInv
  <2> QED BY <1>1, <2>1, <2>3 DEF IInv, TypeOK
<1>5. \A k \in 1..4 : pc[Entry1b[k]] = "awaiting" \/ Answered(Entry1b[k], "submit")
                        => k <= Added
  BY <1>2 DEF BatchInv
<1>6. CASE m = 1
  BY <1>2, <1>3, <1>6
<1>7. CASE m = 2
  <2>1. pc[e00] \notin {"idle", "handling", "done"}
    BY <1>1, <1>2, <1>7, State1b DEF BatchInv
  <2>2. 1 <= Added
    BY <1>1, <1>4, <1>5, <2>1
  <2> QED BY <1>2, <1>3, <1>7, <2>2
<1>8. CASE m = 3
  <2>1. Answered(e04, "submit")
    BY <1>1, <1>2, <1>8, State1b
  <2>2. 2 <= Added
    BY <1>1, <1>5, <2>1
  <2> QED BY <1>2, <1>3, <1>8, <2>2
<1>9. CASE m = 4
  <2>1. pc[e05] \notin {"idle", "handling", "done"}
    BY <1>1, <1>2, <1>9, State1b DEF BatchInv
  <2>2. 3 <= Added
    BY <1>1, <1>4, <1>5, <2>1
  <2> QED BY <1>2, <1>3, <1>9, <2>2
<1> QED BY <1>6, <1>7, <1>8, <1>9

\* A refused entry stays refused.
LEMMA NoneRefusedBefore ==
  ASSUME DemoNext, TypeOK, NoneRefused'
  PROVE  NoneRefused
<1>1. {"entry00", "entry05"} \subseteq Requests
  BY DemoRequests DEF Own, OwnLeaves, Entries1b
<1> QED BY <1>1, StaysCalled DEF NoneRefused

\* Adding, sequencing and answering keep the entries of sprint 1b in order.
LEMMA BatchStep ==
  ASSUME DemoNext, IInv, ScriptInv, EntriesInv, ClosedInv, BatchInv,
         ConsistencyIsChecked
  PROVE  BatchInv'
<1> USE DEF ScriptInv
<1> SUFFICES ASSUME program' = "sprint1b", NoneRefused' PROVE BatchInv'
  BY DEF BatchInv
<1>0. /\ TypeOK /\ [Next]_vars /\ Entries1b \subseteq Own /\ Own \subseteq Requests
      /\ \A k \in 1..4 : Entry1b[k] \in Entries1b
      /\ \A r \in Entries1b : \E k \in 1..4 : r = Entry1b[k]
      /\ \A k, l \in 1..4 : Entry1b[k] = Entry1b[l] => k = l
  BY DemoStepIsLogStep, DemoRequests DEF IInv, Own, OwnLeaves, Entry1b, Entries1b
<1>1. Len(queue) \in Nat /\ Len(entries) \in Nat /\ Added \in Nat
  BY <1>0, LenProperties DEF TypeOK, Added
<1>2. CASE \E p \in Programs, up \in BOOLEAN : Start(p, up)
  <2>1. /\ \A r \in Requests : pc[r] = "idle" /\ pc'[r] = "idle"
        /\ UNCHANGED <<queue, entries>>
    BY <1>0, <1>2, StartKeeps
  <2>2. Len(queue') = 0 /\ Len(entries') = 0 /\ Added' = 0
    BY <2>1, NothingYet DEF Added
  <2>3. \A r \in Own : pc'[r] = "idle"
    BY <1>0, <2>1
  <2> QED BY <1>0, <2>2, <2>3 DEF BatchInv, Answered, Entries1b
<1>3. CASE program = "sprint1b"
  <2>0. NoneRefused
    BY <1>0, NoneRefusedBefore
  <2>1. CASE UNCHANGED <<queue, entries, pc, reply, call>>
    BY <1>3, <2>0, <2>1 DEF BatchInv, Added, Answered
  <2>2. ASSUME NEW r \in Entries1b, Call(r) PROVE BatchInv'
    <3>1. /\ UNCHANGED <<queue, entries, reply>> /\ pc[r] = "idle"
          /\ pc'[r] = "handling"
          /\ \A q \in Own : q # r => pc'[q] = pc[q] /\ call'[q] = call[q]
      BY <1>0, <2>2 DEF Call, Arrive, Goto, TypeOK, tesseraVars
    <3>2. Added' = Added
      BY <3>1 DEF Added
    <3>3. /\ \A q \in Own : pc'[q] # "lost"
          /\ pc'["entry00"] # "done" /\ pc'["entry05"] # "done"
      BY <1>0, <1>3, <2>0, <3>1 DEF BatchInv, Entries1b
    <3>4. ASSUME NEW k \in 1..4
          PROVE  /\ pc'[Entry1b[k]] \in {"idle", "handling"} => Added < k
                 /\ pc'[Entry1b[k]] = "awaiting" \/ Answered(Entry1b[k], "submit")'
                      => k <= Added
      <4>1. CASE Entry1b[k] = r
        BY <1>3, <2>0, <3>1, <4>1 DEF BatchInv, Answered
      <4>2. CASE Entry1b[k] # r
        <5>1. pc'[Entry1b[k]] = pc[Entry1b[k]] /\ call'[Entry1b[k]] = call[Entry1b[k]]
          BY <1>0, <3>1, <4>2
        <5> QED BY <1>3, <2>0, <3>1, <5>1 DEF BatchInv, Answered
      <4> QED BY <4>1, <4>2
    <3> QED BY <1>3, <2>0, <3>1, <3>2, <3>3, <3>4 DEF BatchInv
  <2>3. ASSUME NEW r \in Entries1b, SubmitAdd(r) PROVE BatchInv'
    <3>1. PICK m \in 1..4 : r = Entry1b[m]
      BY <1>0
    <3>2. /\ pc[r] = "handling" /\ pc'[r] = "awaiting" /\ UNCHANGED <<entries, call, reply>>
          /\ queue' = Append(queue, [request |-> r, leaf |-> call[r].leaf])
          /\ \A q \in Own : q # r => pc'[q] = pc[q]
      BY <1>0, <2>3 DEF SubmitAdd, Handling, Add, Goto, TypeOK
    <3>3. Added = m - 1
      BY <1>3, <2>0, <3>1, <3>2, AddsInOrder
    <3>4. /\ Len(queue') = Len(queue) + 1
          /\ \A i \in 1..Len(queue) : queue'[i] = queue[i]
          /\ queue'[Len(queue) + 1].request = r
      BY <1>0, <1>1, <3>2, AppendProperties DEF TypeOK
    <3>5. Added' = m
      BY <1>1, <3>2, <3>3, <3>4 DEF Added
    <3>6. \A i \in 1..Len(queue') : queue'[i].request = Entry1b[Len(entries') + i]
      <4>1. Len(entries) + Len(queue) + 1 = m
        BY <1>1, <3>3 DEF Added
      <4> SUFFICES ASSUME NEW i \in 1..Len(queue')
                   PROVE  queue'[i].request = Entry1b[Len(entries) + i]
        BY <3>2
      <4>2. CASE i \in 1..Len(queue)
        BY <1>3, <2>0, <3>4, <4>2 DEF BatchInv
      <4>3. CASE i = Len(queue) + 1
        BY <1>1, <3>1, <3>4, <4>1, <4>3
      <4> QED BY <1>1, <3>4, <4>2, <4>3
    <3>7. ASSUME NEW k \in 1..4
          PROVE  /\ pc'[Entry1b[k]] \in {"idle", "handling"} => m < k
                 /\ pc'[Entry1b[k]] = "awaiting" \/ Answered(Entry1b[k], "submit")'
                      => k <= m
      <4>1. CASE k = m
        BY <3>1, <3>2, <4>1
      <4>2. CASE k # m
        <5>1. pc'[Entry1b[k]] = pc[Entry1b[k]]
          BY <1>0, <3>1, <3>2, <4>2
        <5>2. /\ pc[Entry1b[k]] \in {"idle", "handling"} => Added < k
              /\ pc[Entry1b[k]] = "awaiting" \/ Answered(Entry1b[k], "submit")
                   => k <= Added
          BY <1>3, <2>0 DEF BatchInv
        <5>3. Answered(Entry1b[k], "submit")' = Answered(Entry1b[k], "submit")
          BY <3>2, <5>1 DEF Answered
        <5> QED BY <3>3, <4>2, <5>1, <5>2, <5>3
      <4> QED BY <4>1, <4>2
    <3>8. /\ \A q \in Own : pc'[q] # "lost"
          /\ pc'["entry00"] # "done" /\ pc'["entry05"] # "done"
      BY <1>0, <1>3, <2>0, <3>2 DEF BatchInv, Entries1b
    <3> QED BY <1>3, <2>0, <3>2, <3>5, <3>6, <3>7, <3>8 DEF BatchInv
  <2>4. ASSUME NEW r \in {"entry04", "entry09"},
               (\E a \in Awaiters : SubmitReply(r, a)) \/ SubmitFail(r)
        PROVE  BatchInv'
    <3>0. r \in Entries1b
      BY DEF Entries1b
    <3>1. /\ UNCHANGED <<queue, entries, call>> /\ pc'[r] = "done"
          /\ reply'[r].status = 200 => pc[r] = "awaiting"
          /\ \A q \in Own : q # r => pc'[q] = pc[q] /\ reply'[q] = reply[q]
      BY <1>0, <2>4, <3>0 DEF SubmitReply, SubmitFail, Answer, Failure, Goto, TypeOK,
                       tesseraVars
    <3>2. Added' = Added
      BY <3>1 DEF Added
    <3>3. ASSUME NEW k \in 1..4
          PROVE  /\ pc'[Entry1b[k]] \in {"idle", "handling"} => Added < k
                 /\ pc'[Entry1b[k]] = "awaiting" \/ Answered(Entry1b[k], "submit")'
                      => k <= Added
      <4>1. CASE Entry1b[k] = r
        BY <1>3, <2>0, <3>1, <4>1 DEF BatchInv, Answered
      <4>2. CASE Entry1b[k] # r
        <5>1. pc'[Entry1b[k]] = pc[Entry1b[k]] /\ reply'[Entry1b[k]] = reply[Entry1b[k]]
          BY <1>0, <3>1, <4>2
        <5> QED BY <1>3, <2>0, <3>1, <5>1 DEF BatchInv, Answered
      <4> QED BY <4>1, <4>2
    <3>4. /\ \A q \in Own : pc'[q] # "lost"
          /\ pc'["entry00"] # "done" /\ pc'["entry05"] # "done"
      BY <1>0, <1>3, <2>0, <3>1 DEF BatchInv, Entries1b
    <3> QED BY <1>3, <2>0, <3>1, <3>2, <3>3, <3>4 DEF BatchInv
  <2>5. CASE IntegrateBatch /\ UNCHANGED apiVars
    <3>1. PICK n \in 1..Len(queue) :
            /\ entries' = entries \o [i \in 1..n |-> queue[i].leaf]
            /\ queue' = SubSeq(queue, n + 1, Len(queue))
      BY <2>5 DEF IntegrateBatch
    <3> DEFINE b == [i \in 1..n |-> queue[i].leaf]
    <3>2. /\ b \in Seq(Leaves) /\ Len(b) = n /\ n \in Nat
          /\ Len(queue') = Len(queue) - n
          /\ \A i \in 1..(Len(queue) - n) : queue'[i] = queue[n + i]
      <4>1. queue \in Seq([request : Requests, leaf : Leaves])
        BY <1>0 DEF TypeOK
      <4>2. b \in Seq(Leaves) /\ Len(b) = n
        BY <4>1, BatchType
      <4>3. /\ Len(SubSeq(queue, n + 1, Len(queue))) = Len(queue) - n
            /\ \A i \in 1..(Len(queue) - n) :
                 SubSeq(queue, n + 1, Len(queue))[i] = queue[n + i]
        BY <4>1, BatchType
      <4> HIDE DEF b
      <4> QED BY <1>1, <3>1, <4>2, <4>3
    <3>3. /\ Len(entries') = Len(entries) + n
          /\ \A i \in 1..Len(entries) : entries'[i] = entries[i]
          /\ \A i \in 1..n : entries'[Len(entries) + i] = queue[i].leaf
      <4>1. \A i \in 1..n : b[i] = queue[i].leaf
        OBVIOUS
      <4> HIDE DEF b
      <4>2. /\ Len(entries \o b) = Len(entries) + Len(b)
            /\ \A i \in 1..(Len(entries) + Len(b)) :
                 (entries \o b)[i] = IF i <= Len(entries) THEN entries[i]
                                     ELSE b[i - Len(entries)]
        <5>1. entries \in Seq(Leaves) /\ b \in Seq(Leaves)
          BY <1>0, <3>2 DEF TypeOK
        <5> QED BY <5>1, ConcatProperties
      <4>3. \A i \in 1..n : /\ Len(entries) + i \in 1..(Len(entries) + Len(b))
                            /\ ~(Len(entries) + i <= Len(entries))
                            /\ Len(entries) + i - Len(entries) = i
        BY <1>1, <3>2
      <4>4. entries' = entries \o b
        BY <3>1 DEF b
      <4> QED BY <1>1, <3>2, <4>1, <4>2, <4>3, <4>4
    <3>4. \A i \in 1..Len(queue) : queue[i].leaf = Entry1b[Len(entries) + i]
      <4> SUFFICES ASSUME NEW i \in 1..Len(queue)
                   PROVE  queue[i].leaf = Entry1b[Len(entries) + i]
        OBVIOUS
      <4>1. queue[i].request = Entry1b[Len(entries) + i]
        BY <1>3, <2>0 DEF BatchInv
      <4>2. Len(entries) + i \in 1..4
        BY <1>1, <1>3, <2>0 DEF BatchInv, Added
      <4>3. queue[i].request \in Entries1b /\ pc[queue[i].request] # "idle"
            /\ queue[i].leaf = call[queue[i].request].leaf
        BY <1>0, <4>1, <4>2 DEF IInv, QueueInv, Accepted
      <4>4. call[queue[i].request].leaf = queue[i].request
        BY <1>3, <4>3, EntryAsked
      <4> QED BY <4>1, <4>3, <4>4
    <3>5. Added' = Added
      BY <1>1, <3>2, <3>3 DEF Added
    <3>6. \A i \in 1..Len(entries') : entries'[i] = Entry1b[i]
      <4> SUFFICES ASSUME NEW i \in 1..Len(entries') PROVE entries'[i] = Entry1b[i]
        OBVIOUS
      <4>1. CASE i \in 1..Len(entries)
        BY <1>3, <2>0, <3>3, <4>1 DEF BatchInv
      <4>2. CASE i \notin 1..Len(entries)
        <5>1. i - Len(entries) \in 1..n /\ i - Len(entries) \in 1..Len(queue)
              /\ Len(entries) + (i - Len(entries)) = i
          BY <1>1, <3>2, <3>3, <4>2
        <5> QED BY <3>3, <3>4, <5>1
      <4> QED BY <4>1, <4>2
    <3>7. \A i \in 1..Len(queue') : queue'[i].request = Entry1b[Len(entries') + i]
      <4> SUFFICES ASSUME NEW i \in 1..Len(queue')
                   PROVE  queue'[i].request = Entry1b[Len(entries') + i]
        OBVIOUS
      <4>1. n + i \in 1..Len(queue) /\ queue'[i] = queue[n + i]
            /\ Len(entries) + (n + i) = Len(entries') + i
        BY <1>1, <3>2, <3>3
      <4> QED BY <1>3, <2>0, <4>1 DEF BatchInv
    <3>8. UNCHANGED <<pc, call, reply>>
      BY <2>5 DEF apiVars
    <3> QED BY <1>3, <2>0, <3>5, <3>6, <3>7, <3>8 DEF BatchInv, Answered
  <2> QED BY <1>3, <2>1, <2>2, <2>3, <2>4, <2>5, BatchSteps
<1> QED BY <1>2, <1>3, Moves

\* The last entry of a batch is answered when the batch is published and before
\* anything else is added, so with the head of that batch.
LEMMA HeadsOfBatches ==
  ASSUME DemoNext, IInv, ScriptInv, ClosedInv, BatchInv, BatchCheckpoints,
         ConsistencyIsChecked, EntriesInv
  PROVE  BatchCheckpoints'
<1> USE DEF ScriptInv
<1> SUFFICES ASSUME program' = "sprint1b", NoneRefused', NEW r \in Entries1b,
                    Answered(r, "submit")'
             PROVE  reply'[r].size = BatchSize(r)
  BY DEF BatchCheckpoints, CheckpointsAsAnnounced
<1>0. /\ TypeOK /\ [Next]_vars /\ r \in Own /\ r \in Requests
  BY DemoStepIsLogStep, DemoRequests DEF IInv, Own, OwnLeaves
<1>1. /\ pc'[r] = "done" /\ reply'[r].status = 200 /\ call'[r].op = "submit"
      /\ NoneRefused
  BY <1>0, NoneRefusedBefore DEF Answered
<1>2. CASE \E p \in Programs, up \in BOOLEAN : Start(p, up)
  BY <1>0, <1>1, <1>2, StartKeeps
<1>3. CASE program = "sprint1b" /\ pc[r] = "done"
  <2>1. reply'[r] = reply[r] /\ call'[r] = call[r]
    BY <1>0, <1>3, StaysCalled
  <2> QED BY <1>1, <1>3, <2>1 DEF BatchCheckpoints, CheckpointsAsAnnounced, Answered
<1>4. CASE program = "sprint1b" /\ pc[r] # "done"
  <2>1. r \in {"entry04", "entry09"}
    <3>1. BatchInv'
      BY BatchStep
    <3> QED BY <1>1, <3>1 DEF BatchInv, Entries1b
  <2>2. PICK a \in Awaiters : SubmitReply(r, a)
    <3>1. \A q \in Requests, a \in Awaiters : SubmitReply(q, a) => q = r
      BY <1>0, <1>1, <1>4 DEF SubmitReply, Answer, Goto, TypeOK
    <3>2. \A q \in Requests : SubmitFail(q) => q = r
      BY <1>0, <1>1, <1>4 DEF SubmitFail, Answer, Goto, TypeOK
    <3>3. \A q \in Requests : ~Call(q) /\ ~SubmitAdd(q)
      BY <1>0, <1>1, <1>4 DEF Call, Arrive, SubmitAdd, Goto, TypeOK
    <3>4. Entries1b \subseteq Requests /\ {"entry04", "entry09"} \subseteq Requests
      BY DemoRequests DEF Own, OwnLeaves, Entries1b
    <3>5. (\E a \in Awaiters : SubmitReply(r, a)) \/ SubmitFail(r)
      BY <1>1, <1>4, <3>1, <3>2, <3>3, <3>4, BatchSteps DEF apiVars
    <3> QED BY <1>0, <1>1, <3>5 DEF SubmitFail, Answer, Failure, TypeOK
  <2>3. /\ pc[r] = "awaiting" /\ index[r] # Unresolved /\ index[r] < awaited[a].size
        /\ reply'[r].size = awaited[a].size
    BY <1>0, <2>2 DEF SubmitReply, AwaitReturns, Answer, TypeOK
  <2>4. /\ Len(queue) \in Nat /\ Len(entries) \in Nat /\ at \in Nat
        /\ awaited[a].size \in Nat /\ awaited[a].size <= Len(entries)
    BY <1>0, LenProperties, Positions DEF IInv, HeadsInv, IsHead, TypeOK, Checkpoints
  <2>5. index[r] \in 0..(Len(entries) - 1) /\ entries[index[r] + 1] = r
    <3>1. call[r].leaf = r
      BY <1>4, <2>3, EntryAsked
    <3> QED BY <1>0, <2>3, <3>1 DEF IInv, IndexInv
  <2>6. index[r] + 1 \in 1..4 /\ Entry1b[index[r] + 1] = r
    BY <1>1, <1>4, <2>4, <2>5 DEF BatchInv, Added
  <2>7. CASE r = "entry04"
    <3>1. index[r] + 1 = 2
      BY <2>6, <2>7 DEF Entry1b
    <3>2. pc["entry05"] = "idle"
      BY <1>4, <2>3, <2>4, <2>7, State1b DEF Answered
    <3>3. Added < 3
      BY <1>1, <1>4, <3>2 DEF BatchInv, Entry1b
    <3> QED BY <2>3, <2>4, <2>5, <2>7, <3>1, <3>3 DEF Added, BatchSize
  <2>8. CASE r = "entry09"
    <3>1. index[r] + 1 = 4
      BY <2>6, <2>8 DEF Entry1b
    <3>2. Added <= 4
      BY <1>1, <1>4 DEF BatchInv
    <3> QED BY <2>3, <2>4, <2>5, <2>8, <3>1, <3>2 DEF Added, BatchSize
  <2> QED BY <2>1, <2>7, <2>8
<1> QED BY <1>2, <1>3, <1>4, Moves


-----------------------------------------------------------------------------
(***************************************************************************)
(* The checks of the demos.                                                *)
(***************************************************************************)

\* The checks of sprint 1: which steps they are, and what they check.
LEMMA Checks1 ==
  /\ \A i \in 1..5 : Sprint1[i].do \in Checks => i \in {4, 5}
  /\ Sprint1[4] = Include("leaf", "leaf", "tiles")
  /\ Sprint1[5] = Tamper("leaf", "leaf")
BY DEF Sprint1, Checks, Send, Expect, Close

\* The checks of sprint 1b.
LEMMA Checks1b ==
  /\ \A i \in 1..12 : Sprint1b[i].do \in Checks => i \in 8..12
  /\ Sprint1b[8] = Include("entry00", "entry09", "tiles")
  /\ Sprint1b[9] = Include("entry04", "entry09", "tiles")
  /\ Sprint1b[10] = Include("entry09", "entry09", "tiles")
  /\ Sprint1b[11] = Extend("entry04", "entry09", "tiles")
  /\ Sprint1b[12] = Forge("entry04", "entry09")
<1>1. \A i \in 1..7 : Sprint1b[i].do \notin Checks
  BY DEF Sprint1b, Checks, Send, Expect, Close
<1>2. /\ Sprint1b[8] = Include("entry00", "entry09", "tiles")
      /\ Sprint1b[9] = Include("entry04", "entry09", "tiles")
      /\ Sprint1b[10] = Include("entry09", "entry09", "tiles")
      /\ Sprint1b[11] = Extend("entry04", "entry09", "tiles")
      /\ Sprint1b[12] = Forge("entry04", "entry09")
  BY DEF Sprint1b
<1> QED BY <1>1, <1>2

\* The checks of sprint 2.
LEMMA Checks2 ==
  /\ \A i \in 1..14 : Sprint2[i].do \in Checks => i \in {8, 9, 10, 12, 13}
  /\ Sprint2[8] = Include("htt", "deploy", "tiles")
  /\ Sprint2[9] = Include("build", "deploy", "tiles")
  /\ Sprint2[10] = Include("deploy", "deploy", "tiles")
  /\ Sprint2[12] = Extend("htt", "deploy", "tiles")
  /\ Sprint2[13] = Tamper("htt", "deploy")
<1>1. \A i \in {1, 2, 3, 4, 5, 6, 7, 11, 14} : Sprint2[i].do \notin Checks
  BY DEF Sprint2, Checks, Send, Expect, Close, IfGrew, Stop
<1>2. /\ Sprint2[8] = Include("htt", "deploy", "tiles")
      /\ Sprint2[9] = Include("build", "deploy", "tiles")
      /\ Sprint2[10] = Include("deploy", "deploy", "tiles")
      /\ Sprint2[12] = Extend("htt", "deploy", "tiles")
      /\ Sprint2[13] = Tamper("htt", "deploy")
  BY DEF Sprint2
<1> QED BY <1>1, <1>2

\* The checks of sprint 3.
LEMMA Checks3 ==
  /\ \A i \in 1..23 : Sprint3[i].do \in Checks => i \in {9, 12, 16, 21}
  /\ Sprint3[9] = Include("htt", "sth", "proveHtt")
  /\ Sprint3[12] = Include("build", "sth", "proveBuild")
  /\ Sprint3[16] = Extend("htt", "sth", "consistency")
  /\ Sprint3[21] = Cli
<1>1. \A i \in 1..23 : i \notin {9, 12, 16, 21} => Sprint3[i].do \notin Checks
  <2>1. \A i \in 1..23 : i \notin {9, 12, 16, 21} =>
          \/ i \in {1, 3, 5, 7, 10, 14, 17, 19}
          \/ i \in {2, 4, 6, 8, 11, 15, 18, 20}
          \/ i = 13 \/ i = 22 \/ i = 23
    OBVIOUS
  <2>2. \A i \in 1..23 : i \notin {9, 12, 16, 21} =>
          Sprint3[i].do \in {"send", "expect", "compare", "stop", "close"}
    BY <2>1, Script3
  <2> QED BY <2>2 DEF Checks
<1>2. /\ Sprint3[9] = Include("htt", "sth", "proveHtt")
      /\ Sprint3[12] = Include("build", "sth", "proveBuild")
      /\ Sprint3[16] = Extend("htt", "sth", "consistency")
      /\ Sprint3[21] = Cli
  BY DEF Sprint3, Sprint3Calls
<1> QED BY <1>1, <1>2

\* A proof from the tiles verifies the leaf at its index and nothing else.
LEMMA TileProof ==
  ASSUME IInv, NEW n \in 0..Len(entries), NEW i \in 0..(n - 1), NEW leaf
  PROVE  VerifyInclusion(i, n, leaf, InclusionProof(entries, i, n),
                         RootAt(entries, n))
           <=> entries[i + 1] = leaf
<1> DEFINE tree == RootAt(entries, n)
<1>1. entries \in Seq(Leaves) /\ Len(entries) \in Nat
  BY LenProperties DEF IInv, TypeOK
<1>2. /\ tree \in Seq(Leaves) /\ Len(tree) = n
      /\ \A j \in 1..n : tree[j] = entries[j]
  BY <1>1, RootAtType
<1> HIDE DEF tree
<1>3. i + 1 \in 1..n /\ i < n
  BY <1>1
<1>4. tree = [tree EXCEPT ![i + 1] = leaf] <=> tree[i + 1] = leaf
  BY <1>2, <1>3, LenProperties
<1>5. /\ InclusionProof(entries, i, n).index = i
      /\ InclusionProof(entries, i, n).size = n
      /\ InclusionProof(entries, i, n).tree = tree
  BY DEF InclusionProof, tree
<1>6. VerifyInclusion(i, n, leaf, InclusionProof(entries, i, n), tree)
        <=> tree[i + 1] = leaf
  BY <1>3, <1>4, <1>5 DEF VerifyInclusion
<1> QED BY <1>2, <1>3, <1>6 DEF tree

\* A consistency proof verifies from the root of the earlier tree and from no
\* other, in particular not from one that nobody logged.
LEMMA TileExtension ==
  ASSUME IInv, NEW n \in 0..Len(entries), NEW m \in 1..(n - 1)
  PROVE  /\ VerifyConsistency(m, n, ConsistencyProof(entries, m, n),
                              RootAt(entries, m), RootAt(entries, n))
         /\ ~VerifyConsistency(m, n, ConsistencyProof(entries, m, n),
                               <<Tampered>>, RootAt(entries, n))
<1>1. entries \in Seq(Leaves) /\ Len(entries) \in Nat
  BY LenProperties DEF IInv, TypeOK
<1>2. RootAt(RootAt(entries, n), m) = RootAt(entries, m)
  <2>1. 1 \in 1..Len(entries) /\ n \in 0..Len(entries)
    BY <1>1
  <2>2. 1 \in 1..(n - 1 + 1) /\ m \in 1..(n - 1 + 1)
    OBVIOUS
  <2>3. SubSeq(SubSeq(entries, 1, n), 1, m) = SubSeq(entries, 1 + 1 - 1, 1 + m - 1)
    BY <1>1, <2>1, <2>2, SubSeqOfSubSeq
  <2> QED BY <2>3 DEF RootAt
<1>3. /\ ConsistencyProof(entries, m, n).from = m
      /\ ConsistencyProof(entries, m, n).to = n
      /\ ConsistencyProof(entries, m, n).tree = RootAt(entries, n)
  BY DEF ConsistencyProof
<1>4. <<Tampered>> # RootAt(entries, m)
  <2>1. RootAt(entries, m)[1] = entries[1] /\ entries[1] \in Leaves
    <3>1. m \in 0..Len(entries) /\ 1 \in 1..m /\ 1 \in 1..Len(entries)
      BY <1>1
    <3>2. RootAt(entries, m)[1] = entries[1]
      BY <1>1, <3>1, RootAtType
    <3> QED BY <1>1, <3>1, <3>2, ElementOfSeq
  <2>2. <<Tampered>>[1] = Tampered
    OBVIOUS
  <2> QED BY <2>1, <2>2, DemoLeaves
<1>5. 0 < m /\ m < n /\ m # n
  BY <1>1
<1> QED BY <1>2, <1>3, <1>4, <1>5 DEF VerifyConsistency

\* A head that was shown is one of the log.
LEMMA HeadShown ==
  ASSUME IInv, NEW r \in Requests, TellsSize(r), reply[r].status = 200
  PROVE  /\ reply[r].size \in 0..Len(entries)
         /\ reply[r].size \in Nat /\ checkpoint.size \in Nat
         /\ reply[r].size <= checkpoint.size
         /\ reply[r].root = RootAt(entries, reply[r].size)
<1>1. /\ reply[r].size \in 0..checkpoint.size
      /\ reply[r].root = RootAt(entries, reply[r].size)
      /\ checkpoint.size <= Len(entries) /\ checkpoint.size \in Nat
  BY DEF IInv, ReplyInv, HeadsInv, IsHead, TypeOK, Checkpoints
<1> QED BY <1>1, LenProperties DEF IInv, TypeOK

\* A receipt verifies against any head that covers it, and a tampered leaf
\* does not.
LEMMA ReceiptVerifies ==
  ASSUME IInv, NEW r \in Requests, NEW h \in Requests, call[r].leaf = r,
         Answered(r, "submit"), TellsSize(h), reply[h].status = 200,
         reply[r].index < reply[h].size
  PROVE  LET i == reply[r].index
             n == reply[h].size
             p == InclusionProof(entries, i, n)
         IN  /\ i \in 0..(n - 1)
             /\ VerifyInclusion(i, n, r, p, reply[h].root)
             /\ ~VerifyInclusion(i, n, Tampered, p, reply[h].root)
<1> DEFINE i == reply[r].index
           n == reply[h].size
<1>1. n \in 0..Len(entries) /\ reply[h].root = RootAt(entries, n) /\ n \in Nat
  BY HeadShown
<1>2. i \in 0..(reply[r].size - 1) /\ entries[i + 1] = r
  BY DEF IInv, ReplyInv
<1>3. i \in 0..(n - 1)
  BY <1>1, <1>2
<1>4. entries[i + 1] \in Leaves
  BY <1>1, <1>3, LenProperties, ElementOfSeq DEF IInv, TypeOK
<1> HIDE DEF i, n
<1>5. /\ VerifyInclusion(i, n, r, InclusionProof(entries, i, n), reply[h].root)
      /\ ~VerifyInclusion(i, n, Tampered, InclusionProof(entries, i, n),
                          reply[h].root)
  BY <1>1, <1>2, <1>3, <1>4, TileProof, DemoLeaves
<1> QED BY <1>3, <1>5 DEF i, n

\* A check of sprint 1 is against the head its receipt came with.
LEMMA Passes1 ==
  ASSUME IInv, ScriptInv, program = "sprint1", Doing(Checks)
  PROVE  Passes(Step)
<1>1. Steps = Sprint1 /\ Len(Steps) = 5
  BY StepsOf
<1>2. Step = Sprint1[at] /\ at \in 1..5 /\ Sprint1[at].do \in Checks
  BY <1>1, Positions DEF Doing, Step, Steps, ScriptInv, ControlInv
<1>3. at \in {4, 5}
  BY <1>2, Checks1
<1>4. /\ Answered("leaf", "submit") /\ call["leaf"].leaf = "leaf"
      /\ "leaf" \in Requests
  BY <1>3, State1, DemoRequests DEF Own, OwnLeaves
<1>5. /\ TellsSize("leaf") /\ reply["leaf"].status = 200
      /\ reply["leaf"].index < reply["leaf"].size
  <2>1. TellsSize("leaf") /\ reply["leaf"].status = 200
    BY <1>4 DEF Answered, TellsSize
  <2> QED BY <1>4, <2>1, HeadShown DEF IInv, ReplyInv
<1>6. LET i == reply["leaf"].index
          n == reply["leaf"].size
          p == InclusionProof(entries, i, n)
      IN  /\ VerifyInclusion(i, n, "leaf", p, reply["leaf"].root)
          /\ ~VerifyInclusion(i, n, Tampered, p, reply["leaf"].root)
  BY <1>4, <1>5, ReceiptVerifies
<1>7. CASE at = 4
  <2>1. Step = Include("leaf", "leaf", "tiles")
    BY <1>2, <1>7, Checks1
  <2> QED BY <1>6, <2>1 DEF Passes, Included, IndexOf, Include
<1>8. CASE at = 5
  <2>1. Step = Tamper("leaf", "leaf")
    BY <1>2, <1>8, Checks1
  <2> QED BY <1>6, <2>1 DEF Passes, Included, IndexOf, Tamper
<1> QED BY <1>3, <1>7, <1>8

\* Those of sprint 1b are right to take indices and sizes for granted, unless an
\* entry was refused.
LEMMA Passes1b ==
  ASSUME IInv, ScriptInv, BatchInv, BatchCheckpoints, program = "sprint1b",
         NoneRefused, Doing(Checks)
  PROVE  Passes(Step)
<1>1. Steps = Sprint1b /\ Len(Steps) = 12
  BY StepsOf
<1>2. Step = Sprint1b[at] /\ at \in 1..12 /\ Sprint1b[at].do \in Checks
  BY <1>1, Positions DEF Doing, Step, Steps, ScriptInv, ControlInv
<1>3. at \in 8..12
  BY <1>2, Checks1b
<1>4. /\ Answered("entry04", "submit") /\ Answered("entry09", "submit")
      /\ "entry04" \in Requests /\ "entry09" \in Requests
      /\ "entry04" \in Entries1b /\ "entry09" \in Entries1b
  BY <1>2, <1>3, State1b, DemoRequests DEF Own, OwnLeaves, Entries1b
<1>5. /\ TellsSize("entry04") /\ reply["entry04"].status = 200
      /\ TellsSize("entry09") /\ reply["entry09"].status = 200
  BY <1>4 DEF Answered, TellsSize
<1>6. reply["entry04"].size = 2 /\ reply["entry09"].size = 4
  BY <1>4 DEF BatchCheckpoints, CheckpointsAsAnnounced, BatchSize
<1>7. /\ reply["entry04"].root = RootAt(entries, 2)
      /\ reply["entry09"].root = RootAt(entries, 4) /\ 4 \in 0..Len(entries)
  BY <1>4, <1>5, <1>6, HeadShown
<1>8. entries[1] = "entry00" /\ entries[2] = "entry04" /\ entries[4] = "entry09"
  <2>1. Len(entries) \in Nat
    BY LenProperties DEF IInv, TypeOK
  <2>2. \A i \in 1..4 : i \in 1..Len(entries)
    BY <1>7, <2>1
  <2>3. \A i \in 1..4 : entries[i] = Entry1b[i]
    BY <2>2 DEF BatchInv
  <2> QED BY <2>3 DEF Entry1b
<1>9. ASSUME NEW i \in 0..3
      PROVE  VerifyInclusion(i, 4, entries[i + 1], InclusionProof(entries, i, 4),
                             RootAt(entries, 4))
  BY <1>7, TileProof
<1>10. /\ IndexOf("entry00") = 0 /\ IndexOf("entry04") = 1 /\ IndexOf("entry09") = 3
  BY DEF IndexOf
<1>11. CASE at \in {8, 9, 10}
  <2>1. PICK leaf \in {"entry00", "entry04", "entry09"} :
          Step = Include(leaf, "entry09", "tiles")
    BY <1>2, <1>11, Checks1b
  <2>2. /\ Step.do = "include" /\ Step.leaf = leaf /\ Step.head = "entry09"
        /\ Step.from = "tiles"
    BY <2>1 DEF Include
  <2>3. IndexOf(leaf) \in 0..3 /\ entries[IndexOf(leaf) + 1] = leaf
    BY <1>8, <1>10
  <2>4. VerifyInclusion(IndexOf(leaf), 4, leaf,
                        InclusionProof(entries, IndexOf(leaf), 4), RootAt(entries, 4))
    BY <1>9, <2>3
  <2> QED BY <1>6, <1>7, <2>2, <2>4 DEF Passes, Included
<1>12. /\ VerifyConsistency(2, 4, ConsistencyProof(entries, 2, 4),
                            RootAt(entries, 2), RootAt(entries, 4))
       /\ ~VerifyConsistency(2, 4, ConsistencyProof(entries, 2, 4),
                             <<Tampered>>, RootAt(entries, 4))
  <2>1. 2 \in 1..(4 - 1)
    OBVIOUS
  <2> QED BY <1>7, <2>1, TileExtension
<1>13. CASE at = 11
  <2>1. Step = Extend("entry04", "entry09", "tiles")
    BY <1>2, <1>13, Checks1b
  <2> QED BY <1>6, <1>7, <1>12, <2>1 DEF Passes, Extended, Extend
<1>14. CASE at = 12
  <2>1. Step = Forge("entry04", "entry09")
    BY <1>2, <1>14, Checks1b
  <2> QED BY <1>6, <1>7, <1>12, <2>1 DEF Passes, Extended, Forge
<1> QED BY <1>3, <1>11, <1>13, <1>14

\* Those of sprint 2 are against its last head, which covers all it added.
LEMMA Passes2 ==
  ASSUME IInv, NeverBackdated, ScriptInv, program = "sprint2", Doing(Checks)
  PROVE  Passes(Step)
<1>1. Steps = Sprint2 /\ Len(Steps) = 14
  BY StepsOf
<1>2. Step = Sprint2[at] /\ at \in 1..14 /\ Sprint2[at].do \in Checks
  BY <1>1, Positions DEF Doing, Step, Steps, ScriptInv, ControlInv
<1>3. at \in {8, 9, 10, 12, 13} /\ at > 6 /\ at > 4 /\ at > 2
  BY <1>2, Checks2
<1>4. /\ \A r \in {"htt", "build", "deploy"} :
           Answered(r, "submit") /\ call[r].leaf = r /\ r \in Requests
      /\ "htt" \in before["deploy"] /\ "build" \in before["deploy"]
  BY <1>3, State2, DemoRequests DEF Own, OwnLeaves
<1>5. \A r \in {"htt", "build", "deploy"} : TellsSize(r) /\ reply[r].status = 200
  BY <1>4 DEF Answered, TellsSize
<1>6. ASSUME NEW r \in {"htt", "build", "deploy"}
      PROVE  /\ reply[r].size \in 0..Len(entries) /\ reply[r].size \in Nat
             /\ reply[r].root = RootAt(entries, reply[r].size)
             /\ reply[r].index \in 0..(reply[r].size - 1)
  BY <1>4, <1>5, HeadShown DEF IInv, ReplyInv
<1>7. /\ reply["htt"].size <= reply["deploy"].index
      /\ reply["build"].size <= reply["deploy"].index
  BY <1>4, <1>5 DEF NeverBackdated
<1>8. ASSUME NEW r \in {"htt", "build", "deploy"}
      PROVE  LET i == reply[r].index
                 n == reply["deploy"].size
                 p == InclusionProof(entries, i, n)
             IN  /\ VerifyInclusion(i, n, r, p, reply["deploy"].root)
                 /\ ~VerifyInclusion(i, n, Tampered, p, reply["deploy"].root)
  <2>1. reply[r].index < reply["deploy"].size
    BY <1>6, <1>7
  <2> QED BY <1>4, <1>5, <2>1, ReceiptVerifies
<1>9. CASE at \in {8, 9, 10}
  <2>1. PICK r \in {"htt", "build", "deploy"} : Step = Include(r, "deploy", "tiles")
    BY <1>2, <1>9, Checks2
  <2>2. /\ Step.do = "include" /\ Step.leaf = r /\ Step.head = "deploy"
        /\ Step.from = "tiles"
    BY <2>1 DEF Include
  <2> QED BY <1>8, <2>2 DEF Passes, Included, IndexOf
<1>10. CASE at = 12
  <2>1. Step = Extend("htt", "deploy", "tiles")
    BY <1>2, <1>10, Checks2
  <2>2. /\ Step.do = "extend" /\ Step.old = "htt" /\ Step.head = "deploy"
        /\ Step.from = "tiles"
    BY <2>1 DEF Extend
  <2>3. reply["htt"].size \in 1..(reply["deploy"].size - 1)
    BY <1>6, <1>7
  <2>4. VerifyConsistency(reply["htt"].size, reply["deploy"].size,
          ConsistencyProof(entries, reply["htt"].size, reply["deploy"].size),
          reply["htt"].root, reply["deploy"].root)
    BY <1>6, <2>3, TileExtension
  <2> QED BY <2>2, <2>4 DEF Passes, Extended
<1>11. CASE at = 13
  <2>1. Step = Tamper("htt", "deploy")
    BY <1>2, <1>11, Checks2
  <2>2. /\ Step.do = "tamper" /\ Step.leaf = "htt" /\ Step.head = "deploy"
        /\ Step.from = "tiles"
    BY <2>1 DEF Tamper
  <2> QED BY <1>8, <2>2 DEF Passes, Included, IndexOf
<1> QED BY <1>3, <1>9, <1>10, <1>11

\* A proof of sprint 3 is for the size the log has when it is asked for, which
\* may be past the head it is checked against.
LEMMA Passes3 ==
  ASSUME IInv, NeverBackdated, AskedInv, ScriptInv, program = "sprint3",
         Doing(Checks)
  PROVE  Passes(Step) \/ checkpoint.size > reply["sth"].size
<1>1. Steps = Sprint3 /\ Len(Steps) = 23
  BY StepsOf
<1>2. Step = Sprint3[at] /\ at \in 1..23 /\ Sprint3[at].do \in Checks
  BY <1>1, Positions DEF Doing, Step, Steps, ScriptInv, ControlInv
<1>3. at \in {9, 12, 16, 21} /\ at > 6 /\ at > 4 /\ at > 2 /\ at > 8 /\ at > 7
  BY <1>2, Checks3
<1>4. /\ \A r \in {"htt", "build"} :
           Answered(r, "submit") /\ call[r].leaf = r /\ r \in Requests
      /\ Answered("sth", "sth")
      /\ {"sth", "proveHtt", "proveBuild", "consistency"} \subseteq Requests
  BY <1>3, State3, DemoRequests DEF Own, OwnLeaves, Queries
<1>5. \A r \in {"htt", "build", "sth"} : TellsSize(r) /\ reply[r].status = 200
  BY <1>4 DEF Answered, TellsSize
<1>6. ASSUME NEW r \in {"htt", "build", "sth"}
      PROVE  /\ reply[r].size \in 0..Len(entries) /\ reply[r].size \in Nat
             /\ reply[r].size <= checkpoint.size /\ checkpoint.size \in Nat
             /\ reply[r].root = RootAt(entries, reply[r].size)
  BY <1>4, <1>5, HeadShown
<1>7. /\ reply["htt"].size < reply["sth"].size
      /\ reply["build"].size <= reply["sth"].size
  BY <1>3, Grown3
<1>8. \A r \in {"htt", "build"} : reply[r].index \in 0..(reply[r].size - 1)
  BY <1>4 DEF IInv, ReplyInv
<1>9. ASSUME NEW r \in {"htt", "build"}, NEW q \in {"proveHtt", "proveBuild"},
             Answered(q, "prove"), call[q].index = reply[r].index,
             "sth" \in before[q], Step = Include(r, "sth", q)
      PROVE  Passes(Step) \/ checkpoint.size > reply["sth"].size
  <2>1. TellsSize(q) /\ reply[q].status = 200 /\ q \in Requests
    BY <1>4, <1>9 DEF Answered, TellsSize
  <2>2. /\ reply[q].size \in Nat /\ reply[q].size <= checkpoint.size
        /\ reply["sth"].size <= reply[q].size
    BY <1>4, <1>5, <1>9, <2>1, HeadShown DEF IInv, BeforeInv, WillTellAtLeast
  <2>3. CASE reply[q].size = reply["sth"].size
    <3>1. reply[q].proof =
            InclusionProof(entries, reply[r].index, reply["sth"].size)
      BY <1>9, <2>1, <2>3 DEF IInv, ReplyInv, AskedInv
    <3>2. reply[r].index < reply["sth"].size
      BY <1>6, <1>7, <1>8
    <3>3. VerifyInclusion(reply[r].index, reply["sth"].size, r, reply[q].proof,
                          reply["sth"].root)
      BY <1>4, <1>5, <3>1, <3>2, ReceiptVerifies
    <3>4. /\ Step.do = "include" /\ Step.leaf = r /\ Step.head = "sth"
          /\ Step.from = q
      BY <1>9 DEF Include
    <3> QED BY <3>3, <3>4 DEF Passes, Included, IndexOf
  <2>4. CASE reply[q].size # reply["sth"].size
    BY <1>6, <2>2, <2>4
  <2> QED BY <2>3, <2>4
<1>10. CASE at = 9
  <2>1. Step = Include("htt", "sth", "proveHtt")
    BY <1>2, <1>10, Checks3
  <2>2. /\ Answered("proveHtt", "prove") /\ "sth" \in before["proveHtt"]
        /\ call["proveHtt"].index = reply["htt"].index
    BY <1>3, State3
  <2> QED BY <1>9, <2>1, <2>2
<1>11. CASE at = 12
  <2>1. Step = Include("build", "sth", "proveBuild")
    BY <1>2, <1>11, Checks3
  <2>2. /\ Answered("proveBuild", "prove") /\ "sth" \in before["proveBuild"]
        /\ call["proveBuild"].index = reply["build"].index
    BY <1>11, State3
  <2> QED BY <1>9, <2>1, <2>2
<1>12. CASE at = 16
  <2>1. Step = Extend("htt", "sth", "consistency")
    BY <1>2, <1>12, Checks3
  <2>2. /\ Step.do = "extend" /\ Step.old = "htt" /\ Step.head = "sth"
        /\ Step.from = "consistency"
    BY <2>1 DEF Extend
  <2>3. /\ Answered("consistency", "consistency")
        /\ call["consistency"].from = reply["htt"].size
        /\ call["consistency"].to = reply["sth"].size
    BY <1>12, State3
  <2>4. reply["consistency"].proof =
          ConsistencyProof(entries, reply["htt"].size, reply["sth"].size)
    BY <1>4, <2>3 DEF IInv, ReplyInv, AskedInv
  <2>5. reply["htt"].size \in 1..(reply["sth"].size - 1)
    BY <1>6, <1>7, <1>8
  <2>6. VerifyConsistency(reply["htt"].size, reply["sth"].size,
          ConsistencyProof(entries, reply["htt"].size, reply["sth"].size),
          reply["htt"].root, reply["sth"].root)
    BY <1>6, <2>5, TileExtension
  <2> QED BY <2>2, <2>4, <2>6 DEF Passes, Extended
<1>13. CASE at = 21
  <2>1. Step.do = "cli"
    BY <1>2, <1>13, Checks3 DEF Cli
  <2>2. /\ checkpoint.size \in 0..Len(entries)
        /\ checkpoint.root = RootAt(entries, checkpoint.size)
    BY LenProperties DEF IInv, HeadsInv, IsHead, TypeOK, Checkpoints
  <2>3. /\ reply["htt"].index \in 0..(checkpoint.size - 1)
        /\ entries[reply["htt"].index + 1] = "htt"
    <3>1. entries[reply["htt"].index + 1] = "htt"
      BY <1>4 DEF IInv, ReplyInv
    <3>2. reply["htt"].index \in 0..(checkpoint.size - 1)
      BY <1>6, <1>8
    <3> QED BY <3>1, <3>2
  <2>4. CliVerifies
    BY <2>2, <2>3, TileProof DEF CliVerifies
  <2> QED BY <2>1, <2>4 DEF Passes
<1> QED BY <1>3, <1>10, <1>11, <1>12, <1>13

\* What each wait of a script expects.
LEMMA Expected ==
  ASSUME ScriptInv, NEW i \in 1..Len(Steps), Steps[i].do = "expect"
  PROVE  Steps[i].status =
           CASE Steps[i].r = "empty" -> 400
             [] Steps[i].r = "far" -> 404
             [] OTHER -> 200
<1>1. CASE program = "sprint1"
  <2>1. Steps = Sprint1 /\ Len(Steps) = 5
    BY <1>1, StepsOf
  <2>2. i \in 1..5
    BY <2>1
  <2> QED BY <2>1, <2>2, Script1
<1>2. CASE program = "sprint1b"
  <2>1. Steps = Sprint1b /\ Len(Steps) = 12
    BY <1>2, StepsOf
  <2>2. i \in 1..12
    BY <2>1
  <2> QED BY <2>1, <2>2, Script1b
<1>3. CASE program = "sprint2"
  <2>1. Steps = Sprint2 /\ Len(Steps) = 14
    BY <1>3, StepsOf
  <2>2. i \in 1..14
    BY <2>1
  <2> QED BY <2>1, <2>2, Script2
<1>4. CASE program = "sprint3"
  <2>1. Steps = Sprint3 /\ Len(Steps) = 23
    BY <1>4, StepsOf
  <2>2. i \in 1..23
    BY <2>1
  <2> QED BY <2>1, <2>2, Script3
<1>5. CASE program = "server"
  BY <1>5, StepsOf
<1> QED BY <1>1, <1>2, <1>3, <1>4, <1>5 DEF ScriptInv, ControlInv, Programs

\* A program that has ended does nothing more; one that ends by calling the log
\* broken met a later tree than the one it checked against, or one that holds
\* the index it took to be out of range, or had an entry refused.
LEMMA BrokenStep ==
  ASSUME DemoNext, IInv, NeverBackdated, AskedInv, ScriptInv, StatusInv, BatchInv,
         BatchCheckpoints, FalseAlarms
  PROVE  FalseAlarms'
<1> SUFFICES ASSUME cause' = "refused"
             PROVE  \/ /\ program' = "sprint3"
                       /\ \/ checkpoint'.size > reply'["sth"].size
                          \/ checkpoint'.size > FarIndex
                    \/ program' = "sprint1b" /\ ~NoneRefused'
  BY DEF FalseAlarms
<1>1. cause # "refused"
  <2> SUFFICES ASSUME cause = "refused" PROVE FALSE
    OBVIOUS
  <2>1. exit # Running /\ program # "server"
    BY DEF ScriptInv, ControlInv, ServerInv, Running
  <2> QED BY <2>1 DEF DemoNext, Start, MainStep, Call, Compare, Receive, Check,
       CheckFails, ShutDown, ShutDownReturns, ShutDownFails, StopListening,
       StopReturns, End, ClientArrives, Serve, ServeFails, Refuse, Library, Doing,
       Started
<1>2. CASE Receive
  <2>1. /\ at \in 1..Len(Steps) /\ Step = Steps[at] /\ Steps[at].do = "expect"
        /\ pc[Step.r] = "done" /\ program' = program /\ UNCHANGED <<checkpoint, reply>>
        /\ reply[Step.r].status # Step.status /\ reply[Step.r].status # 500
    BY <1>1, <1>2, Positions DEF Receive, Doing, Started, Step, Steps, Proceed, Fail,
       ScriptInv, ControlInv, vars, tesseraVars, apiVars
  <2>2. Step.r \in Own
    BY <2>1, StepCalls DEF ScriptInv, ControlInv
  <2>3. Step.status = CASE Step.r = "empty" -> 400
                        [] Step.r = "far" -> 404
                        [] OTHER -> 200
    BY <2>1, Expected
  <2>4. Step.r = "far" /\ FarIndex < checkpoint.size
    BY <2>1, <2>2, <2>3 DEF StatusInv
  <2>5. program = "sprint3"
    BY <2>1, <2>4, QueriesFollow DEF ScriptInv, Queries
  <2>6. checkpoint.size \in Nat /\ FarIndex \in Nat
    BY FarIndexAssumption, MaxSizeAssumption DEF IInv, TypeOK, Checkpoints
  <2> QED BY <2>1, <2>4, <2>5, <2>6
<1>3. CASE Check
  <2>1. /\ Doing(Checks) /\ ~Passes(Step)
        /\ program' = program /\ UNCHANGED <<checkpoint, reply, pc>>
    BY <1>1, <1>3 DEF Check, Proceed, Fail, vars, tesseraVars, apiVars
  <2>2. program # "server"
    BY <2>1 DEF Doing, Started
  <2>3. program = "sprint3" \/ (program = "sprint1b" /\ ~NoneRefused)
    BY <2>1, <2>2, Passes1, Passes1b, Passes2 DEF ScriptInv, ControlInv, Programs
  <2>4. NoneRefused' = NoneRefused
    BY <2>1 DEF NoneRefused
  <2> QED BY <2>1, <2>3, <2>4, Passes3
<1>4. CASE ~Receive /\ ~Check
  BY <1>1, <1>4 DEF DemoNext, Start, MainStep, Call, Compare, CheckFails, ShutDown,
     ShutDownReturns, ShutDownFails, StopListening, StopReturns, End,
     ClientArrives, Serve, ServeFails, Refuse, Library, demoVars, Proceed, Fail
<1> QED BY <1>2, <1>3, <1>4

-----------------------------------------------------------------------------
(***************************************************************************)
(* The invariant holds at first and is kept by every step.                 *)
(***************************************************************************)

\* Before a program is started the log is empty and nothing was asked.
LEMMA DemoInitInv == DemoInit => DInv
<1> SUFFICES ASSUME DemoInit PROVE DInv
  OBVIOUS
<1> USE DEF DemoInit, Init
<1>1. program = "server" /\ at = 1 /\ Steps = <<>> /\ Len(Steps) = 0 /\ Passed = {}
  BY StepsOf DEF Passed
<1>2. \A r \in Requests : pc[r] = "idle"
  OBVIOUS
<1>3. \A r \in Own : pc[r] = "idle"
  BY <1>2, DemoRequests
<1>4. ServerInv /\ ControlInv /\ EntriesInv
  <2>1. at \in 1..(Len(Steps) + 1)
    BY <1>1
  <2>2. ControlInv
    BY <1>1, <2>1 DEF ControlInv, Running
  <2>3. ServerInv /\ EntriesInv
    BY <1>1, <1>3 DEF ServerInv, EntriesInv, TesseraInit
  <2> QED BY <2>2, <2>3
<1>5. SentInv /\ CallInv /\ StatusInv /\ ClosedInv
  BY <1>1, <1>3 DEF SentInv, CallInv, StatusInv, ClosedInv
<1>6. AnsweredInv /\ OrderInv
  BY <1>1 DEF AnsweredInv, OrderInv
<1>7. BatchInv /\ BatchCheckpoints /\ FalseAlarms /\ ClosedToNobody
  BY <1>1 DEF BatchInv, BatchCheckpoints, CheckpointsAsAnnounced, FalseAlarms,
              ClosedToNobody
<1> QED BY <1>4, <1>5, <1>6, <1>7 DEF DInv

\* Every step of a demo keeps it, given what LogApi keeps.
LEMMA DemoStepInv ==
  ASSUME DemoNext, IInv, NeverBackdated, AskedInv, DInv
  PROVE  DInv'
<1> USE DEF DInv
<1>1. TypeOK /\ ScriptInv
  BY DEF IInv, ScriptInv
<1>2. ConsistencyIsChecked
  BY <1>1, Checked
<1>3. ServerInv' /\ ControlInv' /\ EntriesInv'
  BY <1>1, <1>2, ServerStep, ControlStep, EntriesStep
<1>4. SentInv' /\ CallInv' /\ AnsweredInv' /\ OrderInv'
  BY <1>1, <1>2, SentStep, CallStep, AnsweredStep, OrderStep
<1>5. StatusInv' /\ ClosedInv' /\ ClosedToNobody'
  BY <1>1, <1>2, StatusStep, ClosedStep, NobodyStep
<1>6. BatchInv' /\ BatchCheckpoints' /\ FalseAlarms'
  BY <1>1, <1>2, BatchStep, HeadsOfBatches, BrokenStep
<1> QED BY <1>3, <1>4, <1>5, <1>6

\* So does a step that changes nothing.
LEMMA DemoStutterInv ==
  ASSUME UNCHANGED <<vars, demoVars>>, DInv
  PROVE  DInv'
<1> USE DEF DInv, vars, tesseraVars, apiVars, demoVars
<1>1. Steps' = Steps /\ Passed' = Passed /\ Added' = Added
  BY DEF Steps, Passed, Added
<1>2. /\ \A r : Answered(r, "submit")' = Answered(r, "submit")
      /\ \A r : InFlight(r)' = InFlight(r) /\ OwnCall(r)' = OwnCall(r)
      /\ \A i, r : Sends(i, r)' = Sends(i, r)
  BY <1>1 DEF Answered, InFlight, OwnCall, Sends
<1>3. ServerInv' /\ ControlInv' /\ EntriesInv'
  BY <1>1 DEF ServerInv, ControlInv, EntriesInv
<1>4. SentInv' /\ CallInv' /\ AnsweredInv' /\ OrderInv'
  BY <1>1, <1>2 DEF SentInv, CallInv, AnsweredInv, OrderInv
<1>5. StatusInv' /\ ClosedInv' /\ ClosedToNobody'
  BY <1>1, <1>2 DEF StatusInv, ClosedInv, ClosedToNobody
<1>6. BatchInv' /\ BatchCheckpoints' /\ FalseAlarms'
  <2>1. NoneRefused' = NoneRefused
    BY DEF NoneRefused
  <2> QED BY <1>1, <1>2, <2>1 DEF BatchInv, BatchCheckpoints, CheckpointsAsAnnounced,
                                  FalseAlarms
<1> QED BY <1>3, <1>4, <1>5, <1>6

\* The invariant holds throughout every demo.
THEOREM DemoInvariance == DemoSpec => [](DInv /\ IInv /\ NeverBackdated)
<1>1. DemoSpec => [](IInv /\ NeverBackdated /\ AskedInv)
  BY DemosRefineLogApi, Invariance, AnswersMatch, PTL
<1>2. DInv /\ (IInv /\ NeverBackdated /\ AskedInv) /\ [DemoNext]_<<vars, demoVars>>
        => DInv'
  BY DemoStepInv, DemoStutterInv
<1> QED BY <1>1, <1>2, DemoInitInv, PTL DEF DemoSpec

-----------------------------------------------------------------------------
(***************************************************************************)
(* The theorems.                                                           *)
(***************************************************************************)

\* The demos keep to their scripts: the step taken next is one of them, and a
\* program fails for a reason that is told.
THEOREM DemosTypeCorrect == DemoSpec => []DemoTypeOK
<1>1. DInv /\ IInv => DemoTypeOK
  BY DEF DInv, ControlInv, IInv, DemoTypeOK, Steps
<1> QED BY <1>1, DemoInvariance, PTL

\* Sprints 1 and 2 never call the log broken.  Sprint 3 does so only when others
\* grow it: past its head, or to the index it takes to be out of range; and
\* sprint 1b only when it has ignored that an entry was refused.
THEOREM AlarmsExplained == DemoSpec => []FalseAlarms
<1>1. DInv => FalseAlarms
  BY DEF DInv
<1> QED BY <1>1, DemoInvariance, PTL

\* The two checkpoints of sprint 1b are those of its two batches, unless the
\* appender refused an entry that is not awaited.
THEOREM BatchesHaveTheirHeads == DemoSpec => []BatchCheckpoints
<1>1. DInv => BatchCheckpoints
  BY DEF DInv
<1> QED BY <1>1, DemoInvariance, PTL

\* Sprints 2 and 3 never skip their consistency check.
THEOREM ConsistencyNeverSkipped == DemoSpec => []ConsistencyIsChecked
<1>1. DInv /\ IInv /\ NeverBackdated => ConsistencyIsChecked
  BY Checked DEF DInv, ScriptInv
<1> QED BY <1>1, DemoInvariance, PTL

\* No client meets a closed appender, except where sprint 2 closes it under a
\* running server, or a server gave up waiting for its handlers.
THEOREM ServersCloseLast == DemoSpec => []ClosedToNobody
<1>1. DInv => ClosedToNobody
  BY DEF DInv
<1> QED BY <1>1, DemoInvariance, PTL
=============================================================================
