----------------------------- MODULE Sprint4Run ------------------------------
(***************************************************************************)
(* One run of cmd/sprint4: the benchmarks, unless --fresh=false, then the  *)
(* correctness suite, then the deferred function that writes the CSV files *)
(* and prints the summary, and the exit code.  fatalf ends the process at  *)
(* once, also from inside the deferred function.  The output directory may *)
(* hold files of earlier runs.                                             *)
(***************************************************************************)
EXTENDS CorrectnessSuite

VARIABLES stage,      \* where run stands
          fresh,      \* the --fresh flag
          confirmed,  \* resultA.confirmed, of which only 0 is told apart
          latency,    \* latResults is not empty
          finished,   \* history: the reports whose phase has returned
          files,      \* what is in each report's file
          written,    \* how many reports the deferred function has flushed
          summary,    \* the lines of the correctness table that were printed
          exit        \* the exit code

runVars == <<stage, fresh, confirmed, latency, finished, files, written,
             summary, exit>>

Running4 == -1  \* the process has not ended

Benchmarks == {"throughput", "storage", "latency"}
Reports == Benchmarks \cup {"correctness"}

\* What earlier runs, some of which may have died while writing, leave: the
\* benchmarks' files are written in this order and removed together.
Leftovers ==
  {[r \in Reports |-> IF r \in left THEN "earlier" ELSE "absent"] :
     left \in {b \cup c :
       b \in {{}, {"throughput"}, {"throughput", "storage"}, Benchmarks},
       c \in {{}, {"correctness"}}}}

RunInit ==
  /\ Init
  /\ stage = "begin"
  /\ fresh \in BOOLEAN
  /\ confirmed = 0
  /\ latency = FALSE
  /\ finished = {}
  /\ files \in Leftovers
  /\ written = 0
  /\ summary = <<>>
  /\ exit = Running4

-----------------------------------------------------------------------------
(* The phases. *)

At(s) == stage = s /\ exit = Running4

BeginKeeping ==  \* mutant: --fresh does not wipe the output directory
  /\ At("begin")
  /\ stage' = IF fresh THEN "runA" ELSE "suite"
  /\ UNCHANGED <<vars, fresh, confirmed, latency, finished, files, written,
                 summary, exit>>

\* --fresh wipes the output directory.
Begin ==
  /\ At("begin")
  /\ files' = IF fresh THEN [r \in Reports |-> "absent"] ELSE files
  /\ stage' = IF fresh THEN "runA" ELSE "suite"
  /\ UNCHANGED <<vars, fresh, confirmed, latency, finished, written, summary,
                 exit>>

\* Module Benchmark is what happens inside the next three.  Run A may confirm
\* nothing, and then there is nothing to measure the latency of.
RunA ==
  /\ At("runA")
  /\ stage' = "runB"
  /\ confirmed' \in {0, 1}
  /\ finished' = finished \cup {"storage"}
  /\ UNCHANGED <<vars, fresh, latency, files, written, summary, exit>>

RunB ==
  /\ At("runB")
  /\ stage' = "latency"
  /\ finished' = finished \cup {"throughput"}
  /\ UNCHANGED <<vars, fresh, confirmed, latency, files, written, summary, exit>>

Latency ==
  /\ At("latency")
  /\ stage' = "suite"
  /\ latency' = (confirmed > 0)
  /\ finished' = IF confirmed > 0 THEN finished \cup {"latency"} ELSE finished
  /\ UNCHANGED <<vars, fresh, confirmed, files, written, summary, exit>>

\* fatalf in the set-up or in one of the benchmarks.
PhaseFails ==
  /\ exit = Running4
  /\ stage \in {"begin", "runA", "runB", "latency"}
  /\ exit' = 1
  /\ UNCHANGED <<vars, stage, fresh, confirmed, latency, finished, files,
                 written, summary>>

Suite(step) ==
  /\ At("suite")
  /\ step
  /\ stage' = IF phase' = "returned" THEN "report" ELSE "suite"
  /\ finished' = IF phase' = "returned" THEN finished \cup {"correctness"}
                                        ELSE finished
  /\ exit' = IF phase' = "fatal" THEN 1 ELSE exit
  /\ UNCHANGED <<fresh, confirmed, latency, files, written, summary>>

-----------------------------------------------------------------------------
(* The deferred function. *)

ToWriteNoLatency ==  \* mutant: the latency results are not written
  IF fresh THEN <<"throughput", "storage", "correctness">>
           ELSE <<"correctness">>

ToWrite ==
  CASE ~fresh -> <<"correctness">>
    [] fresh /\ ~latency -> <<"throughput", "storage", "correctness">>
    [] fresh /\ latency -> <<"throughput", "storage", "latency", "correctness">>

NextReport == ToWrite[written + 1]

\* os.Create truncates what is there.
CreateReport ==
  /\ At("report") /\ written < Len(ToWrite)
  /\ files[NextReport] # "part"
  /\ files' = [files EXCEPT ![NextReport] = "part"]
  /\ UNCHANGED <<vars, stage, fresh, confirmed, latency, finished, written,
                 summary, exit>>

FlushReport ==
  /\ At("report") /\ written < Len(ToWrite)
  /\ files[NextReport] = "part"
  /\ files' = [files EXCEPT ![NextReport] = "whole"]
  /\ written' = written + 1
  /\ UNCHANGED <<vars, stage, fresh, confirmed, latency, finished, summary, exit>>

\* A file cannot be created or flushed: fatalf, past the reports still due.
ReportFails ==
  /\ At("report") /\ written < Len(ToWrite)
  /\ exit' = 1
  /\ UNCHANGED <<vars, stage, fresh, confirmed, latency, finished, files,
                 written, summary>>

PassIfAny(c) == IF res[c].passed > 0 THEN "PASS" ELSE "FAIL"  \* mutant

\* passOrFail, by what passed and not by what failed.
PassOrFail(c) ==
  IF Planned[c] > 0 /\ res[c].passed = Planned[c] THEN "PASS" ELSE "FAIL"

InclusionVerdict ==  \* mutant: only the inclusion proofs make the exit code
  IF res[1].failed > 0 THEN 1 ELSE 0

Verdict == IF \E c \in 1..3 : res[c].failed > 0 THEN 1 ELSE 0

Finish ==
  /\ At("report") /\ written = Len(ToWrite)
  /\ summary' = [c \in 1..3 |-> PassOrFail(c)]
  /\ exit' = Verdict
  /\ UNCHANGED <<vars, stage, fresh, confirmed, latency, finished, files, written>>

-----------------------------------------------------------------------------
Run ==
  \/ Begin \/ RunA \/ RunB \/ Latency
  \/ Suite(Main)
  \/ CreateReport \/ FlushReport \/ Finish

RunNext ==
  \/ Run
  \/ Suite(Next)
  \/ PhaseFails
  \/ ReportFails

\* As in LogApi: the timers of the library never stop while the appender is
\* open, and every runnable goroutine runs.
RunFairness ==
  /\ WF_<<vars, runVars>>(Run)
  /\ \A i \in Requests : WF_<<vars, runVars>>(Suite(Record(i)))
  /\ WF_<<vars, runVars>>(Suite(Background /\ IntegrateBatch))
  /\ WF_<<vars, runVars>>(Suite(Background /\ PublishCheckpoint))
  /\ WF_<<vars, runVars>>(Suite(AwaitRefused))
  /\ \A a \in Awaiters : WF_<<vars, runVars>>(Suite(Background /\ PollCheckpoint(a)))

RunSpec == RunInit /\ [][RunNext]_<<vars, runVars>>
FairRunSpec == RunSpec /\ RunFairness
-----------------------------------------------------------------------------
(* Properties. *)

RunTypeOK ==
  /\ TypeOK
  /\ stage \in {"begin", "runA", "runB", "latency", "suite", "report"}
  /\ fresh \in BOOLEAN /\ latency \in BOOLEAN
  /\ confirmed \in {0, 1}
  /\ finished \subseteq Reports
  /\ files \in [Reports -> {"absent", "earlier", "part", "whole"}]
  /\ written \in 0..Len(ToWrite)
  /\ summary \in {<<>>} \cup [1..3 -> {"PASS", "FAIL"}]
  /\ exit \in {Running4, 0, 1}

\* "0 = all correctness tests passed" (main.go:12): success means that every
\* planned check was made and passed, and that the results of every phase of
\* this run are in its files.
ZeroMeansAllPassed ==
  exit = 0 =>
    /\ \A c \in 1..3 : res[c] = [passed |-> Planned[c], failed |-> 0]
    /\ finished = {r \in Reports : files[r] = "whole"}
    /\ finished # {} /\ (fresh /\ confirmed > 0 => finished = Reports)

\* The table counts what passed and the exit code what failed: they agree.
TableAgreesWithExit ==
  summary # <<>> => (exit = 0 <=> \A c \in 1..3 : summary[c] = "PASS")

\* After a --fresh run that printed its summary no file of an earlier run lies
\* beside its own: above all no latency figures when there was no latency run.
FilesOfOneRun ==
  fresh /\ summary # <<>> => \A r \in Reports : files[r] # "earlier"

\* run ends: no goroutine, Await or batch of the suite holds it up for ever.
RunEnds == <>(exit # Running4)

\* "This ensures partial results from completed phases are always persisted"
\* (main.go:161-163), fatalf being kept for failures "where no meaningful
\* partial data exists to save" (main.go:126-128).
FinishedResultsPersist ==
  exit # Running4 => \A r \in finished : files[r] = "whole"
=============================================================================
