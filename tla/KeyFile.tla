------------------------------ MODULE KeyFile ------------------------------
(***************************************************************************)
(* The key files: entry-signing-key.txt, kept by signer.New, and the       *)
(* checkpoint keys, kept by each program's loadOrGenKey.  Both read the    *)
(* file and, when they cannot use it, generate a key pair and overwrite    *)
(* the file.  They differ in what they call usable: New parses both lines, *)
(* loadOrGenKey counts them.                                               *)
(*                                                                         *)
(* A start is one program run on the key directory.  A start generates one *)
(* pair at most, so a pair is named after the start that generated it.     *)
(***************************************************************************)
EXTENDS Integers

CONSTANTS Starts,       \* program runs that use the key file
          NoKey,        \* no key pair
          Validates,    \* TRUE: signer.New, FALSE: loadOrGenKey
          Exclusive,    \* no two starts are inside the call at one time
          ReadErrors,   \* os.ReadFile may fail on a file that exists
          ShortWrites   \* os.WriteFile may fail half way (a full disk)

ASSUME NoKeyAssumption == NoKey \notin Starts
ASSUME SwitchAssumption ==
  {Validates, Exclusive, ReadErrors, ShortWrites} \subseteq BOOLEAN
\* Two writers of which one stops half way leave a mixture of two pairs, which
\* this module has no name for.
ASSUME MixtureAssumption == ShortWrites => Exclusive

VARIABLES file,    \* what the file holds
          pc,      \* where each start stands in the call
          result   \* the pair the call has returned to each start

vars == <<file, pc, result>>

\* blank: fewer than two lines; torn: the private key and part of the public
\* key; whole: both keys.
Contents == [lines : {"absent", "blank", "torn", "whole"}, key : Starts \cup {NoKey}]

Holds(lines, k) == [lines |-> lines, key |-> k]
NoResult == Holds("absent", NoKey)

Init ==
  /\ file = Holds("absent", NoKey)
  /\ pc = [s \in Starts |-> "idle"]
  /\ result = [s \in Starts |-> NoResult]

InCall(s) == pc[s] \in {"reading", "generating", "writing"}

-----------------------------------------------------------------------------

\* fromNoteStrings accepts the two lines.
UsableKey(f) == f.lines = "whole"

\* loadOrGenKey returns the first two lines, whatever they are.
UsableLines(f) == f.lines \in {"torn", "whole"}

UsableAlways(f) == TRUE             \* mutant: the lines are not counted

Usable(f) == IF Validates THEN UsableKey(f) ELSE UsableLines(f)

Begin(s) ==
  /\ pc[s] = "idle"
  /\ Exclusive => \A t \in Starts : ~ InCall(t)
  /\ pc' = [pc EXCEPT ![s] = "reading"]
  /\ UNCHANGED <<file, result>>

Load(s) ==
  /\ pc[s] = "reading"
  /\ Usable(file)
  /\ result' = [result EXCEPT ![s] = file]
  /\ pc' = [pc EXCEPT ![s] = "ready"]
  /\ UNCHANGED file

\* No file, a file that cannot be read, and a file that is not usable are all
\* answered by a new pair.
Generate(s) ==
  /\ pc[s] = "reading"
  /\ ReadErrors \/ ~ Usable(file)
  /\ pc' = [pc EXCEPT ![s] = "generating"]
  /\ UNCHANGED <<file, result>>

\* os.WriteFile empties the file when it opens it.
Truncate(s) ==
  /\ pc[s] = "generating"
  /\ file' = Holds("blank", NoKey)
  /\ pc' = [pc EXCEPT ![s] = "writing"]
  /\ UNCHANGED result

Save(s) ==
  /\ pc[s] = "writing"
  /\ file' = Holds("whole", s)
  /\ result' = [result EXCEPT ![s] = Holds("whole", s)]
  /\ pc' = [pc EXCEPT ![s] = "ready"]

SaveShortIgnored(s) ==   \* mutant: the error of os.WriteFile is ignored
  /\ pc[s] = "writing"
  /\ ShortWrites
  /\ \E lines \in {"blank", "torn"} : file' = Holds(lines, s)
  /\ result' = [result EXCEPT ![s] = Holds("whole", s)]
  /\ pc' = [pc EXCEPT ![s] = "ready"]

SaveShort(s) ==
  /\ pc[s] = "writing"
  /\ ShortWrites
  /\ \E lines \in {"blank", "torn"} : file' = Holds(lines, s)
  /\ pc' = [pc EXCEPT ![s] = "stopped"]
  /\ UNCHANGED result

\* A call fails (MkdirAll, opening the file) or the process is killed.
Stop(s) ==
  /\ InCall(s)
  /\ pc' = [pc EXCEPT ![s] = "stopped"]
  /\ UNCHANGED <<file, result>>

Next ==
  \E s \in Starts :
    \/ Begin(s) \/ Load(s) \/ Generate(s) \/ Truncate(s)
    \/ Save(s) \/ SaveShort(s) \/ Stop(s)

Spec == Init /\ [][Next]_vars

-----------------------------------------------------------------------------
(***************************************************************************)
(* Properties.                                                             *)
(***************************************************************************)

\* Every variable stays in its set; in particular a call that returned has
\* returned two lines.
TypeOK ==
  /\ file \in Contents
  /\ pc \in [Starts ->
        {"idle", "reading", "generating", "writing", "ready", "stopped"}]
  /\ result \in [Starts -> Contents]
  /\ \A s \in Starts : pc[s] = "ready" => UsableLines(result[s])

Ready(s) == pc[s] = "ready"

\* The pair a program signs with is the pair in the file, so that the next run
\* will use it too: no later start, and no start that died at any point of its
\* own call, has replaced it.
KeyOnDisk == \A s \in Starts : Ready(s) => file = result[s]

\* What the package says of itself: the key pair is created once and is the
\* same in every run.
StableKey ==
  \A s, t \in Starts : Ready(s) /\ Ready(t) => result[s].key = result[t].key
=============================================================================
