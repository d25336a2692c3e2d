--------------------------- MODULE KeyFileProofs ---------------------------
(***************************************************************************)
(* The key file over any number of program runs that do not overlap and    *)
(* can read the file, deaths at any step and half-written files included,  *)
(* and which nobody removes.                                               *)
(***************************************************************************)
EXTENDS KeyFile, TLAPS

\* One call at a time; a start that has decided to write a new pair is alone
\* with its file, which no earlier start has taken a pair from.
OneCall == \A s, t \in Starts : InCall(s) /\ InCall(t) => s = t

NoOverwrite ==
  \A s, t \in Starts : pc[s] \in {"generating", "writing"} => ~ Ready(t)

ReadyUsable == \A s \in Starts : Ready(s) => file = result[s] /\ Usable(file)

IInv == TypeOK /\ OneCall /\ NoOverwrite /\ ReadyUsable

\* No file and no start: the invariant holds.
LEMMA InitIInv == Init => IInv
  BY DEF Init, IInv, TypeOK, OneCall, NoOverwrite, ReadyUsable, InCall, Ready,
         Holds, NoResult, Contents

\* With one start at a time and a readable file, a step preserves it.
LEMMA NextIInv ==
  ASSUME Exclusive, ~ ReadErrors
  PROVE  IInv /\ [Next]_vars => IInv'
  <1>. SUFFICES ASSUME IInv, [Next]_vars PROVE IInv'
    OBVIOUS
  <1>. USE DEF IInv, TypeOK, OneCall, NoOverwrite, ReadyUsable, InCall, Ready,
           Holds, Contents, Usable, UsableKey, UsableLines
  <1>1. ASSUME NEW s \in Starts, Begin(s) PROVE IInv'
    BY <1>1 DEF Begin
  <1>2. ASSUME NEW s \in Starts, Load(s) PROVE IInv'
    BY <1>2 DEF Load
  <1>3. ASSUME NEW s \in Starts, Generate(s) PROVE IInv'
    BY <1>3 DEF Generate
  <1>4. ASSUME NEW s \in Starts, Truncate(s) PROVE IInv'
    BY <1>4 DEF Truncate
  <1>5. ASSUME NEW s \in Starts, Save(s) PROVE IInv'
    BY <1>5 DEF Save
  <1>6. ASSUME NEW s \in Starts, SaveShort(s) PROVE IInv'
    BY <1>6 DEF SaveShort
  <1>7. ASSUME NEW s \in Starts, Stop(s) PROVE IInv'
    BY <1>7 DEF Stop
  <1>8. CASE UNCHANGED vars
    BY <1>8 DEF vars
  <1>. QED
    BY <1>1, <1>2, <1>3, <1>4, <1>5, <1>6, <1>7, <1>8 DEF Next

\* Overlapping starts and read errors included, every variable stays in its set
\* and a call that returned has returned two lines.
THEOREM KeyTypeCorrect == Spec => []TypeOK
  <1>1. Init => TypeOK
    BY InitIInv DEF IInv
  <1>2. TypeOK /\ [Next]_vars => TypeOK'
    <2>. SUFFICES ASSUME TypeOK, [Next]_vars PROVE TypeOK'
      OBVIOUS
    <2>. USE DEF TypeOK, Contents, Holds, UsableLines
    <2>1. CASE \E s \in Starts : Begin(s) \/ Generate(s) \/ Truncate(s) \/ Stop(s)
      BY <2>1 DEF Begin, Generate, Truncate, Stop
    <2>2. CASE \E s \in Starts : Load(s)
      BY <2>2 DEF Load, Usable, UsableKey
    <2>3. CASE \E s \in Starts : Save(s) \/ SaveShort(s)
      BY <2>3 DEF Save, SaveShort
    <2>4. CASE UNCHANGED vars
      BY <2>4 DEF vars
    <2>. QED  BY <2>1, <2>2, <2>3, <2>4 DEF Next
  <1>. QED  BY <1>1, <1>2, PTL DEF Spec

\* The pair every run has signed with is still the pair in the file.
THEOREM KeyStaysOnDisk ==
  ASSUME Exclusive, ~ ReadErrors
  PROVE  Spec => []KeyOnDisk
  <1>1. IInv => KeyOnDisk
    BY DEF IInv, ReadyUsable, KeyOnDisk
  <1>. QED
    BY <1>1, InitIInv, NextIInv, PTL DEF Spec

\* So all these runs sign with one pair, as long as nobody removes the file.
THEOREM KeyIsStable ==
  ASSUME Exclusive, ~ ReadErrors
  PROVE  Spec => []StableKey
  <1>1. IInv => StableKey
    BY DEF IInv, ReadyUsable, StableKey
  <1>. QED
    BY <1>1, InitIInv, NextIInv, PTL DEF Spec
=============================================================================
