------------------------ MODULE AppendOnlyLogProofs ------------------------
(***************************************************************************)
(* What the promise of AppendOnlyLog means to its clients.  Whatever       *)
(* implements that module, LogApi in particular, inherits these theorems.  *)
(***************************************************************************)
EXTENDS AppendOnlyLog, SequenceTheorems, TLAPS

Inv == TypeOK /\ HeadsArePrefixes /\ ReceiptsHold

\* The empty log keeps every promise.
LEMMA InitInv == Init => Inv
  <1>1. <<>> \in Seq(Leaves) /\ Len(<<>>) = 0
    BY EmptySeq
  <1>. QED
    BY <1>1 DEF Init, Inv, TypeOK, HeadsArePrefixes, ReceiptsHold

\* Growing the log at its end changes none of its earlier prefixes.
LEMMA PrefixStays ==
  ASSUME TypeOK, Grow
  PROVE  /\ \A i \in 1..Len(log) : log'[i] = log[i]
         /\ \A n \in 0..Len(log) : SubSeq(log', 1, n) = SubSeq(log, 1, n)
  <1>1. /\ log \in Seq(Leaves) /\ log' \in Seq(Leaves)
        /\ Len(log) < Len(log') /\ SubSeq(log', 1, Len(log)) = log
        /\ Len(log) \in Nat /\ Len(log') \in Nat
    BY LenProperties DEF TypeOK, Grow
  <1>2. ASSUME NEW i \in 1..Len(log) PROVE log'[i] = log[i]
    <2>1. \A j \in 1..Len(log) : log'[j] \in Leaves
      BY <1>1, ElementOfSeq
    <2>2. \A j \in 1..(Len(log) - 1 + 1) : SubSeq(log', 1, Len(log))[j] = log'[1 + j - 1]
      BY <1>1, <2>1, SubSeqProperties
    <2>3. i \in 1..(Len(log) - 1 + 1) /\ 1 + i - 1 = i
      BY <1>1
    <2>. QED
      BY <1>1, <2>2, <2>3
  <1>3. ASSUME NEW n \in 0..Len(log)
        PROVE  SubSeq(log', 1, n) = SubSeq(log, 1, n)
    <2>1. CASE n = 0
      BY <2>1, SubSeqEmpty
    <2>2. CASE n # 0
      <3>1. /\ Len(log) \in 1..Len(log') /\ 1 \in 1..Len(log')
            /\ 1 \in 1..(Len(log) - 1 + 1) /\ n \in 1..(Len(log) - 1 + 1)
            /\ 1 + 1 - 1 = 1 /\ 1 + n - 1 = n
        BY <1>1, <2>2
      <3>2. SubSeq(SubSeq(log', 1, Len(log)), 1, n)
              = SubSeq(log', 1 + 1 - 1, 1 + n - 1)
        BY <1>1, <3>1, SubSeqOfSubSeq
      <3>. QED
        BY <1>1, <3>1, <3>2
    <2>. QED
      BY <2>1, <2>2
  <1>. QED
    BY <1>2, <1>3

\* Growing, publishing and answering preserve the invariant.
LEMMA NextInv == Inv /\ [Next]_promiseVars => Inv'
  <1>. SUFFICES ASSUME Inv, [Next]_promiseVars PROVE Inv'
    OBVIOUS
  <1>. USE DEF Inv
  <1>0. Len(log) \in Nat /\ head \in 0..Len(log)
    BY LenProperties DEF TypeOK
  <1>1. CASE Grow
    <2>1. TypeOK'
      BY <1>0, <1>1, LenProperties DEF TypeOK, Grow
    <2>2. HeadsArePrefixes'
      BY <1>0, <1>1, PrefixStays DEF HeadsArePrefixes, HeadOf, Grow
    <2>3. ReceiptsHold'
      <3>1. \A i \in 0..(head - 1) : log'[i + 1] = log[i + 1]
        BY <1>0, <1>1, PrefixStays
      <3>. QED
        BY <1>1, <3>1 DEF ReceiptsHold, Grow
    <2>. QED
      BY <2>1, <2>2, <2>3
  <1>2. CASE Publish
    BY <1>0, <1>2 DEF Publish, TypeOK, HeadsArePrefixes, HeadOf, ReceiptsHold
  <1>3. CASE Answer
    <2>1. TypeOK'
      BY <1>3 DEF Answer, TypeOK
    <2>2. HeadsArePrefixes'
      <3>1. PICK n \in 0..head : heads' = heads \cup {HeadOf(n)}
        BY <1>3 DEF Answer
      <3>2. HeadOf(n).size = n
        BY DEF HeadOf
      <3>. QED
        BY <1>3, <3>1, <3>2 DEF Answer, HeadsArePrefixes, HeadOf
    <2>3. ReceiptsHold'
      BY <1>0, <1>3 DEF Answer, ReceiptsHold
    <2>. QED
      BY <2>1, <2>2, <2>3
  <1>4. CASE UNCHANGED promiseVars
    BY <1>4 DEF promiseVars, TypeOK, HeadsArePrefixes, HeadOf, ReceiptsHold
  <1>. QED
    BY <1>1, <1>2, <1>3, <1>4 DEF Next

\* Any two tree heads that clients were ever shown are prefixes of one log,
\* so no client can be shown a fork of what another was shown.
THEOREM NoSplitView ==
  Spec => [](\A g, h \in heads : g.size <= h.size =>
               g.root = SubSeq(h.root, 1, g.size))
  <1>1. Inv => \A g, h \in heads : g.size <= h.size =>
                 g.root = SubSeq(h.root, 1, g.size)
    <2>. SUFFICES ASSUME Inv, NEW g \in heads, NEW h \in heads, g.size <= h.size
                  PROVE  g.root = SubSeq(h.root, 1, g.size)
      OBVIOUS
    <2>1. /\ g.size \in 0..head /\ g.root = SubSeq(log, 1, g.size)
          /\ h.size \in 0..head /\ h.root = SubSeq(log, 1, h.size)
      BY DEF Inv, HeadsArePrefixes, HeadOf
    <2>2. head \in 0..Len(log) /\ Len(log) \in Nat /\ log \in Seq(Leaves)
      BY LenProperties DEF Inv, TypeOK
    <2>3. CASE g.size = 0
      BY <2>1, <2>3, SubSeqEmpty
    <2>4. CASE g.size # 0
      <3>. DEFINE m == g.size
                  n == h.size
      <3>1. /\ n \in 1..Len(log) /\ 1 \in 1..Len(log)
            /\ 1 \in 1..(n - 1 + 1) /\ m \in 1..(n - 1 + 1)
            /\ 1 + 1 - 1 = 1 /\ 1 + m - 1 = m
        BY <2>1, <2>2, <2>4
      <3>2. SubSeq(SubSeq(log, 1, n), 1, m) = SubSeq(log, 1 + 1 - 1, 1 + m - 1)
        BY <2>2, <3>1, SubSeqOfSubSeq
      <3>. QED
        BY <2>1, <3>1, <3>2
    <2>. QED
      BY <2>3, <2>4
  <1>. QED
    BY <1>1, InitInv, NextInv, PTL DEF Spec

\* Every confirmed leaf stays at its index inside the published tree.
THEOREM ReceiptsAreKept == Spec => []ReceiptsHold
  <1>1. Inv => ReceiptsHold
    BY DEF Inv
  <1>. QED
    BY <1>1, InitInv, NextInv, PTL DEF Spec
=============================================================================
