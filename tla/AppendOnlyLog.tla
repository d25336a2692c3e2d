--------------------------- MODULE AppendOnlyLog ---------------------------
(***************************************************************************)
(* What the service promises to its clients, without queues, handlers or   *)
(* files: a log that only grows at its end, a published tree head that     *)
(* only advances, and answers that speak of nothing but the published part *)
(* of the log.  LogApi implements this module (LogApi!Promise).            *)
(*                                                                         *)
(* A root hash is identified with the sequence of leaves it commits to,    *)
(* which is what collision resistance gives: equal roots at equal sizes    *)
(* mean equal leaves.                                                      *)
(***************************************************************************)
EXTENDS Integers, Sequences

CONSTANT Leaves  \* the leaves a client may submit

VARIABLES log,       \* all leaves ever sequenced, in order
          head,      \* the size of the published tree head
          heads,     \* every tree head shown to some client
          receipts   \* every (index, leaf) confirmed to some client

promiseVars == <<log, head, heads, receipts>>

HeadOf(n) == [size |-> n, root |-> SubSeq(log, 1, n)]

Init ==
  /\ log = <<>>
  /\ head = 0
  /\ heads = {}
  /\ receipts = {}

\* Leaves are sequenced at the end of the log; nothing before them changes.
Grow ==
  /\ log' \in Seq(Leaves)
  /\ Len(log) < Len(log')
  /\ SubSeq(log', 1, Len(log)) = log
  /\ UNCHANGED <<head, heads, receipts>>

\* The tree head moves to a larger prefix of the log.
Publish ==
  /\ head < head'
  /\ head' \in 0..Len(log)
  /\ UNCHANGED <<log, heads, receipts>>

\* A client is shown a published tree head and perhaps a receipt that this
\* same head covers.
Answer ==
  /\ \E n \in 0..head :
       /\ heads' = heads \cup {HeadOf(n)}
       /\ \/ receipts' = receipts
          \/ \E i \in 0..(n - 1) :
               receipts' = receipts \cup {[index |-> i, leaf |-> log[i + 1]]}
  /\ UNCHANGED <<log, head>>

Next == Grow \/ Publish \/ Answer

Spec == Init /\ [][Next]_promiseVars

-----------------------------------------------------------------------------

TypeOK ==
  /\ log \in Seq(Leaves)
  /\ head \in 0..Len(log)

\* Every head ever shown still commits to a prefix of today's log, so any two
\* of them are consistent in the sense of RFC 6962.
HeadsArePrefixes ==
  \A h \in heads : h.size \in 0..head /\ h = HeadOf(h.size)

\* Every confirmed leaf is still at its index, inside the published tree.
ReceiptsHold ==
  \A c \in receipts : c.index \in 0..(head - 1) /\ log[c.index + 1] = c.leaf
=============================================================================
