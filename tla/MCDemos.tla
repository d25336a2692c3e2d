------------------------------- MODULE MCDemos -------------------------------
(***************************************************************************)
(* The four demos with one other client, whose leaf is in the log before,  *)
(* between or after the two of sprint 3.  FarIndex = 2 is in range once    *)
(* all three are in.                                                       *)
(***************************************************************************)
EXTENDS Demos

CONSTANT c1

OneClient == {c1}
DemoCalls == Own \cup OneClient
DemoLeafSet == OwnLeaves \cup {Other}
=============================================================================
