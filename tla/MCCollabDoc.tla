---------------------------- MODULE MCCollabDoc ----------------------------
(* Constants of the CollabDoc runs. *)
EXTENDS CollabDoc

MCNumber == 1..1
MCTwoEdits == 1..2
MCWordless == {CHOOSE u \in Client \X {1} : TRUE}
=============================================================================
