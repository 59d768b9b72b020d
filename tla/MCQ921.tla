------------------------------- MODULE MCQ921 -------------------------------
(* A link on which the network's end sends three data and the user's one.      *)
EXTENDS Q921, TLC

CONSTANTS net, cpe

MCMaxData == net :> 3 @@ cpe :> 1
=============================================================================
