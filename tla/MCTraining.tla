------------------------------ MODULE MCTraining ------------------------------
(* Three epochs, of which each gets sample 1 right, or the two others.  With   *)
(* one process that is worse or better; with two, the padding counts sample 1  *)
(* twice, and it is as good.                                                   *)
EXTENDS Training

RightSets == {{1}, {2, 3}}
=============================================================================
