---------------------------- MODULE MCMlperfEval ----------------------------
EXTENDS MlperfEval

(* Two samples of four bytes, sent three bytes to a line; the values lie on *)
(* both sides of the sign of an int8.                                        *)
MCSamples == << <<0, 127, 128, 64>>, <<255, 128, 1, 7>> >>

=============================================================================
