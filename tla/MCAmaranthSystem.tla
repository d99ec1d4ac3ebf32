--------------------------- MODULE MCAmaranthSystem ---------------------------
EXTENDS AmaranthSystem

Op(f3, in0) == [f3 |-> f3, f7 |-> 0, in0 |-> in0, in1 |-> 0]

NoDivision == {"plain", "load"}
AllFillers == {"plain", "load", "div"}

(* Combinational and multi-cycle (3) instructions in every order, each with  *)
(* its own operand; and combinational ones only, with divisions in between.  *)
Mixed == << Op(0, 1), Op(1, 2), Op(3, 3), Op(3, 4), Op(0, 5), Op(3, 6), Op(1, 7) >>
Combinational == << Op(0, 1), Op(1, 2), Op(2, 3), Op(1, 4), Op(0, 5), Op(2, 6), Op(1, 7) >>

MixedProgram == [ops |-> Mixed, fillers |-> NoDivision, gap |-> 0]
MCPrograms == {MixedProgram, [ops |-> Combinational, fillers |-> AllFillers, gap |-> 0]}
=============================================================================
