---------------------------- MODULE SystolicArray ----------------------------
(***************************************************************************)
(* The 4x4 systolic array of cfu.v (modules systolic_array, diag_buffer,   *)
(* mask_buffer and PE), one step per rising clock edge.                    *)
(*                                                                         *)
(* Data is symbolic.  A byte travelling through the array is named by the  *)
(* index of the 32-bit buffer word it was cut from; the lane it was cut    *)
(* from is the row (for A) or the column (for B) it travels on, which is   *)
(* fixed wiring.  Zero is the byte 0 that the diagonal buffers feed while  *)
(* `read' is low.  An accumulator is the sequence of the products added to *)
(* it since it was last cleared; a product whose left factor is 0, or      *)
(* whose top factor is 0 without the input offset, adds nothing.           *)
(***************************************************************************)
EXTENDS Tiling, Sequences

VARIABLES
  aPipe,    \* [AStage -> Byte]: row i of diag_buffer A, then data_to_right
  bPipe,    \* [AStage -> Byte]: column j of diag_buffer B, then data_to_bottom
  mPipe,    \* [AStage -> BOOLEAN]: mask_buffer, then offset_mask_to_bottom
  acc,      \* [Lane \X Lane -> Seq(Product)]: accum_out of each PE
  read_ff,  \* `read' one cycle ago
  PE_clear  \* the registered clear wired to every PE

arrayVars == <<aPipe, bPipe, mPipe, acc, read_ff, PE_clear>>

(* Lane l of a diagonal buffer is 1+l registers deep; Dim-1 forwarding     *)
(* registers of the PEs follow.  (The outputs of the last PE of a row or   *)
(* column are connected to nothing.)                                       *)
Stage == {s \in Lane \X (1 .. 2*Dim-1) : s[2] <= s[1] + Dim}

Zero == -1
Byte == Nat \cup {Zero}
Product == [a : Nat, b : Byte, offset : BOOLEAN]

-----------------------------------------------------------------------------
(* The inputs of PE (i,j): PE_wire_X[i][j], PE_wire_Y[i][j] and            *)
(* PE_wire_Y_mask[i][j].                                                   *)
Left(i, j) == aPipe[<<i, 1+i+j>>]
Top(i, j)  == bPipe[<<j, 1+i+j>>]
Mask(i, j) == mPipe[<<j, 1+i+j>>]

(* `multi' of PE (i,j): (offset + top) * left if masked, else top * left.  *)
Multi(i, j) ==
  IF Left(i, j) # Zero /\ (Mask(i, j) \/ Top(i, j) # Zero)
    THEN << [a |-> Left(i, j), b |-> Top(i, j), offset |-> Mask(i, j)] >>
    ELSE << >>

Shift(pipe, in) ==
  [s \in Stage |-> IF s[2] = 1 THEN in ELSE pipe[<<s[1], s[2]-1>>]]

ClearPulse_Held(read) == read
ClearPulse(read) == read /\ ~read_ff

Accumulate ==
  acc' = [p \in Lane \X Lane |->
            IF PE_clear THEN Multi(p[1], p[2])
                        ELSE acc[p] \o Multi(p[1], p[2])]

ArrayInit ==
  /\ aPipe = [s \in Stage |-> Zero]
  /\ bPipe = [s \in Stage |-> Zero]
  /\ mPipe = [s \in Stage |-> FALSE]
  /\ acc = [p \in Lane \X Lane |-> << >>]
  /\ read_ff = FALSE
  /\ PE_clear = FALSE

(* One clock edge; while `read' is high the words at a and b are on the    *)
(* data outputs of buffers A and B.                                        *)
ArrayClk(read, a, b) ==
  /\ aPipe' = Shift(aPipe, IF read THEN a ELSE Zero)
  /\ bPipe' = Shift(bPipe, IF read THEN b ELSE Zero)
  /\ mPipe' = Shift(mPipe, read)
  /\ Accumulate
  /\ PE_clear' = ClearPulse(read)
  /\ read_ff' = read

ArrayTypeOK ==
  /\ aPipe \in [Stage -> Byte]
  /\ bPipe \in [Stage -> Byte]
  /\ mPipe \in [Stage -> BOOLEAN]
  /\ acc \in [Lane \X Lane -> Seq(Product)]
  /\ read_ff \in BOOLEAN
  /\ PE_clear \in BOOLEAN
=============================================================================
