----------------------------- MODULE WriteBuffer -----------------------------
(***************************************************************************)
(* Module write_buffer of cfu.v: it takes the 4 rows of accumulators of a  *)
(* finished tile and stores them, one row per clock, in buffer C.          *)
(*                                                                         *)
(* data_buffer is loaded by `always @(posedge state)': state is a vector,  *)
(* so the edge is the one of its low bit, which rises when the FSM enters  *)
(* LOAD_DATA.  The accumulators are written by that same clock edge.       *)
(* Nothing orders the two: the block may see the accumulators before or    *)
(* after the edge.  CaptureSees is the set of outcomes the build allows.   *)
(***************************************************************************)
EXTENDS Integers

CONSTANT CaptureSees

ASSUME CaptureSeesAssumption ==
  CaptureSees \in (SUBSET {"before", "after"}) \ {{}}

VARIABLES
  wb_state,     \* state of the FSM
  wb_counter,   \* the row being written
  write_index,  \* the word of C being written
  data_buffer   \* the rows latched from the array

writeBufferVars == <<wb_state, wb_counter, write_index, data_buffer>>

LastRow == 3

(* An index into a buffer is 16 bits wide.                                 *)
IndexSpan == 256 * 256

wr_en == wb_state = "WRITE"

WriteBusy(in_valid) == wb_state # "IDLE" \/ in_valid

WriteBufferInit ==
  /\ wb_state = "IDLE"
  /\ wb_counter = 0
  /\ write_index = 0
  /\ data_buffer = [p \in (0 .. LastRow) \X (0 .. LastRow) |-> << >>]

NextWriteState(in_valid) ==
  IF wb_state = "IDLE" THEN IF in_valid THEN "LOAD_DATA" ELSE "IDLE"
  ELSE IF wb_state = "WRITE" /\ wb_counter = LastRow THEN "IDLE"
  ELSE "WRITE"

RowAdvance_Unbounded == wb_state = "WRITE"
RowAdvance == wb_state = "WRITE" /\ wb_counter # LastRow

(* pe and peNext: the accumulators before and after this clock edge.       *)
Capture(pe, peNext) ==
  IF wb_state # "LOAD_DATA" /\ wb_state' = "LOAD_DATA"
    THEN \E o \in CaptureSees : data_buffer' = IF o = "after" THEN peNext ELSE pe
    ELSE data_buffer' = data_buffer

WriteBufferClk(in_valid, write_start_index, pe, peNext) ==
  /\ wb_state' = NextWriteState(in_valid)
  /\ wb_counter' = IF RowAdvance THEN wb_counter + 1 ELSE 0
  /\ write_index' = IF in_valid THEN write_start_index
                    ELSE IF RowAdvance THEN (write_index + 1) % IndexSpan
                    ELSE write_index
  /\ Capture(pe, peNext)

WriteBufferTypeOK(Rows) ==
  /\ wb_state \in {"IDLE", "LOAD_DATA", "WRITE"}
  /\ wb_counter \in 0 .. LastRow
  /\ write_index \in 0 .. IndexSpan-1
  /\ data_buffer \in Rows
=============================================================================
