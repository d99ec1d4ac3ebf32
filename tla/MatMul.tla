------------------------------- MODULE MatMul -------------------------------
(***************************************************************************)
(* What the TPU promises the rest of the CFU: a job is accepted while it   *)
(* is not busy; while it is busy it may store anything in the words of C   *)
(* that belong to the job, and nothing elsewhere; when it stops being busy *)
(* C holds the product; and it does stop.                                  *)
(*                                                                         *)
(* A job that does not fit the buffers promises only to end, and an empty  *)
(* one nothing at all.                                                     *)
(***************************************************************************)
EXTENDS Tiling

VARIABLES
  busy,
  job,   \* the job in progress, or the last one
  C

vars == <<busy, job, C>>

Init ==
  /\ busy = FALSE
  /\ job = NoJob
  /\ C = [w \in 0 .. Depth-1 |-> [l \in Lane |-> << >>]]

OthersKept ==
  Fits(job) => \A w \in StoredWords(job) .. Depth-1 : C'[w] = C[w]

Start(j) ==
  /\ ~busy
  /\ busy' = TRUE
  /\ job' = j
  /\ C' = C

Work ==
  /\ busy
  /\ busy' = TRUE
  /\ job' = job
  /\ OthersKept

Finish ==
  /\ busy
  /\ busy' = FALSE
  /\ job' = job
  /\ OthersKept
  /\ Fits(job) => HoldsProduct(C', job)

Next == (\E j \in Jobs : Start(j)) \/ Work \/ Finish

Safe == Init /\ [][Next]_vars

Spec == Safe /\ (busy /\ NonEmpty(job) ~> ~busy)
=============================================================================
