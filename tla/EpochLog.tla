------------------------------ MODULE EpochLog ------------------------------
(***************************************************************************)
(* What a training job promises, whatever interrupts it: its epochs are    *)
(* trained in order, each exactly once, at the learning rate of its place  *)
(* in the schedule and on the shuffle of its own number, and what is saved *)
(* only grows.                                                             *)
(***************************************************************************)
EXTENDS Naturals, Sequences

CONSTANTS NumEpochs, Warmup

VARIABLES log,   \* the epochs that the saved network has been trained for
          ema    \* the epochs that its moving average has seen

\* The moving average is a copy of the network during the warm-up, and
\* afterwards averages everything behind the warm-up.
Averaged(n) == IF n <= Warmup THEN {n - 1} ELSE Warmup..(n - 1)

Init == log = <<>> /\ ema = {}

Epoch == /\ Len(log) < NumEpochs
         /\ log' = Append(log, [epoch |-> Len(log), lr |-> Len(log), shuffle |-> Len(log)])
         /\ ema' = Averaged(Len(log) + 1)

Spec == Init /\ [][Epoch]_<<log, ema>>
=============================================================================
