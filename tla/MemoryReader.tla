---------------------------- MODULE MemoryReader ----------------------------
(***************************************************************************)
(* SequentialMemoryReader of python/amaranth_cfu/util.py, reading a        *)
(* DualPortMemory that may be written at the same time.  One step is one   *)
(* rising clock edge; next, restart and the write are the inputs of the    *)
(* cycle before it.                                                        *)
(*                                                                         *)
(* A word is named by its version: how often its address was written.      *)
(***************************************************************************)
EXTENDS Integers

CONSTANTS MaxDepth,    \* words of the memory
          MaxVersion   \* how often a word is written, at the most

ASSUME MemoryAssumption == MaxDepth \in Nat \ {0} /\ MaxVersion \in Nat

VARIABLES
  limit,                    \* the number of words to read; does not change
  memory,                   \* version of each word
  mem_data,                 \* output register of the memory's read port
  was_restart, was_next, last_mem_addr, last_data,
  position, asked           \* what a reader without pipeline would show, see Follow

vars == <<limit, memory, mem_data, was_restart, was_next, last_mem_addr, last_data,
          position, asked>>

Address == 0 .. MaxDepth-1
Word == [addr : Address, version : 0 .. MaxVersion]
WordAt(a) == [addr |-> a, version |-> memory[a]]

Init ==
  /\ limit \in 1 .. MaxDepth
  /\ memory = [a \in Address |-> 0]
  /\ mem_data = WordAt(0) /\ last_data = WordAt(0)
  /\ was_restart = FALSE /\ was_next = FALSE
  /\ last_mem_addr = 0
  /\ position = limit /\ asked = WordAt(0)     \* nothing shown before the first restart

-----------------------------------------------------------------------------
(* Wires.                                                                  *)

\* Mutant: one word too many.
incremented_addr_PastLimit == IF last_mem_addr = limit THEN 0 ELSE last_mem_addr + 1

incremented_addr == IF last_mem_addr = limit - 1 THEN 0 ELSE last_mem_addr + 1

\* Mutant: the address behind the first word is asked for only when the first is
\* asked for.
mem_addr_LateStart(restart) ==
  CASE restart -> 0
    [] ~restart /\ was_next -> incremented_addr
    [] OTHER -> last_mem_addr

mem_addr(restart) ==
  CASE restart -> 0
    [] ~restart /\ (was_next \/ was_restart) -> incremented_addr
    [] OTHER -> last_mem_addr

\* Mutant: the word is not kept until next.
data_NotKept == mem_data

data == IF was_restart \/ was_next THEN mem_data ELSE last_data

-----------------------------------------------------------------------------
(* One clock edge.  The read port is not transparent: it delivers the word *)
(* as it was before a write at the same edge.                              *)

Write(a) == /\ memory[a] < MaxVersion
            /\ memory' = [memory EXCEPT ![a] = @ + 1]

Read(next, restart) ==
  /\ mem_data' = WordAt(mem_addr(restart))
  /\ was_restart' = restart /\ was_next' = next
  /\ last_mem_addr' = mem_addr(restart)
  /\ last_data' = data
  /\ UNCHANGED limit

(* A reader without pipeline: restart goes to word 0 and next to the word   *)
(* after the current one, round the circle, and the word is looked up in    *)
(* the memory at that moment.                                               *)
Follow(next, restart) ==
  LET to == IF restart THEN 0 ELSE IF position = limit - 1 THEN 0 ELSE position + 1
  IN IF restart \/ (next /\ position < limit)
     THEN position' = to /\ asked' = WordAt(to)
     ELSE UNCHANGED <<position, asked>>

Clk(next, restart) ==
  /\ Read(next, restart)
  /\ Follow(next, restart)
  /\ UNCHANGED memory \/ \E a \in Address : Write(a)

Next == \E next, restart \in BOOLEAN : Clk(next, restart)

Spec == Init /\ [][Next]_vars

-----------------------------------------------------------------------------
\* The registers, of which the address register stays below the limit.
TypeOK ==
  /\ limit \in 1 .. MaxDepth
  /\ memory \in [Address -> 0 .. MaxVersion]
  /\ {mem_data, last_data, asked} \subseteq Word
  /\ was_restart \in BOOLEAN /\ was_next \in BOOLEAN
  /\ last_mem_addr \in 0 .. limit-1 /\ position \in 0 .. limit

\* From the first restart on, the word shown in every cycle is the one that a
\* plain circular read would show, as it was in the memory when it was asked for,
\* however next and restart follow each other (elab: mem_addr runs one word ahead).
ReadsInOrder == position < limit => data = asked

\* The address that runs ahead is always the one behind the word shown, or, in
\* the cycle after it was asked for, the word itself (last_mem_addr).
OneAhead ==
  position < limit =>
    LET after == IF position = limit - 1 THEN 0 ELSE position + 1
    IN last_mem_addr = IF was_restart \/ was_next THEN position ELSE after
=============================================================================
