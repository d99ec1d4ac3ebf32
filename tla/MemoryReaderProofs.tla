------------------------- MODULE MemoryReaderProofs -------------------------
(***************************************************************************)
(* For memories of every depth: the pipelined reader shows what a plain    *)
(* circular read shows.  The invariant is that its address runs exactly    *)
(* one word ahead (OneAhead); with it, the word that arrives after next is *)
(* the word behind the one shown, and ReadsInOrder follows step by step.   *)
(***************************************************************************)
EXTENDS MemoryReader, TLAPS

IInv == TypeOK /\ OneAhead /\ ReadsInOrder

USE DEF Address, Word, WordAt

\* Before the first restart nothing is shown, and the registers have their types.
LEMMA InitInv == Init => IInv
<1> SUFFICES ASSUME Init PROVE IInv
  OBVIOUS
<1> USE MemoryAssumption DEF MemoryAssumption, Init
<1>1. WordAt(0) \in Word
  OBVIOUS
<1>2. {mem_data, last_data, asked} \subseteq Word
  BY <1>1
<1>3. limit \in 1 .. MaxDepth /\ last_mem_addr \in 0 .. limit-1 /\ position \in 0 .. limit
  OBVIOUS
<1>4. memory \in [Address -> 0 .. MaxVersion]
  OBVIOUS
<1>5. was_restart \in BOOLEAN /\ was_next \in BOOLEAN
  BY Zenon
<1>6. TypeOK
  BY <1>2, <1>3, <1>4, <1>5 DEF TypeOK
<1> QED
  BY <1>6 DEF IInv, OneAhead, ReadsInOrder

\* The address that goes to the memory in a cycle with next or restart is that of
\* the word that is to be shown; otherwise it is that of the word behind.
LEMMA AddressSent ==
  ASSUME IInv, NEW next \in BOOLEAN, NEW restart \in BOOLEAN
  PROVE  /\ mem_addr(restart) \in 0 .. limit-1
         /\ restart => mem_addr(restart) = 0
         /\ ~restart /\ position < limit =>
              mem_addr(restart) = IF position = limit - 1 THEN 0 ELSE position + 1
<1> USE MemoryAssumption DEF MemoryAssumption, IInv, TypeOK
<1>1. incremented_addr \in 0 .. limit-1
  BY DEF incremented_addr
<1>2. mem_addr(restart) \in 0 .. limit-1
  BY <1>1 DEF mem_addr
<1>3. ASSUME ~restart, position < limit
      PROVE  mem_addr(restart) = IF position = limit - 1 THEN 0 ELSE position + 1
  <2>1. CASE was_next \/ was_restart
    BY <1>3, <2>1 DEF mem_addr, incremented_addr, OneAhead
  <2>2. CASE ~(was_next \/ was_restart)
    BY <1>3, <2>2 DEF mem_addr, OneAhead
  <2> QED
    BY <2>1, <2>2
<1> QED
  BY <1>2, <1>3 DEF mem_addr

\* Every clock edge keeps the invariant.
LEMMA NextInv == IInv /\ [Next]_vars => IInv'
<1> SUFFICES ASSUME IInv, [Next]_vars PROVE IInv'
  OBVIOUS
<1>1. CASE UNCHANGED vars
  BY <1>1 DEF vars, IInv, TypeOK, OneAhead, ReadsInOrder, data
<1>2. ASSUME NEW next \in BOOLEAN, NEW restart \in BOOLEAN, Clk(next, restart) PROVE IInv'
  <2> USE MemoryAssumption DEF MemoryAssumption
  <2>1. /\ mem_addr(restart) \in 0 .. limit-1
        /\ restart => mem_addr(restart) = 0
        /\ ~restart /\ position < limit =>
             mem_addr(restart) = IF position = limit - 1 THEN 0 ELSE position + 1
    BY AddressSent
  <2>2. memory' \in [Address -> 0 .. MaxVersion]
    <3>1. ASSUME NEW a \in Address, Write(a) PROVE memory' \in [Address -> 0 .. MaxVersion]
      <4>1. memory[a] + 1 \in 0 .. MaxVersion
        BY <3>1 DEF Write, IInv, TypeOK
      <4> QED
        BY <3>1, <4>1 DEF Write, IInv, TypeOK
    <3> QED
      BY <1>2, <3>1 DEF Clk, IInv, TypeOK
  <2>3. data \in Word
    BY DEF IInv, TypeOK, data
  <2>4. TypeOK'
    <3>1. \A a \in 0 .. limit-1 : a \in Address /\ WordAt(a) \in Word
      BY DEF IInv, TypeOK
    <3>2. limit' = limit /\ limit \in 1 .. MaxDepth
      BY <1>2 DEF Clk, Read, IInv, TypeOK
    <3>3. position' \in 0 .. limit /\ asked' \in Word
      <4>1. Follow(next, restart) /\ position \in 0 .. limit /\ asked \in Word
        BY <1>2 DEF Clk, IInv, TypeOK
      <4> DEFINE to == IF restart THEN 0 ELSE IF position = limit - 1 THEN 0 ELSE position + 1
      <4>2. CASE restart \/ (next /\ position < limit)
        <5>1. position' = to /\ asked' = WordAt(to)
          BY <4>1, <4>2 DEF Follow
        <5>2. to \in 0 .. limit-1
          BY <3>2, <4>1, <4>2
        <5> HIDE DEF to
        <5> QED
          BY <3>1, <3>2, <5>1, <5>2
      <4>3. CASE ~(restart \/ (next /\ position < limit))
        BY <4>1, <4>3 DEF Follow
      <4> QED
        BY <4>2, <4>3
    <3>4. mem_data' \in Word /\ last_data' \in Word
      BY <1>2, <2>1, <2>3, <3>1 DEF Clk, Read
    <3>5. was_restart' \in BOOLEAN /\ was_next' \in BOOLEAN /\ last_mem_addr' \in 0 .. limit-1
      BY <1>2, <2>1 DEF Clk, Read
    <3> QED
      BY <2>2, <3>2, <3>3, <3>4, <3>5 DEF TypeOK
  <2>5. OneAhead'
    BY <1>2, <2>1 DEF Clk, Read, Follow, IInv, TypeOK, OneAhead
  <2>6. ReadsInOrder'
    BY <1>2, <2>1 DEF Clk, Read, Follow, IInv, TypeOK, ReadsInOrder, data
  <2> QED
    BY <2>4, <2>5, <2>6 DEF IInv
<1> QED
  BY <1>1, <1>2 DEF Next

\* The registers keep their types, the address register below the limit, whatever
\* the limit: the address wraps at the last word to be read (incremented_addr).
THEOREM TypeCorrect == Spec => []TypeOK
<1>1. IInv => TypeOK
  BY DEF IInv
<1> QED
  BY InitInv, NextInv, <1>1, PTL DEF Spec

\* SequentialMemoryReader delivers the words in order, each as it was when it was
\* asked for, whatever the memory's depth and however next and restart come.
THEOREM DeliversInOrder == Spec => []ReadsInOrder
<1>1. IInv => ReadsInOrder
  BY DEF IInv
<1> QED
  BY InitInv, NextInv, <1>1, PTL DEF Spec

\* Its address is always one word ahead of the word shown.
THEOREM AddressAhead == Spec => []OneAhead
<1>1. IInv => OneAhead
  BY DEF IInv
<1> QED
  BY InitInv, NextInv, <1>1, PTL DEF Spec
=============================================================================
