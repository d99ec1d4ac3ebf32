------------------------- MODULE FunctionCallsProofs -------------------------
(***************************************************************************)
(* What the functions of the program return, for arguments of every size.  *)
(*   - perf_get_mcycle64: the invariant says, at each of the three reads,  *)
(*     at which moments of the call the halves were those that have been   *)
(*     read.  If the upper half is the same before and after the lower one *)
(*     was read, it was the same in between, for the counter never goes    *)
(*     back.                                                               *)
(*   - RandomCutMix: the box that is pasted is an interval on each side.   *)
(*   - RASampler: position k of the list is sample k \div reps.            *)
(*   - The fully connected layer: sums are linear, and the padding of the  *)
(*     tiles adds nothing to them.                                         *)
(*   - The convolution: the SIMD unit adds blocks of four products, and    *)
(*     the filter points outside the row are left out; sums by parts.      *)
(*   - The division trap: powers of two, and the quotient towards zero.    *)
(* What is defined by recursion is reasoned about by the least number for  *)
(* which a claim would fail (LeastNatural).                                *)
(***************************************************************************)
EXTENDS FunctionCalls, Sums, SequenceTheorems

\* The upper half grows with the counter, and the halves make up the counter.
LEMMA Halves ==
  ASSUME NEW a \in Nat, NEW b \in Nat
  PROVE  /\ High(a) * Half + Low(a) = a
         /\ a <= b => High(a) <= High(b)
         /\ High(a) \in Nat /\ Low(a) \in Nat
<1> USE HalfAssumption DEF HalfAssumption, High, Low
<1>1. \A n \in Nat : n = (n \div Half) * Half + (n % Half)
  OBVIOUS
<1>2. \A n \in Nat : n \div Half \in Nat /\ n % Half \in 0..(Half - 1)
  OBVIOUS
<1>3. ASSUME a <= b, ~(a \div Half <= b \div Half) PROVE FALSE
  <2> DEFINE p == a \div Half
             q == b \div Half
             r == a % Half
             s == b % Half
  <2>1. /\ p \in Nat /\ q \in Nat /\ r \in 0..(Half - 1) /\ s \in 0..(Half - 1)
        /\ a = p * Half + r /\ b = q * Half + s
    BY <1>1, <1>2
  <2>2. p >= q + 1
    BY <1>3, <2>1
  <2> HIDE DEF p, q, r, s
  <2>3. p * Half >= (q + 1) * Half
    BY <2>1, <2>2
  <2>4. (q + 1) * Half = q * Half + Half
    BY <2>1
  <2> QED
    BY <1>3, <2>1, <2>3, <2>4
<1> QED
  BY <1>1, <1>2, <1>3

InCall == call.of = "perf_get_mcycle64"

Reads == {"mcycleh", "mcycle", "mcycleh again", "bne"}

\* What has been read was there at a moment of the call.
HighRead(t) == t \in Nat /\ call.since <= t /\ t <= mcycle /\ result.high = High(t)
LowRead(t) == t \in Nat /\ call.since <= t /\ t <= mcycle /\ result.low = Low(t)

CallTypes == /\ call.since \in Nat /\ call.since <= mcycle
             /\ result \in [next : Reads, high : Nat, low : Nat]
BeforeLow == result.next = "mcycle" => \E t \in Nat : HighRead(t)
BeforeHigh == result.next = "mcycleh again" => \E t, u \in Nat : HighRead(t) /\ LowRead(u) /\ t <= u
Together == result.next = "bne" => \E t \in Nat : HighRead(t) /\ LowRead(t)

ReadSoFar == CallTypes /\ BeforeLow /\ BeforeHigh /\ Together

IInv == mcycle \in Nat /\ (InCall => ReadSoFar)

\* No call is running.
LEMMA InitInv == Init => IInv
  BY DEF Init, IInv, InCall, None

\* The reads, one after the other.
LEMMA ReadsInv ==
  ASSUME IInv, ReadHigh \/ ReadLow \/ ReadHighAgain
  PROVE  IInv'
<1>1. InCall /\ ReadSoFar /\ mcycle \in Nat /\ UNCHANGED <<call, mcycle>>
  BY DEF IInv, InCall, ReadHigh, ReadLow, ReadHighAgain
<1>2. High(mcycle) \in Nat /\ Low(mcycle) \in Nat
  BY <1>1, Halves
<1>3. result \in [next : Reads, high : Nat, low : Nat] /\ call.since \in Nat /\ call.since <= mcycle
  BY <1>1 DEF ReadSoFar, CallTypes
<1> SUFFICES ReadSoFar'
  BY <1>1 DEF IInv
<1>4. CASE ReadHigh
  <2>1. /\ result' = [result EXCEPT !.next = "mcycle", !.high = High(mcycle)]
        /\ result'.next = "mcycle" /\ result'.high = High(mcycle)
    BY <1>3, <1>4 DEF ReadHigh
  <2>2. result' \in [next : Reads, high : Nat, low : Nat]
    BY <1>2, <1>3, <2>1 DEF Reads
  <2>3. HighRead(mcycle)'
    BY <1>1, <1>3, <2>1 DEF HighRead, High
  <2> QED
    BY <1>1, <1>3, <2>1, <2>2, <2>3 DEF ReadSoFar, CallTypes, BeforeLow, BeforeHigh, Together
<1>5. CASE ReadLow
  <2>1. /\ result' = [result EXCEPT !.next = "mcycleh again", !.low = Low(mcycle)]
        /\ result'.next = "mcycleh again" /\ result'.high = result.high /\ result'.low = Low(mcycle)
    BY <1>3, <1>5 DEF ReadLow
  <2>2. result' \in [next : Reads, high : Nat, low : Nat]
    BY <1>2, <1>3, <2>1 DEF Reads
  <2>3. PICK t \in Nat : HighRead(t)
    BY <1>1, <1>5 DEF ReadSoFar, BeforeLow, ReadLow
  <2>4. HighRead(t)' /\ LowRead(mcycle)' /\ t <= mcycle'
    BY <1>1, <1>3, <2>1, <2>3 DEF HighRead, LowRead, High, Low
  <2> QED
    BY <1>1, <1>3, <2>1, <2>2, <2>4 DEF ReadSoFar, CallTypes, BeforeLow, BeforeHigh, Together
<1>6. CASE ReadHighAgain
  <2> DEFINE after == IF High(mcycle) = result.high THEN "bne" ELSE "mcycleh"
  <2>1. /\ result' = [result EXCEPT !.next = after]
        /\ result'.next = after /\ result'.high = result.high /\ result'.low = result.low
    BY <1>3, <1>6 DEF ReadHighAgain
  <2>2. result' \in [next : Reads, high : Nat, low : Nat]
    BY <1>3, <2>1 DEF Reads
  <2>3. PICK t \in Nat, u \in Nat : HighRead(t) /\ LowRead(u) /\ t <= u
    BY <1>1, <1>6 DEF ReadSoFar, BeforeHigh, ReadHighAgain
  <2>4. ASSUME High(mcycle) = result.high PROVE HighRead(u)' /\ LowRead(u)'
    <3>1. High(t) <= High(u) /\ High(u) <= High(mcycle) /\ High(t) \in Nat /\ High(u) \in Nat
      BY <1>1, <2>3, Halves DEF LowRead
    <3>2. High(u) = result.high
      BY <1>2, <2>3, <2>4, <3>1 DEF HighRead
    <3> QED
      BY <1>1, <1>3, <2>1, <2>3, <3>2 DEF HighRead, LowRead, High, Low
  <2> QED
    BY <1>1, <1>3, <2>1, <2>2, <2>4 DEF ReadSoFar, CallTypes, BeforeLow, BeforeHigh, Together
<1> QED
  BY <1>4, <1>5, <1>6

\* The counter goes on between the reads, and calls begin and end.
LEMMA NextInv == IInv /\ [Next]_vars => IInv'
<1> SUFFICES ASSUME IInv, [Next]_vars PROVE IInv'
  OBVIOUS
<1>1. CASE UNCHANGED vars
  BY <1>1 DEF vars, IInv, InCall, ReadSoFar, CallTypes, BeforeLow, BeforeHigh, Together, HighRead, LowRead
<1>2. CASE CallFullyConnected \/ CallConv \/ CallTrap \/ CallSampler \/ CallCutMix
  <2>1. mcycle' = mcycle
    <3>1. CASE CallFullyConnected
      BY <3>1 DEF CallFullyConnected, Returns
    <3>2. CASE CallConv
      BY <3>2 DEF CallConv, Returns
    <3>3. CASE CallTrap
      BY <3>3 DEF CallTrap, Returns
    <3>4. CASE CallSampler
      BY <3>4 DEF CallSampler, Returns
    <3>5. CASE CallCutMix
      BY <3>5 DEF CallCutMix, Returns
    <3> QED
      BY <1>2, <3>1, <3>2, <3>3, <3>4, <3>5
  <2>2. ~InCall'
    <3>1. CASE CallFullyConnected
      BY <3>1 DEF CallFullyConnected, Returns, InCall
    <3>2. CASE CallConv
      BY <3>2 DEF CallConv, Returns, InCall
    <3>3. CASE CallTrap
      BY <3>3 DEF CallTrap, Returns, InCall
    <3>4. CASE CallSampler
      BY <3>4 DEF CallSampler, Returns, InCall
    <3>5. CASE CallCutMix
      BY <3>5 DEF CallCutMix, Returns, InCall
    <3> QED
      BY <1>2, <3>1, <3>2, <3>3, <3>4, <3>5
  <2> QED
    BY <2>1, <2>2 DEF IInv
<1>3. CASE CallCycles
  <2>1. PICK now \in mcycle..LastCycle :
          /\ mcycle' = now
          /\ call' = [of |-> "perf_get_mcycle64", since |-> now]
          /\ result' = [next |-> "mcycleh", high |-> 0, low |-> 0]
    BY <1>3 DEF CallCycles
  <2>2. now \in Nat
    BY HalfAssumption DEF IInv, LastCycle, HalfAssumption
  <2>3. call'.since = now /\ result'.next = "mcycleh" /\ result' \in [next : Reads, high : Nat, low : Nat]
    BY <2>1 DEF Reads
  <2>4. CallTypes' /\ BeforeLow' /\ BeforeHigh' /\ Together'
    BY <2>1, <2>2, <2>3 DEF CallTypes, BeforeLow, BeforeHigh, Together
  <2> QED
    BY <2>1, <2>2, <2>4 DEF IInv, ReadSoFar
<1>4. CASE ReadHigh \/ ReadLow \/ ReadHighAgain
  BY <1>4, ReadsInv
<1>5. CASE Tick
  <2>1. mcycle \in Nat /\ mcycle' = mcycle + 1 /\ UNCHANGED <<call, result>> /\ ReadSoFar
    BY <1>5 DEF Tick, IInv, InCall
  <2>2. ASSUME NEW t, HighRead(t) PROVE HighRead(t)'
    BY <2>1, <2>2 DEF HighRead, High
  <2>3. ASSUME NEW t, LowRead(t) PROVE LowRead(t)'
    BY <2>1, <2>3 DEF LowRead, Low
  <2>4. CallTypes'
    BY <2>1 DEF ReadSoFar, CallTypes
  <2>5. BeforeLow'
    <3> SUFFICES ASSUME result.next = "mcycle" PROVE \E t \in Nat : HighRead(t)'
      BY <2>1 DEF BeforeLow
    <3>1. PICK t \in Nat : HighRead(t)
      BY <2>1 DEF ReadSoFar, BeforeLow
    <3> QED
      BY <2>2, <3>1
  <2>6. BeforeHigh'
    <3> SUFFICES ASSUME result.next = "mcycleh again"
                 PROVE  \E t, u \in Nat : HighRead(t)' /\ LowRead(u)' /\ t <= u
      BY <2>1 DEF BeforeHigh
    <3>1. PICK t \in Nat, u \in Nat : HighRead(t) /\ LowRead(u) /\ t <= u
      BY <2>1 DEF ReadSoFar, BeforeHigh
    <3> QED
      BY <2>2, <2>3, <3>1
  <2>7. Together'
    <3> SUFFICES ASSUME result.next = "bne" PROVE \E t \in Nat : HighRead(t)' /\ LowRead(t)'
      BY <2>1 DEF Together
    <3>1. PICK t \in Nat : HighRead(t) /\ LowRead(t)
      BY <2>1 DEF ReadSoFar, Together
    <3> QED
      BY <2>2, <2>3, <3>1
  <2>8. mcycle' \in Nat
    BY <2>1
  <2> QED
    BY <2>4, <2>5, <2>6, <2>7, <2>8 DEF IInv, ReadSoFar
<1>6. CASE Return
  BY <1>6 DEF Return, IInv, InCall, None
<1> QED
  BY <1>1, <1>2, <1>3, <1>4, <1>5, <1>6 DEF Next

\* A value put together from halves of one moment is the counter's at that moment.
LEMMA InvCycles == IInv => CyclesAreOfTheCall
<1> SUFFICES ASSUME IInv, InCall, result.next = "bne"
             PROVE  result.high * Half + result.low \in call.since..mcycle
  BY DEF CyclesAreOfTheCall, InCall
<1>1. PICK t \in Nat : HighRead(t) /\ LowRead(t)
  BY DEF IInv, ReadSoFar, Together
<1>2. result.high * Half + result.low = t
  BY <1>1, Halves DEF HighRead, LowRead
<1> QED
  BY <1>1, <1>2 DEF IInv, ReadSoFar, HighRead

\* perf_get_mcycle64 (perf.h) returns a value the counter had during the call,
\* whatever the width of the two halves and whenever the counter ticks.
THEOREM CyclesCorrect == Spec => []CyclesAreOfTheCall
  BY InitInv, NextInv, InvCycles, PTL DEF Spec

-----------------------------------------------------------------------------
(* The functions that return in the step that calls them. *)

\* A result is that of the last call, and until it returns nothing else runs.
LEMMA WhichCall ==
  ASSUME [Next]_vars
  PROVE  \/ UNCHANGED vars
         \/ call'.of \in {"none", "perf_get_mcycle64"}
         \/ CallFullyConnected /\ call'.of = "fully_connected"
         \/ CallConv /\ call'.of = "conv"
         \/ CallTrap /\ call'.of = "trap"
         \/ CallSampler /\ call'.of = "RASampler"
         \/ CallCutMix /\ call'.of = "RandomCutMix"
<1>1. CallFullyConnected => call'.of = "fully_connected"
  BY DEF CallFullyConnected, Returns
<1>2. CallConv => call'.of = "conv"
  BY DEF CallConv, Returns
<1>3. CallTrap => call'.of = "trap"
  BY DEF CallTrap, Returns
<1>4. CallSampler => call'.of = "RASampler"
  BY DEF CallSampler, Returns
<1>5. CallCutMix => call'.of = "RandomCutMix"
  BY DEF CallCutMix, Returns
<1>6. CASE CallCycles
  BY <1>6 DEF CallCycles
<1>7. CASE ReadHigh \/ ReadLow \/ ReadHighAgain \/ Tick
  BY <1>7 DEF ReadHigh, ReadLow, ReadHighAgain, Tick
<1>8. CASE Return
  BY <1>8 DEF Return, None
<1> QED
  BY <1>1, <1>2, <1>3, <1>4, <1>5, <1>6, <1>7, <1>8 DEF Next

-----------------------------------------------------------------------------
(* RandomCutMix *)

\* The ends of one side of the box, clamped.
LowEnd(n, r, k) == IF r - (k * n) \div 10 < 0 THEN 0 ELSE r - (k * n) \div 10
HighEnd(n, r, k) == IF r + (k * n) \div 10 > n THEN n ELSE r + (k * n) \div 10

\* A side stays within the image and keeps its order, and as many pixels lie on
\* it as its ends are apart.
SideIsCut(n, low, high) ==
  /\ low \in Nat /\ high \in Nat /\ low <= high
  /\ low..(high - 1) \subseteq 0..(n - 1)
  /\ IsFiniteSet(low..(high - 1)) /\ Cardinality(low..(high - 1)) = high - low

LEMMA CutSide ==
  ASSUME NEW n \in Nat, NEW r \in 0..(n - 1), NEW k \in 0..5
  PROVE  SideIsCut(n, LowEnd(n, r, k), HighEnd(n, r, k))
<1>1. PICK product \in Nat : product = k * n
  OBVIOUS
<1>2. PICK half \in Nat : half = product \div 10
  BY <1>1
<1>3. PICK low, high : low = LowEnd(n, r, k) /\ high = HighEnd(n, r, k)
  OBVIOUS
<1>4. low = (IF r - half < 0 THEN 0 ELSE r - half) /\ high = (IF r + half > n THEN n ELSE r + half)
  BY <1>1, <1>2, <1>3 DEF LowEnd, HighEnd
<1>5. low \in Nat /\ high \in Nat /\ low <= high /\ high <= n
  BY <1>4
<1>6. IsFiniteSet(low..(high - 1)) /\ Cardinality(low..(high - 1)) = (IF low > high - 1 THEN 0 ELSE high - 1 - low + 1)
  <2>1. low \in Int /\ high - 1 \in Int
    BY <1>5
  <2> QED
    BY <2>1, FS_Interval, Zenon
<1> QED
  BY <1>3, <1>5, <1>6 DEF SideIsCut

\* transforms.py, RandomCutMix: wherever the box is centred and however large it
\* is, what is pasted lies in the image, and the label's share is its pixels'.
LEMMA BoxIsShare ==
  ASSUME NEW W \in Nat, NEW H \in Nat, NEW rx \in 0..(W - 1), NEW ry \in 0..(H - 1), NEW k \in 0..5
  PROVE  LET box == CutBox(W, H, rx, ry, k, 5)
         IN /\ Pasted(box) \subseteq (0..(W - 1)) \X (0..(H - 1))
            /\ OtherLabel(box) = Cardinality(Pasted(box))
<1>1. PICK box : box = CutBox(W, H, rx, ry, k, 5)
  OBVIOUS
<1>2. SideIsCut(W, box.x1, box.x2)
  <2>1. box.x1 = LowEnd(W, rx, k) /\ box.x2 = HighEnd(W, rx, k)
    BY <1>1 DEF CutBox, LowEnd, HighEnd
  <2> QED
    BY <2>1, CutSide, Zenon
<1>3. SideIsCut(H, box.y1, box.y2)
  <2>1. box.y1 = LowEnd(H, ry, k) /\ box.y2 = HighEnd(H, ry, k)
    BY <1>1 DEF CutBox, LowEnd, HighEnd
  <2> QED
    BY <2>1, CutSide, Zenon
<1>4. Cardinality(Pasted(box)) = (box.x2 - box.x1) * (box.y2 - box.y1)
  <2>1. PICK xs : xs = box.x1..(box.x2 - 1) /\ IsFiniteSet(xs) /\ Cardinality(xs) = box.x2 - box.x1
    BY <1>2, Zenon DEF SideIsCut
  <2>2. PICK ys : ys = box.y1..(box.y2 - 1) /\ IsFiniteSet(ys) /\ Cardinality(ys) = box.y2 - box.y1
    BY <1>3, Zenon DEF SideIsCut
  <2>3. Cardinality(xs \X ys) = Cardinality(xs) * Cardinality(ys)
    BY <2>1, <2>2, FS_Product, Zenon
  <2> QED
    BY <2>1, <2>2, <2>3, Zenon DEF Pasted
<1>5. Pasted(box) \subseteq (0..(W - 1)) \X (0..(H - 1))
  BY <1>2, <1>3 DEF SideIsCut, Pasted
<1> QED
  BY <1>1, <1>4, <1>5 DEF OtherLabel

\* transforms.py, RandomCutMix: the share of the label given to the other image is
\* the share of its pixels, for images of every size.
THEOREM LabelsAreShares == Spec => []LabelsMatchPixels
<1>1. Init => LabelsMatchPixels
  BY DEF Init, None, LabelsMatchPixels
<1>2. LabelsMatchPixels /\ [Next]_vars => LabelsMatchPixels'
  <2> SUFFICES ASSUME LabelsMatchPixels, [Next]_vars, call'.of = "RandomCutMix" PROVE LabelsMatchPixels'
    BY DEF LabelsMatchPixels
  <2>1. CASE UNCHANGED vars
    BY <2>1 DEF vars, LabelsMatchPixels
  <2>2. CASE CallCutMix
    <3>1. PICK W \in 1..MaxSide, H \in 1..MaxSide, k \in 0..5 : \E rx \in 0..(W - 1), ry \in 0..(H - 1) :
            Returns([of |-> "RandomCutMix", W |-> W, H |-> H], CutBox(W, H, rx, ry, k, 5))
      BY <2>2 DEF CallCutMix
    <3>2. PICK rx \in 0..(W - 1), ry \in 0..(H - 1) :
            Returns([of |-> "RandomCutMix", W |-> W, H |-> H], CutBox(W, H, rx, ry, k, 5))
      BY <3>1
    <3>3. W \in Nat /\ H \in Nat
      OBVIOUS
    <3>4. call'.W = W /\ call'.H = H /\ result' = CutBox(W, H, rx, ry, k, 5)
      BY <3>2 DEF Returns
    <3> QED
      BY <3>3, <3>4, BoxIsShare DEF LabelsMatchPixels
  <2> QED
    BY <2>1, <2>2, WhichCall
<1> QED
  BY <1>1, <1>2, PTL DEF Spec

-----------------------------------------------------------------------------
(* RASampler *)

\* Numbers a divisor apart have quotients apart.
LEMMA QuotientsApart ==
  ASSUME NEW a \in Nat, NEW b \in Nat, NEW d \in Nat \ {0}, a + d <= b
  PROVE  a \div d # b \div d
<1>1. PICK q \in Nat, r \in 0..(d - 1) : a = q * d + r /\ a \div d = q
  BY Division
<1>2. PICK p \in Nat, s \in 0..(d - 1) : b = p * d + s /\ b \div d = p
  BY Division
<1>3. ASSUME p = q PROVE FALSE
  BY <1>1, <1>2, <1>3
<1> QED
  BY <1>1, <1>2, <1>3

\* Rounded up, a quotient times the divisor is no less than the dividend.
LEMMA RoundedUp ==
  ASSUME NEW a \in Nat, NEW b \in Nat \ {0}
  PROVE  /\ CeilDiv(a, b) \in Nat
         /\ a <= CeilDiv(a, b) * b
<1>1. PICK c \in Nat : c = a + b - 1
  OBVIOUS
<1>2. PICK q \in Nat, r \in 0..(b - 1) : c = q * b + r /\ c \div b = q
  BY Division
<1>3. q * b \in Nat
  BY Products
<1> QED
  BY <1>1, <1>2, <1>3 DEF CeilDiv

\* A function on the first numbers is a sequence of its values.
LEMMA FunctionIsSeq ==
  ASSUME NEW n \in Nat, NEW f, f = [i \in 1..n |-> f[i]]
  PROVE  \E X : f \in Seq(X) /\ Len(f) = n
<1>1. PICK X : X = {f[i] : i \in 1..n}
  OBVIOUS
<1>2. f \in [1..n -> X]
  BY <1>1
<1> QED
  BY <1>2

\* The repetitions and the padding: as many as the processes take together, and
\* those before the padding in the order of the samples.
LEMMA RepeatedIs ==
  ASSUME NEW n \in Nat, NEW reps \in Nat, NEW world \in Nat \ {0},
         num_samples(n, reps, world) * world <= 2 * n * reps
  PROVE  /\ n * reps \in Nat /\ num_samples(n, reps, world) \in Nat
         /\ n * reps <= num_samples(n, reps, world) * world
         /\ Len(RepeatedIndices(n, reps, world)) = num_samples(n, reps, world) * world
         /\ \A p \in 1..(n * reps) : RepeatedIndices(n, reps, world)[p] = CeilDiv(p, reps)
<1>1. PICK N \in Nat : N = n * reps
  BY Products
<1>2. PICK T \in Nat : T = num_samples(n, reps, world) /\ N <= T * world
  BY <1>1, RoundedUp DEF num_samples
<1>3. PICK L \in Nat : L = T * world
  BY Products
<1>4. 2 * n * reps = 2 * N
  BY <1>1
<1>5. N <= L /\ L <= 2 * N
  BY <1>2, <1>3, <1>4
<1>6. PICK repeated : repeated = [i \in 1..N |-> CeilDiv(i, reps)]
  OBVIOUS
<1>7. RepeatedIndices(n, reps, world) = repeated \o SubSeq(repeated, 1, L - N)
  BY <1>1, <1>2, <1>3, <1>6, Zenon DEF RepeatedIndices
<1>8. PICK X : \A i \in 1..N : CeilDiv(i, reps) \in X
  <2>1. \A i \in 1..N : CeilDiv(i, reps) \in {CeilDiv(j, reps) : j \in 1..N}
    OBVIOUS
  <2> QED
    BY <2>1
<1>9. repeated \in Seq(X) /\ Len(repeated) = N
  BY <1>6, <1>8
<1>10. PICK padding \in Seq(X) : padding = SubSeq(repeated, 1, L - N) /\ Len(padding) = L - N
  <2>1. \A i \in 1..(L - N) : repeated[i] \in X
    BY <1>5, <1>6, <1>8
  <2>2. /\ SubSeq(repeated, 1, L - N) \in Seq(X)
        /\ Len(SubSeq(repeated, 1, L - N)) = IF 1 <= L - N THEN L - N - 1 + 1 ELSE 0
    <3>1. 1 \in Int /\ L - N \in Int
      OBVIOUS
    <3> QED
      BY <2>1, <3>1, SubSeqProperties
  <2>3. (IF 1 <= L - N THEN L - N - 1 + 1 ELSE 0) = L - N
    BY <1>5
  <2> QED
    BY <2>2, <2>3, Zenon
<1>11. /\ Len(repeated \o padding) = L
       /\ \A p \in 1..N : (repeated \o padding)[p] = repeated[p]
  <2>1. repeated \in Seq(X) /\ padding \in Seq(X)
    BY <1>9
  <2>2. PICK joined : joined = repeated \o padding
    OBVIOUS
  <2>3. /\ Len(joined) = Len(repeated) + Len(padding)
        /\ \A i \in 1..Len(repeated) + Len(padding) :
             joined[i] = IF i <= Len(repeated) THEN repeated[i] ELSE padding[i - Len(repeated)]
    BY <2>1, <2>2, ConcatProperties, Zenon
  <2>4. Len(repeated) = N /\ Len(padding) = L - N
    BY <1>9, <1>10
  <2>5. Len(joined) = L
    BY <1>5, <2>3, <2>4
  <2>6. ASSUME NEW p \in 1..N PROVE joined[p] = repeated[p]
    <3>1. p \in 1..N + (L - N) /\ p <= N
      BY <1>5
    <3> QED
      BY <2>3, <2>4, <3>1, Zenon
  <2> QED
    BY <2>2, <2>5, <2>6, Zenon
<1>12. \A p \in 1..N : repeated[p] = CeilDiv(p, reps)
  BY <1>6
<1> QED
  BY <1>1, <1>2, <1>3, <1>5, <1>7, <1>10, <1>11, <1>12, Zenon

Positive == Nat \ {0}

\* What a process selects: as many as every other, and its samples lie as many
\* places apart as there are processes, all before the padding.
LEMMA ShardIs ==
  ASSUME NEW n \in Positive, NEW reps \in Positive, NEW world \in Positive, NEW chunk \in Positive,
         num_samples(n, reps, world) * world <= 2 * n * reps,
         NEW rank \in 0..(world - 1),
         NEW shard, shard = RepeatedShard(n, reps, rank, world, chunk)
  PROVE  LET S == num_selected_samples(n, world, chunk)
         IN /\ S \in Nat /\ DOMAIN shard = 1..S /\ Len(shard) = S
            /\ \A i \in 1..S : shard[i] = CeilDiv(rank + 1 + (i - 1) * world, reps)
<1> USE DEF Positive
<1>13. PICK N \in Nat, T \in Nat, L \in Nat :
         /\ N = n * reps /\ T = num_samples(n, reps, world) /\ L = T * world /\ N <= L
         /\ Len(RepeatedIndices(n, reps, world)) = L
         /\ \A p \in 1..N : RepeatedIndices(n, reps, world)[p] = CeilDiv(p, reps)
  <2>1. n \in Nat /\ reps \in Nat
    OBVIOUS
  <2>2. num_samples(n, reps, world) \in Nat => num_samples(n, reps, world) * world \in Nat
    BY Products
  <2>3. /\ n * reps \in Nat /\ num_samples(n, reps, world) \in Nat
        /\ n * reps <= num_samples(n, reps, world) * world
        /\ Len(RepeatedIndices(n, reps, world)) = num_samples(n, reps, world) * world
        /\ \A p \in 1..(n * reps) : RepeatedIndices(n, reps, world)[p] = CeilDiv(p, reps)
    BY <2>1, RepeatedIs, Zenon
  <2> QED
    BY <2>2, <2>3, Zenon
<1>1. PICK s : /\ N = n * reps /\ T = num_samples(n, reps, world) /\ L = T * world /\ N <= L
               /\ s = RepeatedIndices(n, reps, world) /\ Len(s) = L
               /\ \A p \in 1..N : s[p] = CeilDiv(p, reps)
  BY <1>13
<1>2. n <= N
  BY <1>1
<1>3. PICK m \in Nat : m = (n \div chunk) * chunk /\ m <= n
  <2>1. PICK q \in Nat, r \in 0..(chunk - 1) : n = q * chunk + r /\ n \div chunk = q
    BY Division
  <2>2. q * chunk \in Nat
    BY Products
  <2> QED
    BY <2>1, <2>2
<1>4. PICK S \in Nat : S = num_selected_samples(n, world, chunk) /\ S * world <= n
  <2>1. PICK q \in Nat, r \in 0..(world - 1) : m = q * world + r /\ m \div world = q
    BY Division
  <2>2. q * world \in Nat
    BY Products
  <2> QED
    BY <1>3, <2>1, <2>2 DEF num_selected_samples
<1>5. S <= T
  <2> SUFFICES ASSUME T + 1 <= S PROVE FALSE
    OBVIOUS
  <2>5. T \in Int /\ T + 1 \in Int /\ S \in Int /\ world \in Nat
    OBVIOUS
  <2>6. (T + 1) * world <= S * world /\ (T + 1) * world = T * world + world
    BY <2>5, Products, Zenon
  <2>1. (T + 1) * world <= S * world /\ (T + 1) * world = L + world
    BY <1>1, <2>6, Zenon
  <2>2. PICK product \in Int : product = S * world
    BY Products
  <2>3. L + world <= product
    BY <2>1, <2>2
  <2>4. product <= n /\ n <= L
    <3>1. product <= n
      BY <1>4, <2>2
    <3>2. N <= L
      BY <1>1, Zenon
    <3> QED
      BY <1>2, <3>1, <3>2
  <2> QED
    BY <2>3, <2>4
<1>6. CeilDiv(Len(s) - rank, world) = T
  <2>1. Len(s) - rank + world - 1 = T * world + (world - 1 - rank) /\ world - 1 - rank \in 0..(world - 1)
    BY <1>1
  <2> QED
    BY <2>1, QuotientIs DEF CeilDiv
<1>7. PICK all : /\ all = Strided(s, rank, world)
                 /\ all = [i \in 1..T |-> s[rank + 1 + (i - 1) * world]]
  BY <1>6 DEF Strided
<1>8. PICK X : all \in Seq(X) /\ Len(all) = T
  <2>1. all = [i \in 1..T |-> all[i]]
    BY <1>7
  <2> QED
    BY <2>1, FunctionIsSeq
<1>9. shard = SubSeq(all, 1, S)
  <2>1. (IF S < T THEN S ELSE T) = S
    BY <1>5
  <2> QED
    BY <1>1, <1>4, <1>7, <1>8, <2>1, Zenon DEF RepeatedShard
<1>10. /\ DOMAIN shard = 1..S /\ Len(shard) = S
       /\ \A i \in 1..S : shard[i] = all[i]
  BY <1>5, <1>8, <1>9
<1>11. ASSUME NEW i \in 1..S PROVE shard[i] = CeilDiv(rank + 1 + (i - 1) * world, reps)
  <2>1. /\ i * world <= S * world /\ (i - 1) * world = i * world - world
        /\ (i - 1) * world \in Nat
    BY Products
  <2>2. rank + 1 + (i - 1) * world \in 1..N
    BY <1>2, <1>4, <2>1
  <2>3. all[i] = s[rank + 1 + (i - 1) * world]
    BY <1>5, <1>7
  <2> QED
    BY <1>1, <1>10, <2>2, <2>3
<1> QED
  BY <1>4, <1>9, <1>10, <1>11, Zenon

\* Two places of one process are at least as far apart as there are processes, and
\* so belong to different samples unless there are more repetitions.
LEMMA CopiesAreApart ==
  ASSUME NEW reps \in Nat \ {0}, NEW world \in Nat \ {0}, reps <= world, NEW rank \in Nat,
         NEW i \in Nat \ {0}, NEW j \in Nat \ {0}, i < j
  PROVE  CeilDiv(rank + 1 + (i - 1) * world, reps) # CeilDiv(rank + 1 + (j - 1) * world, reps)
<1>1. PICK a \in Nat, b \in Nat : a = (i - 1) * world /\ b = (j - 1) * world /\ a + world <= b
  <2>1. /\ i * world <= (j - 1) * world /\ (i - 1) * world = i * world - world
        /\ (i - 1) * world \in Nat /\ (j - 1) * world \in Nat
    BY Products
  <2> QED
    BY <2>1
<1>2. /\ rank + 1 + a + reps - 1 \in Nat /\ rank + 1 + b + reps - 1 \in Nat
      /\ (rank + 1 + a + reps - 1) + reps <= rank + 1 + b + reps - 1
  BY <1>1
<1>3. (rank + 1 + a + reps - 1) \div reps # (rank + 1 + b + reps - 1) \div reps
  BY <1>2, QuotientsApart
<1> QED
  BY <1>1, <1>3 DEF CeilDiv

\* sampler.py, RASampler: with no more repetitions than processes, no process gets
\* two copies of a sample, and all get as many, for data sets of every size.
THEOREM CopiesDistributed == Spec => []CopiesApart
<1>1. Init => CopiesApart
  BY DEF Init, None, CopiesApart
<1>2. CopiesApart /\ [Next]_vars => CopiesApart'
  <2> SUFFICES ASSUME CopiesApart, [Next]_vars, call'.of = "RASampler" PROVE CopiesApart'
    BY DEF CopiesApart
  <2>1. CASE UNCHANGED vars
    BY <2>1 DEF vars, CopiesApart
  <2>2. CASE CallSampler
    <3>1. PICK n \in 1..MaxSamples, reps \in 1..3, world \in 1..MaxWorld, chunk \in 1..3 :
            /\ num_samples(n, reps, world) * world <= 2 * n * reps
            /\ Returns([of |-> "RASampler", n |-> n, reps |-> reps, world |-> world, chunk |-> chunk],
                       [rank \in 0..(world - 1) |-> RepeatedShard(n, reps, rank, world, chunk)])
      BY <2>2 DEF CallSampler
    <3>2. n \in Positive /\ reps \in Positive /\ world \in Positive /\ chunk \in Positive
      BY DEF Positive
    <3>3. /\ call'.n = n /\ call'.reps = reps /\ call'.world = world /\ call'.chunk = chunk
          /\ DOMAIN result' = 0..(world - 1)
          /\ \A rank \in 0..(world - 1) : result'[rank] = RepeatedShard(n, reps, rank, world, chunk)
      BY <3>1 DEF Returns
    <3>4. ASSUME NEW rank \in DOMAIN result', reps <= world
          PROVE  /\ \A i, j \in DOMAIN result'[rank] : result'[rank][i] = result'[rank][j] => i = j
                 /\ Len(result'[rank]) = num_selected_samples(n, world, chunk)
      <4>5. PICK shard : shard = result'[rank] /\ shard = RepeatedShard(n, reps, rank, world, chunk)
        BY <3>3, <3>4, Zenon
      <4>1. PICK S \in Nat :
              /\ S = num_selected_samples(n, world, chunk)
              /\ DOMAIN shard = 1..S /\ Len(shard) = S
              /\ \A i \in 1..S : shard[i] = CeilDiv(rank + 1 + (i - 1) * world, reps)
        <5>1. rank \in 0..(world - 1) /\ num_samples(n, reps, world) * world <= 2 * n * reps
          BY <3>1, <3>3, <3>4, Zenon
        <5>2. LET S == num_selected_samples(n, world, chunk)
              IN /\ S \in Nat /\ DOMAIN shard = 1..S /\ Len(shard) = S
                 /\ \A i \in 1..S : shard[i] = CeilDiv(rank + 1 + (i - 1) * world, reps)
          BY <3>2, <4>5, <5>1, ShardIs
        <5> QED
          BY <5>2, Zenon
      <4>2. rank \in Nat
        BY <3>2, <3>3, <3>4 DEF Positive
      <4>3. ASSUME NEW i \in 1..S, NEW j \in 1..S, i < j PROVE shard[i] # shard[j]
        <5>1. /\ i \in Nat \ {0} /\ j \in Nat \ {0}
              /\ reps \in Nat \ {0} /\ world \in Nat \ {0}
          BY <3>2, <4>1 DEF Positive
        <5>2. CeilDiv(rank + 1 + (i - 1) * world, reps) # CeilDiv(rank + 1 + (j - 1) * world, reps)
          BY <3>4, <4>2, <4>3, <5>1, CopiesAreApart, Zenon
        <5> QED
          BY <4>1, <5>2, Zenon
      <4>4. \A i, j \in 1..S : shard[i] = shard[j] => i = j
        BY <4>3
      <4> QED
        BY <4>1, <4>4, <4>5
    <3> QED
      BY <3>3, <3>4 DEF CopiesApart
  <2> QED
    BY <2>1, <2>2, WhichCall
<1> QED
  BY <1>1, <1>2, PTL DEF Spec

-----------------------------------------------------------------------------
(* The fully connected kernel *)

\* The fold of the model is the total.
LEMMA TotalIs ==
  ASSUME NEW f
  PROVE  Total(f) = TotalOf(f) /\ Total(f) = Totals(f)[DOMAIN f]
  BY Zenon DEF Total, TotalOf, Totals, Added, First, FoldFunction, FoldFunctionOnSet, MapThenFoldSet

LEMMA TotalIsLinear ==
  ASSUME NEW S, IsFiniteSet(S), NEW c \in Int,
         NEW f, NEW g, NEW h, IsCombination(S, f, g, c, h)
  PROVE  Total(g) \in Int /\ Total(h) \in Int /\ Total(f) = Total(g) + c * Total(h)
<1>1. TotalOf(g) \in Int /\ TotalOf(h) \in Int /\ TotalOf(f) = TotalOf(g) + c * TotalOf(h)
  BY TotalsAreLinear
<1> QED
  BY <1>1, TotalIs, Zenon

LEMMA TotalByParts ==
  ASSUME NEW S, NEW f, Values(f, S), NEW T, IsFiniteSet(T), NEW p, NEW U \in SUBSET S, Sends(p, U, T)
  PROVE  Total([t \in T |-> Totals(f)[Part(U, p, t)]]) = Totals(f)[U]
<1>1. TotalOf([t \in T |-> Totals(f)[Part(U, p, t)]]) = Totals(f)[U]
  BY TotalsByParts
<1> QED
  BY <1>1, TotalIs, Zenon

\* The sides of a layer that fits, its bytes and its offsets.
Sides == 1..64
Bytes == -128..127
ZeroPoints == -127..128

Vectors(K) == [1..K -> Int]
Matrices(M, K) == [1..M -> Vectors(K)]

\* What the processing element of a row multiplies.
RowProducts(row, input, offset, K) == [k \in 1..K |-> Multi(row[k], input[k], offset)]

\* A vector of bytes is one of integers, and so is a matrix.
LEMMA BytesAreInts ==
  ASSUME NEW M, NEW K
  PROVE  /\ \A v \in [1..K -> Bytes] : v \in Vectors(K)
         /\ \A w \in [1..M -> [1..K -> Bytes]] : w \in Matrices(M, K)
<1>1. \A v \in [1..K -> Bytes] : v \in Vectors(K)
  <2>1. \A b \in Bytes : b \in Int
    BY DEF Bytes
  <2> QED
    BY <2>1 DEF Vectors
<1>2. PICK B : B = [1..K -> Bytes]
  OBVIOUS
<1>3. \A w \in [1..M -> B] : w \in Matrices(M, K)
  BY <1>1, <1>2 DEF Matrices
<1> QED
  BY <1>1, <1>2, <1>3, Zenon

\* A byte that the TPU reads for row m and column k is the weight there: blocks
\* of four rows, the copy of four bytes at a time and the flat filter data fit.
LEMMA WeightAt ==
  ASSUME NEW M \in Sides, NEW K \in Sides, NEW weights \in Matrices(M, K),
         NEW m \in 1..M, NEW k \in 1..K
  PROVE  BlockA(weights)[((m-1) \div 4) * K + k - 1][(m-1) % 4] = weights[m][k]
<1> USE DEF Sides
<1>1. Len(weights) = M /\ Len(weights[1]) = K
  BY DEF Matrices, Vectors
<1>2. PICK q \in Nat, lane \in 0..3 : m - 1 = q * 4 + lane /\ (m-1) \div 4 = q /\ (m-1) % 4 = lane
  <2>1. m - 1 \in Nat /\ 4 \in Nat \ {0}
    OBVIOUS
  <2>2. PICK q \in Nat, lane \in 0..(4 - 1) : m - 1 = q * 4 + lane /\ (m-1) \div 4 = q /\ (m-1) % 4 = lane
    BY <2>1, Division, Zenon
  <2> QED
    BY <2>2
<1>3. K \in Nat \ {0} /\ k - 1 \in 0..(K - 1)
  OBVIOUS
<1>4. PICK depth \in Nat : depth = q * K + (k - 1) /\ depth \div K = q /\ depth % K = k - 1
  <2>1. q * K + (k - 1) \in Nat
    BY Products
  <2> QED
    BY <1>3, <2>1, QuotientIs, Zenon
<1>5. PICK place \in Nat : place = (m - 1) * K + (k - 1) /\ place \div K = m - 1 /\ place % K = k - 1
  <2>1. m - 1 \in Nat
    OBVIOUS
  <2>2. (m - 1) * K + (k - 1) \in Nat
    BY <2>1, Products
  <2> QED
    BY <1>3, <2>1, <2>2, QuotientIs, Zenon
<1>6. place < M * K
  <2>1. m * K <= M * K /\ (m - 1) * K = m * K - K /\ m * K \in Nat /\ M * K \in Nat
    BY Products
  <2> QED
    BY <1>5, <2>1
<1>7. depth \in 0..(CeilDiv4(M) * K - 1)
  <2>1. PICK C \in Nat : C = CeilDiv4(M) /\ q + 1 <= C
    BY <1>2 DEF CeilDiv4
  <2>2. (q + 1) * K <= C * K /\ (q + 1) * K = q * K + K
    <3>1. q \in Int /\ q + 1 \in Int /\ C \in Int /\ K \in Nat
      OBVIOUS
    <3> QED
      BY <2>1, <3>1, Products, Zenon
  <2>3. PICK a \in Nat, b \in Nat : a = q * K /\ b = C * K
    BY Products
  <2>4. a + K <= b /\ depth = a + (k - 1)
    BY <1>4, <2>2, <2>3, Zenon
  <2> QED
    BY <2>1, <2>3, <2>4
<1>8. Scratch(weights)[m - 1][k - 1] = weights[m][k]
  <2>1. m - 1 \in 0..63 /\ k - 1 \in 0..63 /\ m - 1 < M /\ k - 1 < 4 * CeilDiv4(K)
    BY DEF CeilDiv4
  <2>2. Scratch(weights)[m - 1][k - 1] =
          IF place < M * K THEN weights[(place \div K) + 1][(place % K) + 1] ELSE Unknown
    <3>1. (m - 1) * K + (k - 1) = place
      BY <1>5
    <3> QED
      BY <1>1, <2>1, <3>1, Zenon DEF Scratch
  <2>3. (m - 1) + 1 = m /\ (k - 1) + 1 = k
    OBVIOUS
  <2> QED
    BY <1>5, <1>6, <2>2, <2>3, Zenon
<1>9. BlockA(weights)[depth][lane] = Scratch(weights)[q * 4 + lane][k - 1]
  <2>1. lane \in 0..3
    OBVIOUS
  <2> QED
    BY <1>1, <1>4, <1>7, <2>1, Zenon DEF BlockA
<1>10. ((m-1) \div 4) * K + k - 1 = depth
  BY <1>2, <1>4, Products
<1> QED
  BY <1>2, <1>8, <1>9, <1>10, Zenon

\* So the row of the result is the sum of the processing elements' products.
LEMMA RowIs ==
  ASSUME NEW M \in Sides, NEW K \in Sides, NEW weights \in Matrices(M, K),
         NEW input \in Vectors(K), NEW offset, NEW m \in 1..M
  PROVE  FullyConnected(weights, input, offset)[m] = Total(RowProducts(weights[m], input, offset, K))
<1>1. Len(weights) = M /\ Len(input) = K
  BY DEF Sides, Matrices, Vectors
<1>2. PICK A : A = BlockA(weights)
  OBVIOUS
<1>3. ASSUME NEW k \in 1..K PROVE A[((m-1) \div 4) * K + k - 1][(m-1) % 4] = weights[m][k]
  <2>1. BlockA(weights)[((m-1) \div 4) * K + k - 1][(m-1) % 4] = weights[m][k]
    BY WeightAt, Zenon
  <2> QED
    BY <1>2, <2>1, Zenon
<1>4. [k \in 1..K |-> Multi(A[((m-1) \div 4) * K + k - 1][(m-1) % 4], input[k], offset)]
        = RowProducts(weights[m], input, offset, K)
  BY <1>3, Zenon DEF RowProducts
<1> QED
  BY <1>1, <1>2, <1>4, Zenon DEF FullyConnected

\* An offset below zero comes out of the port 256 too large, once for each weight.
LEMMA RowSum ==
  ASSUME NEW K \in Sides, NEW row \in Vectors(K), NEW input \in Vectors(K),
         NEW offset \in ZeroPoints
  PROVE  Total(RowProducts(row, input, offset, K))
           = Total([k \in 1..K |-> row[k] * (input[k] + offset)])
         <=> offset >= 0 \/ Total(row) = 0
<1> USE DEF Sides, ZeroPoints
<1>1. PICK o \in Nat : o = offset % 256 /\ o = IF offset >= 0 THEN offset ELSE offset + 256
  <2>1. offset % 256 \in 0..255 /\ offset \div 256 \in Int
        /\ offset = 256 * (offset \div 256) + (offset % 256)
    OBVIOUS
  <2>2. PICK o \in 0..255, d \in Int : o = offset % 256 /\ offset = 256 * d + o
    BY <2>1, Zenon
  <2>3. o = IF offset >= 0 THEN offset ELSE offset + 256
    <3>1. offset <= 128 /\ -127 <= offset /\ offset \in Int
      OBVIOUS
    <3>2. d = 0 \/ d = -1
      BY <2>2, <3>1
    <3> QED
      BY <2>2, <3>1, <3>2
  <2> QED
    BY <2>2, <2>3
<1>2. PICK f, g :
        /\ f = RowProducts(row, input, offset, K) /\ f = [k \in 1..K |-> Multi(row[k], input[k], offset)]
        /\ g = [k \in 1..K |-> row[k] * (input[k] + offset)]
  BY DEF RowProducts
<1>3. ASSUME NEW k \in 1..K
      PROVE  /\ f[k] = (o + input[k]) * row[k] /\ g[k] = row[k] * (input[k] + offset)
             /\ g[k] \in Int /\ row[k] \in Int /\ input[k] \in Int
  <2>1. f[k] = (o + input[k]) * row[k] /\ g[k] = row[k] * (input[k] + offset)
    BY <1>1, <1>2, Zenon DEF Multi
  <2>2. row[k] \in Int /\ input[k] \in Int
    BY DEF Vectors
  <2>3. \A w, x \in Int : w * (x + offset) \in Int
    OBVIOUS
  <2> QED
    BY <2>1, <2>2, <2>3, Zenon
<1>4. CASE offset >= 0
  <2>1. \A w, x \in Int : (o + x) * w = w * (x + offset)
    BY <1>1, <1>4
  <2>2. \A k \in 1..K : f[k] = g[k]
    BY <1>3, <2>1, Zenon
  <2>3. f = g
    BY <1>2, <2>2
  <2> QED
    BY <1>2, <1>4, <2>3
<1>5. CASE offset < 0
  <2>1. \A w, x \in Int : (o + x) * w = w * (x + offset) + 256 * w
    BY <1>1, <1>5
  <2>2. ASSUME NEW k \in 1..K PROVE g[k] \in Int /\ row[k] \in Int /\ f[k] = g[k] + 256 * row[k]
    <3>1. (o + input[k]) * row[k] = row[k] * (input[k] + offset) + 256 * row[k]
      BY <1>3, <2>1, Zenon
    <3> QED
      BY <1>3, <3>1, Zenon
  <2>3. DOMAIN f = 1..K /\ DOMAIN g = 1..K /\ DOMAIN row = 1..K /\ IsFiniteSet(1..K)
    BY <1>2, FS_Interval DEF Vectors
  <2>7. PICK c \in Int : c = 256 /\ IsCombination(1..K, f, g, c, row)
    BY <2>2, <2>3 DEF IsCombination
  <2>8. Total(g) \in Int /\ Total(row) \in Int /\ Total(f) = Total(g) + c * Total(row)
    <3> HIDE DEF Sides, ZeroPoints
    <3> QED
      BY <2>3, <2>7, TotalIsLinear, SMT
  <2>4. Total(g) \in Int /\ Total(row) \in Int /\ Total(f) = Total(g) + 256 * Total(row)
    BY <2>7, <2>8
  <2>5. Total(f) = Total(g) <=> Total(row) = 0
    BY <2>4
  <2>6. ~(offset >= 0)
    BY <1>5
  <2> QED
    BY <1>2, <2>5, <2>6, Zenon
<1> QED
  BY <1>4, <1>5

\* fully_connected.h on the TPU of cfu.v: the sums are those of the layer if and
\* only if the offset is not negative or the weights of the row cancel out, for
\* layers of every shape and all their bytes.
THEOREM FullyConnectedSums == Spec => []FullyConnectedIsExact
<1>1. Init => FullyConnectedIsExact
  BY DEF Init, None, FullyConnectedIsExact
<1>2. FullyConnectedIsExact /\ [Next]_vars => FullyConnectedIsExact'
  <2> SUFFICES ASSUME FullyConnectedIsExact, [Next]_vars, call'.of = "fully_connected"
               PROVE  FullyConnectedIsExact'
    BY DEF FullyConnectedIsExact
  <2>1. CASE UNCHANGED vars
    BY <2>1 DEF vars, FullyConnectedIsExact
  <2>2. CASE CallFullyConnected
    <3>1. PICK layer \in DenseLayers, offset \in Offsets :
            Returns([of |-> "fully_connected", layer |-> layer, offset |-> offset],
                    FullyConnected(layer.weights, layer.input, offset))
      BY <2>2 DEF CallFullyConnected
    <3>2. PICK M \in Sides, K \in Sides : /\ layer.weights \in [1..M -> [1..K -> Bytes]]
                                        /\ layer.input \in [1..K -> Bytes]
      BY LayersAssumption DEF Sides, Bytes
    <3>3. PICK weights, input : weights = layer.weights /\ input = layer.input
      OBVIOUS
    <3>4. weights \in Matrices(M, K) /\ input \in Vectors(K) /\ Len(input) = K
      <4>1. layer.weights \in Matrices(M, K) /\ layer.input \in Vectors(K)
        BY <3>2, BytesAreInts
      <4>2. Len(input) = K
        <5>1. K \in Nat /\ input \in Vectors(K)
          BY <3>3, <4>1 DEF Sides
        <5> QED
          BY <5>1 DEF Vectors
      <4> QED
        BY <3>3, <4>1, <4>2
    <3>5. offset \in ZeroPoints
      BY OffsetsAssumption DEF ZeroPoints
    <3>6. /\ call'.layer.weights = weights /\ call'.layer.input = input /\ call'.offset = offset
          /\ result' = FullyConnected(weights, input, offset)
      BY <3>1, <3>3 DEF Returns
    <3>7. DOMAIN result' = 1..M
      <4>1. Len(weights) = M
        BY <3>4 DEF Sides, Matrices
      <4> QED
        BY <3>6, <4>1 DEF FullyConnected
    <3>8. ASSUME NEW m \in 1..M
          PROVE  result'[m] = Total([k \in DOMAIN weights[m] |-> weights[m][k] * (input[k] + offset)])
                 <=> offset >= 0 \/ Total(weights[m]) = 0
      <4>1. PICK row \in Vectors(K) : row = weights[m]
        BY <3>4 DEF Sides, Matrices
      <4>2. result'[m] = Total(RowProducts(row, input, offset, K))
        <5>1. FullyConnected(weights, input, offset)[m] = Total(RowProducts(weights[m], input, offset, K))
          BY <3>4, RowIs, SMT
        <5> QED
          BY <3>6, <4>1, <5>1, Zenon
      <4>3. DOMAIN row = 1..K
        BY DEF Vectors
      <4>4. Total(RowProducts(row, input, offset, K))
              = Total([k \in 1..K |-> row[k] * (input[k] + offset)])
            <=> offset >= 0 \/ Total(row) = 0
        BY <3>4, <3>5, RowSum, Zenon
      <4> QED
        BY <4>1, <4>2, <4>3, <4>4, Zenon
    <3>9. \A m \in DOMAIN result' :
            LET row == call'.layer.weights[m]
            IN result'[m] = Total([k \in DOMAIN row |-> row[k] * (call'.layer.input[k] + call'.offset)])
               <=> call'.offset >= 0 \/ Total(row) = 0
      <4>1. call'.layer.weights = weights /\ call'.layer.input = input /\ call'.offset = offset
        BY <3>6, Zenon
      <4> QED
        BY <3>7, <3>8, <4>1
    <3> QED
      BY <3>9, Zenon DEF FullyConnectedIsExact
  <2> QED
    BY <2>1, <2>2, WhichCall
<1> QED
  BY <1>1, <1>2, PTL DEF Spec

-----------------------------------------------------------------------------
(* The divisions of the trap handler *)

\* The sets of the numbers up to n + 1 are those of the numbers up to n, without
\* and with n + 1: so the powers of two double.
LEMMA Powers ==
  ASSUME NEW n \in Nat
  PROVE  2^n \in Nat \ {0} /\ 2^(n + 1) = 2 * 2^n
<1> DEFINE U == 1..n
           V == 1..(n + 1)
           Without == SUBSET U
           With == {s \cup {n + 1} : s \in Without}
<1>1. IsFiniteSet(U) /\ Cardinality(U) = n /\ IsFiniteSet(V) /\ Cardinality(V) = n + 1
  BY FS_Interval
<1>2. /\ IsFiniteSet(Without) /\ Cardinality(Without) = 2^n
      /\ IsFiniteSet(SUBSET V) /\ Cardinality(SUBSET V) = 2^(n + 1)
  BY <1>1, FS_SUBSET, Zenon
<1>3. n + 1 \notin U /\ V = U \cup {n + 1}
  OBVIOUS
<1>4. IsFiniteSet(With) /\ Cardinality(With) = Cardinality(Without)
  <2>1. PICK f : f = [s \in Without |-> s \cup {n + 1}]
    OBVIOUS
  <2>2. \A s, t \in Without : f[s] = f[t] => s = t
    <3> SUFFICES ASSUME NEW s \in Without, NEW t \in Without, s \cup {n + 1} = t \cup {n + 1}
                 PROVE  s = t
      BY <2>1
    <3> HIDE DEF U
    <3> QED
      BY <1>3
  <2>3. f \in Bijection(Without, With)
    <3>1. f \in [Without -> With] /\ \A w \in With : \E s \in Without : f[s] = w
      BY <2>1
    <3> HIDE DEF Without, With
    <3> QED
      BY <2>2, <3>1 DEF Bijection, Injection, Surjection, IsInjective
  <2> HIDE DEF Without, With
  <2> QED
    BY <1>2, <2>3, FS_Bijection DEF ExistsBijection
<1>5. SUBSET V = Without \cup With
  <2>1. ASSUME NEW s \in SUBSET V PROVE s \in Without \cup With
    <3>1. CASE n + 1 \in s
      <4>1. s \ {n + 1} \in Without /\ s = (s \ {n + 1}) \cup {n + 1}
        <5> HIDE DEF U, V
        <5> QED
          BY <1>3, <3>1
      <4> QED
        BY <4>1
    <3>2. CASE n + 1 \notin s
      <4> HIDE DEF U, V
      <4> QED
        BY <1>3, <3>2
    <3> QED
      BY <3>1, <3>2
  <2>2. \A s \in Without \cup With : s \in SUBSET V
    <3> HIDE DEF U, V
    <3> QED
      BY <1>3
  <2> QED
    BY <2>1, <2>2
<1>6. Without \cap With = {}
  <2> HIDE DEF U
  <2> QED
    BY <1>3
<1>7. Cardinality(SUBSET V) = Cardinality(Without) + Cardinality(With) - Cardinality(Without \cap With)
  <2> HIDE DEF Without, With
  <2> QED
    BY <1>2, <1>4, <1>5, FS_Union
<1>8. Cardinality(Without \cap With) = 0
  BY <1>6, FS_EmptySet
<1>9. Cardinality(Without) \in Nat \ {0}
  <2>1. Cardinality(Without) \in Nat /\ Without # {}
    BY <1>2, FS_CardinalityType
  <2> HIDE DEF Without
  <2> QED
    BY <1>2, <2>1, FS_EmptySet
<1> HIDE DEF V, Without, With
<1>10. PICK p \in Nat \ {0} : p = Cardinality(Without)
  BY <1>9
<1>11. 2^n = p /\ 2^(n + 1) = p + p - 0
  BY <1>2, <1>4, <1>7, <1>8, <1>10, Zenon
<1> QED
  BY <1>11

\* The remainder of a number next to zero.
LEMMA Wrapped ==
  ASSUME NEW P \in Nat \ {0}, NEW x \in Int, -P <= x, x < P
  PROVE  x % P = IF x < 0 THEN x + P ELSE x
<1>1. PICK q \in Int, r \in 0..(P - 1) : r = x % P /\ x = P * q + r
  <2>1. x \div P \in Int /\ x % P \in 0..(P - 1) /\ x = P * (x \div P) + (x % P)
    OBVIOUS
  <2> QED
    BY <2>1
<1>2. q >= 1 => P * q >= P
  OBVIOUS
<1>3. q <= -2 => P * q <= P * (-2) /\ P * (-2) = -P - P
  OBVIOUS
<1>4. P * 0 = 0 /\ P * (-1) = -P
  OBVIOUS
<1>5. PICK product \in Int : product = P * q
  OBVIOUS
<1>6. ~(q >= 1)
  BY <1>1, <1>2, <1>5
<1>7. ~(q <= -2)
  BY <1>1, <1>3, <1>5
<1>8. q = 0 \/ q = -1
  BY <1>6, <1>7
<1> QED
  BY <1>1, <1>4, <1>8

\* The limit of the numbers with a sign.
IsLimit(h) == h \in Nat \ {0} /\ 2^(Bits - 1) = h /\ 2^Bits = 2 * h

LEMMA Limit == \E h \in Nat \ {0} : IsLimit(h)
<1>1. PICK n \in Nat : n + 1 = Bits /\ n = Bits - 1
  BY BitsAssumption
<1>2. 2^n \in Nat \ {0} /\ 2^(n + 1) = 2 * 2^n
  BY Powers
<1>3. PICK h \in Nat \ {0} : h = 2^n
  BY <1>2
<1> QED
  BY <1>1, <1>2, <1>3 DEF IsLimit

\* A word is the number with a sign that it stands for, in two's complement.
LEMMA SignedIs ==
  ASSUME NEW h \in Nat \ {0}, IsLimit(h), NEW x \in Int
  PROVE  /\ x \in 0..(2 * h - 1) => Signed(x, Bits) = IF x >= h THEN x - 2 * h ELSE x
         /\ x \in -h..h => /\ x % 2^Bits \in 0..(2 * h - 1)
                           /\ Signed(x % 2^Bits, Bits) = IF x = h THEN -h ELSE x
<1>1. PICK P \in Nat \ {0} : P = 2 * h /\ P = 2^Bits /\ h = 2^(Bits - 1)
  BY DEF IsLimit
<1>2. ASSUME NEW u \in 0..(P - 1) PROVE Signed(u, Bits) = IF u >= h THEN u - P ELSE u
  <2>1. u % P = u
    BY Wrapped
  <2> QED
    BY <1>1, <2>1, Zenon DEF Signed
<1>3. ASSUME x \in -h..h PROVE x % P = IF x < 0 THEN x + P ELSE x
  <2>1. -P <= x /\ x < P
    BY <1>1, <1>3
  <2> QED
    BY <2>1, Wrapped
<1>4. ASSUME x \in -h..h PROVE x % P \in 0..(P - 1) /\ Signed(x % P, Bits) = IF x = h THEN -h ELSE x
  <2>1. PICK u \in 0..(P - 1) : u = x % P /\ u = IF x < 0 THEN x + P ELSE x
    BY <1>1, <1>3, <1>4
  <2>2. Signed(u, Bits) = IF u >= h THEN u - P ELSE u
    BY <1>2
  <2> QED
    BY <1>1, <1>4, <2>1, <2>2
<1> QED
  BY <1>1, <1>2, <1>4

\* Division that rounds towards zero.
LEMMA Truncated ==
  ASSUME NEW a \in Int, NEW b \in Int, b # 0
  PROVE  \E d \in Nat, r \in Nat :
           /\ Abs(a) = d * Abs(b) + r /\ r < Abs(b) /\ d <= Abs(a)
           /\ Quotient(a, b) = Sign(a) * Sign(b) * d
           /\ Remainder(a, b) = Sign(a) * r
           /\ a = Quotient(a, b) * b + Remainder(a, b)
<1>1. PICK A \in Nat, B \in Nat \ {0} : A = Abs(a) /\ B = Abs(b)
  BY DEF Abs
<1>2. PICK d \in Nat, r \in 0..(B - 1) : A = d * B + r /\ A \div B = d /\ A % B = r
  BY Division
<1>3. d <= A
  <2>1. d * B >= d
    BY <1>2
  <2> QED
    BY <1>2, <2>1
<1>4. PICK s \in {-1, 1}, t \in {-1, 1} : s = Sign(a) /\ t = Sign(b) /\ a = s * A /\ b = t * B
  BY <1>1 DEF Abs, Sign
<1>5. Quotient(a, b) = s * t * d /\ Remainder(a, b) = s * r
  BY <1>1, <1>2, <1>4, Zenon DEF Quotient, Remainder
<1>6. a = (s * t * d) * b + s * r
  <2>1. PICK product \in Nat : product = d * B
    BY Products
  <2>2. (s * t * d) * (t * B) = s * product
    <3>1. CASE t = 1
      BY <2>1, <3>1
    <3>2. CASE t = -1
      BY <2>1, <3>2
    <3> QED
      BY <3>1, <3>2
  <2>3. s * A = s * product + s * r
    BY <1>2, <2>1
  <2> QED
    BY <1>4, <2>2, <2>3
<1> QED
  BY <1>1, <1>2, <1>3, <1>4, <1>5, <1>6

\* What is left has the sign of the dividend and is smaller than the divisor, and
\* the quotient is no larger than the dividend: only the smallest number divided
\* by -1 gives the limit.
DivisionFits(h, a, b, q, left) ==
  /\ q = Quotient(a, b) /\ left = Remainder(a, b)
  /\ q \in -h..h /\ left \in Int
  /\ Abs(left) < Abs(b) /\ left * a >= 0
  /\ a = q * b + left
  /\ q = h /\ a # h => a = -h /\ b = -1

LEMMA QuotientFits ==
  ASSUME NEW h \in Nat \ {0}, NEW a \in Int, NEW b \in Int, b # 0,
         -h <= a, a <= h
  PROVE  \E q, left : DivisionFits(h, a, b, q, left)
<1>1. PICK d \in Nat, r \in Nat :
        /\ Abs(a) = d * Abs(b) + r /\ r < Abs(b) /\ d <= Abs(a)
        /\ Quotient(a, b) = Sign(a) * Sign(b) * d
        /\ Remainder(a, b) = Sign(a) * r
        /\ a = Quotient(a, b) * b + Remainder(a, b)
  BY Truncated
<1>2. PICK A \in Nat, B \in Nat \ {0}, s \in {-1, 1}, t \in {-1, 1} :
        /\ A = Abs(a) /\ B = Abs(b) /\ s = Sign(a) /\ t = Sign(b) /\ a = s * A /\ b = t * B
  BY DEF Abs, Sign
<1>3. A <= h
  BY <1>2
<1>4. PICK q \in Int, left \in Int :
        /\ q = Quotient(a, b) /\ left = Remainder(a, b) /\ q = s * t * d /\ left = s * r
  BY <1>1, <1>2
<1>5. d <= h /\ r < B
  BY <1>1, <1>2, <1>3
<1>6. q \in -h..h
  <2>1. q = d \/ q = -d
    BY <1>4
  <2> QED
    BY <1>5, <2>1
<1>7. Abs(left) < B
  <2>1. left = r \/ left = -r
    BY <1>4
  <2> QED
    BY <1>5, <2>1 DEF Abs
<1>8. left * a >= 0
  <2>1. (s * r) * (s * A) = r * A
    <3>1. CASE s = 1
      BY <3>1
    <3>2. CASE s = -1
      BY <3>2
    <3> QED
      BY <3>1, <3>2
  <2>2. r * A \in Nat
    BY Products
  <2> QED
    BY <1>2, <1>4, <2>1, <2>2
<1>9. ASSUME q = h, a # h PROVE a = -h /\ b = -1
  <2>1. s * t * d = d \/ s * t * d = -d
    OBVIOUS
  <2>2. d = h
    BY <1>4, <1>5, <1>9, <2>1
  <2>3. s * t = 1
    <3>1. s * t = 1 \/ s * t = -1
      OBVIOUS
    <3>2. (-1) * d = -d
      OBVIOUS
    <3> QED
      BY <1>4, <1>9, <2>2, <3>1, <3>2
  <2>4. A = h /\ B = 1
    <3>1. PICK product \in Nat : product = d * B /\ A = product + r
      BY <1>1, <1>2, Products
    <3>2. B >= 2 => d * B >= 2 * d
      OBVIOUS
    <3>3. d * 1 = d
      OBVIOUS
    <3>4. ~(B >= 2)
      BY <1>3, <2>2, <3>1, <3>2
    <3>5. B = 1
      BY <3>4
    <3> QED
      BY <1>3, <2>2, <3>1, <3>3, <3>5
  <2>5. s = -1
    BY <1>2, <1>9, <2>4
  <2>6. t = -1
    BY <2>3, <2>5
  <2> QED
    BY <1>2, <2>4, <2>5, <2>6
<1> QED
  BY <1>1, <1>2, <1>4, <1>6, <1>7, <1>8, <1>9 DEF DivisionFits

\* What DivisionsInFrame says of an instruction with two words and a result.
Word(op, x) == IF op \in {"div", "rem"} THEN Signed(x, Bits) ELSE x
IsQuotient(a, b, value) == \/ Abs(a - value * b) < Abs(b) /\ (a - value * b) * a >= 0
                           \/ a = -2^(Bits - 1) /\ b = -1 /\ value = a
IsRemainder(a, b, value) == /\ Abs(value) < Abs(b) /\ value * a >= 0
                            /\ \E q \in -2^Bits..2^Bits : a = q * b + value

\* With sign: the result wraps only where the ISA says so.
LEMMA SignedDivision ==
  ASSUME NEW h \in Nat \ {0}, IsLimit(h), NEW x \in 0..(2 * h - 1), NEW y \in 0..(2 * h - 1),
         NEW a, a = Signed(x, Bits), NEW b, b = Signed(y, Bits)
  PROVE  /\ a \in -h..(h - 1) /\ b \in -h..(h - 1) /\ (b = 0 <=> y = 0)
         /\ b # 0 => /\ IsQuotient(a, b, Signed(Quotient(a, b) % 2^Bits, Bits))
                     /\ IsRemainder(a, b, Signed(Remainder(a, b) % 2^Bits, Bits))
<1>1. a \in -h..(h - 1) /\ b \in -h..(h - 1) /\ (b = 0 <=> y = 0)
  <2>1. /\ Signed(x, Bits) = IF x >= h THEN x - 2 * h ELSE x
        /\ Signed(y, Bits) = IF y >= h THEN y - 2 * h ELSE y
    BY SignedIs
  <2> QED
    BY <2>1
<1> SUFFICES ASSUME b # 0
             PROVE  /\ IsQuotient(a, b, Signed(Quotient(a, b) % 2^Bits, Bits))
                    /\ IsRemainder(a, b, Signed(Remainder(a, b) % 2^Bits, Bits))
  BY <1>1
<1>2. a \in Int /\ b \in Int /\ -h <= a /\ a <= h /\ a # h
  BY <1>1
<1>11. PICK q, left : DivisionFits(h, a, b, q, left)
  BY <1>2, QuotientFits, Zenon
<1>3. /\ q \in -h..h /\ left \in Int
      /\ q = Quotient(a, b) /\ left = Remainder(a, b)
      /\ Abs(left) < Abs(b) /\ left * a >= 0 /\ a = q * b + left
      /\ q = h => a = -h /\ b = -1
  BY <1>2, <1>11, Zenon DEF DivisionFits
<1>4. q * b \in Int /\ a - q * b = left
  BY <1>2, <1>3
<1>5. Signed(q % 2^Bits, Bits) = IF q = h THEN -h ELSE q
  BY <1>3, SignedIs
<1>6. IsQuotient(a, b, Signed(q % 2^Bits, Bits))
  <2>1. CASE q = h
    BY <1>3, <1>5, <2>1 DEF IsQuotient, IsLimit
  <2>2. CASE q # h
    BY <1>3, <1>4, <1>5, <2>2 DEF IsQuotient
  <2> QED
    BY <2>1, <2>2
<1>7. left \in -h..h /\ left # h
  BY <1>1, <1>3 DEF Abs
<1>8. Signed(left % 2^Bits, Bits) = left
  BY <1>7, SignedIs
<1>9. q \in -2^Bits..2^Bits
  BY <1>3 DEF IsLimit
<1>10. IsRemainder(a, b, left)
  BY <1>3, <1>9 DEF IsRemainder
<1> QED
  BY <1>3, <1>6, <1>8, <1>10

\* Without sign it never wraps.
LEMMA UnsignedDivision ==
  ASSUME NEW h \in Nat \ {0}, IsLimit(h), NEW x \in 0..(2 * h - 1), NEW y \in 0..(2 * h - 1), y # 0
  PROVE  IsQuotient(x, y, Quotient(x, y)) /\ IsRemainder(x, y, Remainder(x, y))
<1>1. x \in Int /\ y \in Int /\ 2 * h \in Nat \ {0} /\ -(2 * h) <= x /\ x <= 2 * h
  OBVIOUS
<1>2. PICK P \in Nat \ {0} : P = 2 * h /\ -P <= x /\ x <= P
  BY <1>1
<1>6. PICK q, left : DivisionFits(P, x, y, q, left)
  BY <1>1, <1>2, QuotientFits, Zenon
<1>3. /\ q \in -P..P /\ left \in Int
      /\ q = Quotient(x, y) /\ left = Remainder(x, y)
      /\ Abs(left) < Abs(y) /\ left * x >= 0 /\ x = q * y + left
  BY <1>6, Zenon DEF DivisionFits
<1>4. q * y \in Int /\ x - q * y = left
  BY <1>1, <1>3
<1>5. q \in -2^Bits..2^Bits
  BY <1>2, <1>3 DEF IsLimit
<1> QED
  BY <1>3, <1>4, <1>5 DEF IsQuotient, IsRemainder

Divisions == {"div", "divu", "rem", "remu"}

\* The value that the handler may store follows the ISA.
FollowsIsa(op, a, b, v) ==
  /\ b = 0 /\ op \in {"div", "divu"} => v = 2^Bits - 1
  /\ b # 0 /\ op \in {"div", "divu"} => IsQuotient(a, b, Word(op, v))
  /\ b # 0 /\ op \in {"rem", "remu"} => IsRemainder(a, b, Word(op, v))

LEMMA DividedIs ==
  ASSUME NEW op \in Divisions, NEW x \in 0..(2^Bits - 1), NEW y \in 0..(2^Bits - 1),
         NEW v \in Divided(op, x, y, Bits)
  PROVE  FollowsIsa(op, Word(op, x), Word(op, y), v)
<1>1. PICK h \in Nat \ {0} : IsLimit(h)
  BY Limit
<1>2. x \in 0..(2 * h - 1) /\ y \in 0..(2 * h - 1)
  BY <1>1 DEF IsLimit
<1>3. PICK a, b : a = Word(op, x) /\ b = Word(op, y)
  OBVIOUS
<1> SUFFICES FollowsIsa(op, a, b, v)
  BY <1>3
<1>4. CASE op \in {"div", "rem"}
  <2>1. a = Signed(x, Bits) /\ b = Signed(y, Bits) /\ Word(op, v) = Signed(v, Bits)
    BY <1>3, <1>4 DEF Word
  <2>2. /\ b = 0 <=> y = 0
        /\ b # 0 => /\ IsQuotient(a, b, Signed(Quotient(a, b) % 2^Bits, Bits))
                    /\ IsRemainder(a, b, Signed(Remainder(a, b) % 2^Bits, Bits))
    BY <1>1, <1>2, <2>1, SignedDivision
  <2>3. CASE y = 0
    BY <1>4, <2>2, <2>3 DEF Divided, FollowsIsa
  <2>4. CASE y # 0 /\ op = "div"
    <3>1. v = Quotient(a, b) % 2^Bits
      BY <2>1, <2>4 DEF Divided
    <3> QED
      BY <2>1, <2>2, <2>4, <3>1, Zenon DEF FollowsIsa
  <2>5. CASE y # 0 /\ op = "rem"
    <3>1. v = Remainder(a, b) % 2^Bits
      BY <2>1, <2>5 DEF Divided
    <3> QED
      BY <2>1, <2>2, <2>5, <3>1, Zenon DEF FollowsIsa
  <2> QED
    BY <1>3, <1>4, <2>3, <2>4, <2>5
<1>5. CASE op \in {"divu", "remu"}
  <2>1. a = x /\ b = y /\ Word(op, v) = v
    BY <1>3, <1>5 DEF Word
  <2>2. CASE y = 0
    BY <1>5, <2>1, <2>2 DEF Divided, FollowsIsa
  <2>3. y # 0 => IsQuotient(x, y, Quotient(x, y)) /\ IsRemainder(x, y, Remainder(x, y))
    BY <1>1, <1>2, UnsignedDivision, Zenon
  <2>4. CASE y # 0 /\ op = "divu"
    <3>1. v = Quotient(x, y)
      BY <2>4 DEF Divided
    <3> QED
      BY <2>1, <2>3, <2>4, <3>1, Zenon DEF FollowsIsa
  <2>5. CASE y # 0 /\ op = "remu"
    <3>1. v = Remainder(x, y)
      BY <2>5 DEF Divided
    <3> QED
      BY <2>1, <2>3, <2>5, <3>1, Zenon DEF FollowsIsa
  <2> QED
    BY <1>3, <1>5, <2>2, <2>4, <2>5
<1> QED
  BY <1>3, <1>4, <1>5 DEF Divisions

\* instruction_handler.cc and __divdi3: with registers of every width, every word
\* of the frame is after the trap what the property says, those in the place of x0
\* and sp included; a remainder of zero may have any value.
THEOREM DivisionsAreOfTheFrame == Spec => []DivisionsInFrame
<1>1. Init => DivisionsInFrame
  BY DEF Init, None, DivisionsInFrame
<1>2. DivisionsInFrame /\ [Next]_vars => DivisionsInFrame'
  <2> SUFFICES ASSUME DivisionsInFrame, [Next]_vars, call'.of = "trap" PROVE DivisionsInFrame'
    BY DEF DivisionsInFrame
  <2>1. CASE UNCHANGED vars
    BY <2>1 DEF vars, DivisionsInFrame
  <2>2. CASE CallTrap
    <3>1. PICK op \in {"mul", "div", "divu", "rem", "remu"}, rd \in 0..3, rs1 \in 0..3, rs2 \in 0..3,
               a \in 0..(2^Bits - 1), b \in 0..(2^Bits - 1), top \in StackWords, under \in StackWords :
            LET frame == [r \in 0..3 |-> CASE r = 0 -> top [] r = 1 -> a [] r = 2 -> under [] r = 3 -> b]
            IN \E after \in DivInstructionHandler(op, rd, rs1, rs2, frame, Bits) :
                 Returns([of |-> "trap", op |-> op, rd |-> rd, rs1 |-> rs1, rs2 |-> rs2, frame |-> frame], after)
      BY <2>2, Zenon DEF CallTrap
    <3>2. PICK frame : frame = [r \in 0..3 |-> CASE r = 0 -> top [] r = 1 -> a [] r = 2 -> under [] r = 3 -> b]
      OBVIOUS
    <3>3. PICK after \in DivInstructionHandler(op, rd, rs1, rs2, frame, Bits) :
            Returns([of |-> "trap", op |-> op, rd |-> rd, rs1 |-> rs1, rs2 |-> rs2, frame |-> frame], after)
      BY <3>1, <3>2, Zenon
    <3>4. /\ call'.op = op /\ call'.rd = rd /\ call'.rs1 = rs1 /\ call'.rs2 = rs2 /\ call'.frame = frame
          /\ result' = after
      BY <3>3 DEF Returns
    <3>5. DOMAIN frame = 0..3 /\ \A r \in 0..3 : frame[r] \in 0..(2^Bits - 1)
      <4>1. top \in 0..(2^Bits - 1) /\ under \in 0..(2^Bits - 1)
        BY BitsAssumption
      <4>2. frame[0] = top /\ frame[1] = a /\ frame[2] = under /\ frame[3] = b
        BY <3>2
      <4>3. \A r \in 0..3 : r = 0 \/ r = 1 \/ r = 2 \/ r = 3
        OBVIOUS
      <4> QED
        BY <3>2, <4>1, <4>2, <4>3
    <3>6. CASE op = "mul"
      <4>1. after = frame
        BY <3>3, <3>6 DEF DivInstructionHandler
      <4> QED
        BY <3>4, <3>6, <4>1 DEF DivisionsInFrame
    <3>7. CASE op \in Divisions
      <4>1. PICK v \in Divided(op, frame[rs1], frame[rs2], Bits) : after = [frame EXCEPT ![rd] = v]
        BY <3>3, <3>7 DEF Divisions, DivInstructionHandler
      <4>2. FollowsIsa(op, Word(op, frame[rs1]), Word(op, frame[rs2]), v)
        BY <3>5, <3>7, <4>1, DividedIs, Zenon
      <4>3. after[rd] = v /\ \A r \in DOMAIN frame : r # rd => after[r] = frame[r]
        BY <3>5, <4>1
      <4> QED
        BY <3>4, <3>7, <4>2, <4>3 DEF DivisionsInFrame, Divisions, FollowsIsa, IsQuotient, IsRemainder, Word
    <3> QED
      BY <3>6, <3>7 DEF Divisions
  <2> QED
    BY <2>1, <2>2, WhichCall
<1> QED
  BY <1>1, <1>2, PTL DEF Spec


-----------------------------------------------------------------------------
(* The convolution on the SIMD unit *)

\* The limits of the widths of the unit's registers.
LEMMA Widths == 2^8 = 256 /\ 2^9 = 512 /\ 2^15 = 32768 /\ 2^16 = 65536
<1>1. 2^0 = 1
  <2>1. IsFiniteSet({}) /\ Cardinality({}) = 0
    BY FS_EmptySet
  <2>2. Cardinality(SUBSET {}) = 2^0
    BY <2>1, FS_SUBSET, Zenon
  <2>3. SUBSET {} = {{}} /\ Cardinality({{}}) = 1
    BY FS_Singleton
  <2> QED
    BY <2>2, <2>3, Zenon
<1>2. \A n \in Nat : 2^(n + 1) = 2 * 2^n
  BY Powers
<1>3. 2^4 = 16
  <2>1. 2^(0 + 1) = 2 * 2^0 /\ 2^(1 + 1) = 2 * 2^1 /\ 2^(2 + 1) = 2 * 2^2 /\ 2^(3 + 1) = 2 * 2^3
    BY <1>2
  <2>2. 0 + 1 = 1 /\ 1 + 1 = 2 /\ 2 + 1 = 3 /\ 3 + 1 = 4
    OBVIOUS
  <2>3. 2^1 = 2 /\ 2^2 = 2 * 2^1 /\ 2^3 = 2 * 2^2 /\ 2^4 = 2 * 2^3
    BY <1>1, <2>1, <2>2
  <2> QED
    BY <2>3
<1>4. 2^8 = 256 /\ 2^9 = 512
  <2>1. 2^(4 + 1) = 2 * 2^4 /\ 2^(5 + 1) = 2 * 2^5 /\ 2^(6 + 1) = 2 * 2^6 /\ 2^(7 + 1) = 2 * 2^7
        /\ 2^(8 + 1) = 2 * 2^8
    BY <1>2
  <2>2. 4 + 1 = 5 /\ 5 + 1 = 6 /\ 6 + 1 = 7 /\ 7 + 1 = 8 /\ 8 + 1 = 9
    OBVIOUS
  <2>3. 2^5 = 32 /\ 2^6 = 2 * 2^5 /\ 2^7 = 2 * 2^6 /\ 2^8 = 2 * 2^7 /\ 2^9 = 2 * 2^8
    BY <1>3, <2>1, <2>2
  <2> QED
    BY <2>3
<1>5. 2^15 = 32768 /\ 2^16 = 65536
  <2>1. 2^(9 + 1) = 2 * 2^9 /\ 2^(10 + 1) = 2 * 2^10 /\ 2^(11 + 1) = 2 * 2^11 /\ 2^(12 + 1) = 2 * 2^12
        /\ 2^(13 + 1) = 2 * 2^13 /\ 2^(14 + 1) = 2 * 2^14 /\ 2^(15 + 1) = 2 * 2^15
    BY <1>2
  <2>2. 9 + 1 = 10 /\ 10 + 1 = 11 /\ 11 + 1 = 12 /\ 12 + 1 = 13 /\ 13 + 1 = 14 /\ 14 + 1 = 15 /\ 15 + 1 = 16
    OBVIOUS
  <2>3. 2^10 = 1024 /\ 2^11 = 2 * 2^10 /\ 2^12 = 2 * 2^11 /\ 2^13 = 2 * 2^12
        /\ 2^14 = 2 * 2^13 /\ 2^15 = 2 * 2^14 /\ 2^16 = 2 * 2^15
    BY <1>4, <2>1, <2>2
  <2> QED
    BY <2>3
<1> QED
  BY <1>4, <1>5

\* A word that has a sign and fits its register keeps its value.
LEMMA SignedFits ==
  ASSUME NEW n \in Nat, NEW h \in Nat \ {0}, 2^n = 2 * h, 2^(n - 1) = h, NEW x \in Int, -h <= x, x < h
  PROVE  Signed(x, n) = x
<1>1. PICK P \in Nat \ {0} : P = 2^n /\ P = 2 * h
  OBVIOUS
<1>2. x % P = IF x < 0 THEN x + P ELSE x
  <2>1. -P <= x /\ x < P
    BY <1>1
  <2> QED
    BY <2>1, Wrapped
<1>3. PICK u \in Int : u = x % P /\ u = IF x < 0 THEN x + P ELSE x
  BY <1>2
<1>4. Signed(x, n) = IF u >= h THEN u - P ELSE u
  BY <1>1, <1>3, Zenon DEF Signed
<1> QED
  BY <1>1, <1>3, <1>4

\* A lane of the unit multiplies without loss: the sum of a byte and an offset
\* has nine bits, and its product with a byte less than sixteen.
LEMMA SimdIsExact ==
  ASSUME NEW x \in Bytes, NEW y \in Bytes, NEW offset \in ZeroPoints
  PROVE  SimdProduct(x, y, offset) = (x + offset) * y
<1>1. Signed(offset, 9) = offset
  <2>1. offset \in Int /\ -256 <= offset /\ offset < 256 /\ 9 \in Nat /\ 256 \in Nat \ {0} /\ 9 - 1 = 8
    BY DEF ZeroPoints
  <2>2. 2^9 = 2 * 256 /\ 2^(9 - 1) = 256
    BY <2>1, Widths
  <2>3. PICK n \in Nat, h \in Nat \ {0} : n = 9 /\ h = 256
    OBVIOUS
  <2>4. 2^n = 2 * h /\ 2^(n - 1) = h /\ -h <= offset /\ offset < h /\ offset \in Int
    BY <2>1, <2>2, <2>3
  <2>5. Signed(offset, n) = offset
    BY <2>4, SignedFits
  <2> QED
    BY <2>3, <2>5
<1>2. PICK z \in Int : z = (x + offset) * y /\ -32768 <= z /\ z < 32768
  <2>1. PICK a \in Int : a = x + offset /\ -255 <= a /\ a <= 255
    BY DEF Bytes, ZeroPoints
  <2>2. y \in Int /\ -128 <= y /\ y <= 127
    BY DEF Bytes
  <2>3. -255 * 128 <= a * y /\ a * y <= 255 * 128
    BY <2>1, <2>2
  <2> QED
    BY <2>1, <2>2, <2>3
<1>3. Signed(z, 16) = z
  <2>1. 16 \in Nat /\ 32768 \in Nat \ {0} /\ 16 - 1 = 15
    OBVIOUS
  <2>2. 2^16 = 2 * 32768 /\ 2^(16 - 1) = 32768
    BY <2>1, Widths
  <2>3. PICK n \in Nat, h \in Nat \ {0} : n = 16 /\ h = 32768
    OBVIOUS
  <2>4. 2^n = 2 * h /\ 2^(n - 1) = h /\ -h <= z /\ z < h
    BY <1>2, <2>1, <2>2, <2>3
  <2>5. Signed(z, n) = z
    BY <2>4, SignedFits
  <2> QED
    BY <2>3, <2>5
<1> QED
  BY <1>1, <1>2, <1>3 DEF SimdProduct

\* The block of four channels that channel c is in starts at one more than a
\* multiple of four.
BlockOf(c) == c - ((c - 1) % 4)

LEMMA Blocks ==
  ASSUME NEW c \in Nat \ {0}
  PROVE  /\ BlockOf(c) \in 1..c /\ BlockOf(c) % 4 = 1
         /\ \A t \in Nat : t % 4 = 1 => (BlockOf(c) = t <=> t <= c /\ c <= t + 3)
  BY DEF BlockOf

\* A point, and a row of points.
ByteVectors(D) == [1..D -> Bytes]
ByteRows(N, D) == [1..N -> ByteVectors(D)]

\* What a pixel adds is the sum over its channels: the lanes behind the last
\* channel multiply by zero.
LEMMA PixelIs ==
  ASSUME NEW D \in Nat \ {0}, NEW v \in ByteVectors(D), NEW w \in ByteVectors(D), NEW offset \in ZeroPoints
  PROVE  /\ Pixel(v, w, offset) = Total([c \in 1..D |-> (v[c] + offset) * w[c]])
         /\ Pixel(v, w, offset) \in Int
<1> USE DEF ByteVectors
<1> DEFINE T == {j \in 1..D : j % 4 = 1}
           Block(t) == [i \in DOMAIN Lanes(v, t) |-> SimdProduct(Lanes(v, t)[i], Lanes(w, t)[i], offset)]
<1>1. PICK f, S : /\ S = 1..D
                  /\ f = [c \in S |-> (v[c] + offset) * w[c]]
  OBVIOUS
<1>2. \A c \in S : f[c] = (v[c] + offset) * w[c] /\ v[c] \in Bytes /\ w[c] \in Bytes
  BY <1>1
<1>3. Values(f, S)
  <2>1. \A c \in S : f[c] \in Int
    <3>1. \A x, y \in Int : (x + offset) * y \in Int
      BY DEF ZeroPoints
    <3>2. \A b \in Bytes : b \in Int
      BY DEF Bytes
    <3> QED
      BY <1>2, <3>1, <3>2, Zenon
  <2> QED
    BY <1>1, <2>1, FS_Interval DEF Values
<1>4. PICK p : p = [c \in S |-> BlockOf(c)]
  OBVIOUS
<1>5. Sends(p, S, T)
  <2>1. \A c \in S : BlockOf(c) \in 1..c /\ BlockOf(c) % 4 = 1
    BY <1>1, Blocks
  <2> QED
    BY <1>1, <1>4, <2>1 DEF Sends
<1>6. IsFiniteSet(T) /\ T \subseteq S
  BY <1>1, FS_Interval, FS_Subset
<1>7. Total([t \in T |-> Totals(f)[Part(S, p, t)]]) = Totals(f)[S] /\ Totals(f)[S] \in Int
  <2> HIDE DEF T
  <2>1. S \in SUBSET S
    OBVIOUS
  <2> QED
    BY <1>3, <1>5, <1>6, <2>1, TotalByParts, TotalsWithout
<1>8. ASSUME NEW t \in T PROVE Totals(f)[Part(S, p, t)] = Total(Block(t))
  <2>1. t \in Nat \ {0} /\ t % 4 = 1 /\ t \in S
    BY <1>1
  <2>2. PICK U \in SUBSET S : U = Part(S, p, t)
    BY DEF Part
  <2>3. \A c \in S : c \in U <=> t <= c /\ c <= t + 3
    <3>1. \A c \in S : c \in U <=> BlockOf(c) = t
      BY <1>4, <2>2 DEF Part
    <3>2. \A c \in S : BlockOf(c) = t <=> t <= c /\ c <= t + 3
      BY <1>1, <2>1, Blocks
    <3> QED
      BY <3>1, <3>2
  <2>4. PICK r : r = [c \in S |-> c - t]
    OBVIOUS
  <2>5. Sends(r, U, 0..3)
    BY <1>1, <2>1, <2>3, <2>4 DEF Sends
  <2>6. PICK g : g = [k \in 0..3 |-> Totals(f)[Part(U, r, k)]] /\ Total(g) = Totals(f)[U]
    <3> HIDE DEF T, Block
    <3>1. PICK K : K = 0..3 /\ IsFiniteSet(K)
      <4>1. 0 \in Int /\ 3 \in Int
        OBVIOUS
      <4>2. IsFiniteSet(0..3)
        BY <4>1, FS_Interval
      <4> QED
        BY <4>2
    <3>2. Total([k \in K |-> Totals(f)[Part(U, r, k)]]) = Totals(f)[U]
      <4>1. Sends(r, U, K)
        BY <2>5, <3>1
      <4> QED
        BY <1>3, <3>1, <4>1, TotalByParts
    <3> QED
      BY <3>1, <3>2
  <2>7. PICK l : l = Block(t)
    OBVIOUS
  <2>8. PICK a, b : /\ a = Lanes(v, t) /\ a = [lane \in 0..3 |-> IF t + lane <= D THEN v[t + lane] ELSE 0]
                    /\ b = Lanes(w, t) /\ b = [lane \in 0..3 |-> IF t + lane <= D THEN w[t + lane] ELSE 0]
    <3>1. Len(v) = D /\ Len(w) = D
      OBVIOUS
    <3> QED
      BY <3>1, Zenon DEF Lanes
  <2>9. l = [k \in 0..3 |-> SimdProduct(a[k], b[k], offset)]
    <3>1. DOMAIN a = 0..3
      BY <2>8, Zenon
    <3> QED
      BY <2>7, <2>8, <3>1, Zenon
  <2>10. ASSUME NEW k \in 0..3 PROVE g[k] = l[k]
    <3>1. g[k] = Totals(f)[Part(U, r, k)] /\ l[k] = SimdProduct(a[k], b[k], offset)
      BY <2>6, <2>9
    <3>2. CASE t + k <= D
      <4>1. PICK c \in S : c = t + k
        BY <1>1, <2>1, <3>2
      <4>2. Part(U, r, k) = {c}
        <5>1. \A x \in S : x \in Part(U, r, k) <=> x = c
          BY <1>1, <2>1, <2>3, <2>4, <4>1 DEF Part
        <5>2. Part(U, r, k) \subseteq S
          BY DEF Part
        <5> QED
          BY <5>1, <5>2
      <4>3. Totals(f)[{c}] = f[c]
        <5>1. {c} \in SUBSET S /\ \A y \in {c} : y # c => f[y] = 0
          OBVIOUS
        <5> QED
          BY <1>3, <5>1, TotalOfOne
      <4>4. a[k] = v[c] /\ b[k] = w[c]
        BY <2>8, <3>2, <4>1
      <4>5. SimdProduct(v[c], w[c], offset) = (v[c] + offset) * w[c]
        BY <1>2, SimdIsExact
      <4> QED
        BY <1>2, <3>1, <4>2, <4>3, <4>4, <4>5, Zenon
    <3>3. CASE ~(t + k <= D)
      <4>1. Part(U, r, k) = {}
        <5>1. \A x \in U : x \in S /\ r[x] = x - t
          BY <2>4
        <5>2. \A x \in U : r[x] # k
          BY <1>1, <2>1, <3>3, <5>1
        <5> QED
          BY <5>2 DEF Part
      <4>2. Totals(f)[{}] = 0
        BY <1>3, TotalsWithout
      <4>3. a[k] = 0 /\ b[k] = 0
        BY <2>8, <3>3
      <4>4. SimdProduct(0, 0, offset) = 0
        <5>1. 0 \in Bytes
          BY DEF Bytes
        <5>2. SimdProduct(0, 0, offset) = 0
          <6>1. SimdProduct(0, 0, offset) = (0 + offset) * 0
            BY <5>1, SimdIsExact, Zenon
          <6>2. offset \in Int
            BY DEF ZeroPoints
          <6> QED
            BY <6>1, <6>2
        <5> QED
          BY <5>2
      <4> QED
        BY <3>1, <4>1, <4>2, <4>3, <4>4, Zenon
    <3> QED
      BY <3>2, <3>3
  <2>11. g = l
    <3>1. DOMAIN g = 0..3 /\ DOMAIN l = 0..3 /\ g = [k \in 0..3 |-> g[k]] /\ l = [k \in 0..3 |-> l[k]]
      BY <2>6, <2>9
    <3> QED
      BY <2>10, <3>1
  <2> QED
    BY <2>2, <2>6, <2>7, <2>11, Zenon
<1>9. Pixel(v, w, offset) = Total([t \in T |-> Total(Block(t))])
  <2>1. Len(v) = D
    OBVIOUS
  <2> QED
    BY <2>1, Zenon DEF Pixel, SimdProducts
<1>10. [t \in T |-> Totals(f)[Part(S, p, t)]] = [t \in T |-> Total(Block(t))]
  <2> HIDE DEF T, Block
  <2> QED
    BY <1>8
<1>11. Total(f) = Totals(f)[S]
  <2>1. DOMAIN f = S
    BY <1>1
  <2> QED
    BY <2>1, TotalIs
<1> QED
  BY <1>1, <1>7, <1>9, <1>10, <1>11, Zenon


\* The comparison of remainders, with which the kernel asks two questions at once.
LEMMA InImageIs ==
  ASSUME NEW X \in RowSides, NEW x \in Int, -2 <= x, x <= 32770
  PROVE  InImage(x, X, 16) <=> x \in 0..(X - 1)
<1>1. PICK P \in Nat \ {0} : P = 65536 /\ P = 2^16
  BY Widths
<1>2. X \in Nat \ {0} /\ X <= 16384
  BY DEF RowSides
<1>3. x % P = IF x < 0 THEN x + P ELSE x
  <2>1. -P <= x /\ x < P
    BY <1>1
  <2> QED
    BY <1>1, <2>1, Wrapped
<1>4. X % P = X
  <2>1. X \in Int /\ -P <= X /\ X < P /\ ~(X < 0)
    BY <1>1, <1>2
  <2>2. X % P = IF X < 0 THEN X + P ELSE X
    BY <1>1, <2>1, Wrapped
  <2> QED
    BY <2>1, <2>2
<1>5. PICK y \in Int : y = x % P /\ y = IF x < 0 THEN x + P ELSE x
  BY <1>3
<1>6. InImage(x, X, 16) <=> y < X
  BY <1>1, <1>4, <1>5 DEF InImage
<1> QED
  BY <1>1, <1>2, <1>5, <1>6

\* The point at position x, where the zero point is on both sides of the image.
Padded(input, X, D, offset, x) == IF x \in 0..(X - 1) THEN input[x + 1] ELSE [c \in 1..D |-> -offset]

\* What the filter's point makes of it.
PointSum(input, w, X, D, offset, x) ==
  Total([c \in 1..D |-> (Padded(input, X, D, offset, x)[c] + offset) * w[c]])

\* A point outside the image adds nothing.
LEMMA OutsideIsZero ==
  ASSUME NEW X \in RowSides, NEW D \in Nat \ {0}, NEW input, NEW w \in ByteVectors(D), NEW offset \in ZeroPoints,
         NEW x \in Int, x \notin 0..(X - 1)
  PROVE  PointSum(input, w, X, D, offset, x) = 0
<1>1. PICK v : v = Padded(input, X, D, offset, x) /\ v = [c \in 1..D |-> -offset]
  BY Zenon DEF Padded
<1>2. PICK f, S : S = 1..D /\ f = [c \in S |-> (v[c] + offset) * w[c]]
  OBVIOUS
<1>3. \A y \in Int : (-offset + offset) * y = 0
  BY DEF ZeroPoints
<1>4. \A c \in S : f[c] = 0
  <2>1. \A c \in S : w[c] \in Int
    <3>1. \A b \in Bytes : b \in Int
      BY DEF Bytes
    <3> QED
      BY <1>2, <3>1 DEF ByteVectors
  <2>2. \A c \in S : v[c] = -offset
    BY <1>1, <1>2
  <2> QED
    BY <1>2, <1>3, <2>1, <2>2
<1>5. Values(f, S)
  <2>1. IsFiniteSet(S) /\ DOMAIN f = S
    BY <1>2, FS_Interval
  <2>2. \A c \in S : f[c] \in Int
    BY <1>4
  <2> QED
    BY <2>1, <2>2 DEF Values
<1>6. Totals(f)[S] = 0 /\ Total(f) = Totals(f)[S]
  <2>1. S \in SUBSET S /\ S = DOMAIN f
    BY <1>2
  <2> QED
    BY <1>4, <1>5, <2>1, TotalOfZeros, TotalIs
<1> QED
  BY <1>1, <1>2, <1>6, Zenon DEF PointSum

IsCall(out_x, stride, pad, dilation) ==
  out_x \in 0..2 /\ stride \in 1..2 /\ pad \in 0..2 /\ dilation \in 1..2

\* A position of the output is the sum over the filter's points, although the
\* kernel skips those outside the image.
LEMMA ConvRowIs ==
  ASSUME NEW X \in RowSides, NEW F \in RowSides, NEW D \in Nat \ {0},
         NEW input \in ByteRows(X, D), NEW filter \in ByteRows(F, D), NEW offset \in ZeroPoints,
         NEW out_x, NEW stride, NEW pad, NEW dilation, IsCall(out_x, stride, pad, dilation)
  PROVE  ConvRow(input, filter, out_x, stride, pad, dilation, offset)
           = Total([t \in 1..F |->
               PointSum(input, filter[t], X, D, offset, out_x * stride - pad + dilation * (t - 1))])
<1> DEFINE in_x(fx) == out_x * stride - pad + dilation * fx
<1>1. PICK P, T : P = 0..(F - 1) /\ T = 1..F /\ IsFiniteSet(P) /\ IsFiniteSet(T)
  <2>1. F \in Int /\ F - 1 \in Int
    BY DEF RowSides
  <2>2. IsFiniteSet(0..(F - 1)) /\ IsFiniteSet(1..F)
    BY <2>1, FS_Interval
  <2> QED
    BY <2>2
<1>2. \A fx \in P : in_x(fx) \in Int /\ -2 <= in_x(fx) /\ in_x(fx) <= 32770
  <2>1. PICK first \in Int : first = out_x * stride - pad /\ -2 <= first /\ first <= 4
    BY DEF IsCall
  <2>2. \A fx \in P : fx \in Int /\ 0 <= fx /\ fx <= 16383
    <3>1. F \in Int /\ F <= 16384
      BY DEF RowSides
    <3> QED
      BY <1>1, <3>1
  <2>3. \A fx \in P : dilation * fx \in Int /\ 0 <= dilation * fx /\ dilation * fx <= 2 * 16383
    BY <2>2 DEF IsCall
  <2>4. \A fx \in P : in_x(fx) = first + dilation * fx
    BY <2>1
  <2> HIDE DEF in_x
  <2> QED
    BY <2>1, <2>3, <2>4
<1>3. PICK inside \in SUBSET P : inside = {fx \in P : in_x(fx) \in 0..(X - 1)}
  OBVIOUS
<1>4. inside = {fx \in 0..(Len(filter) - 1) : InImage(in_x(fx), Len(input), 16)}
  <2>1. Len(filter) = F /\ Len(input) = X
    BY DEF RowSides, ByteRows
  <2>2. \A fx \in P : InImage(in_x(fx), X, 16) <=> in_x(fx) \in 0..(X - 1)
    <3> HIDE DEF in_x
    <3> QED
      BY <1>2, InImageIs
  <2> HIDE DEF in_x
  <2> QED
    BY <1>1, <1>3, <2>1, <2>2, Zenon
<1>5. PICK f : f = [fx \in inside |-> Pixel(input[in_x(fx) + 1], filter[fx + 1], offset)]
  OBVIOUS
<1>6. ConvRow(input, filter, out_x, stride, pad, dilation, offset) = Total(f)
  BY <1>4, <1>5, Zenon DEF ConvRow
<1> HIDE DEF in_x
<1>7. ASSUME NEW fx \in inside
      PROVE  f[fx] \in Int /\ f[fx] = PointSum(input, filter[fx + 1], X, D, offset, in_x(fx))
  <2>1. PICK x \in 0..(X - 1) : x = in_x(fx)
    BY <1>3
  <2>2. PICK v, w : v = input[x + 1] /\ w = filter[fx + 1] /\ v \in ByteVectors(D) /\ w \in ByteVectors(D)
    <3>1. x + 1 \in 1..X /\ fx + 1 \in 1..F
      BY <1>1, <1>3, <2>1 DEF RowSides
    <3> QED
      BY <3>1 DEF ByteRows
  <2>3. f[fx] = Pixel(v, w, offset)
    BY <1>5, <2>1, <2>2
  <2>4. Pixel(v, w, offset) = Total([c \in 1..D |-> (v[c] + offset) * w[c]]) /\ Pixel(v, w, offset) \in Int
    BY <2>2, PixelIs, Zenon
  <2>5. Padded(input, X, D, offset, x) = v
    BY <2>1, <2>2, Zenon DEF Padded
  <2> QED
    BY <2>1, <2>2, <2>3, <2>4, <2>5, Zenon DEF PointSum
<1>8. Values(f, inside)
  <2>1. IsFiniteSet(inside)
    BY <1>1, <1>3, FS_Subset
  <2> QED
    BY <1>5, <1>7, <2>1 DEF Values
<1>9. PICK p : p = [fx \in inside |-> fx + 1] /\ Sends(p, inside, T)
  <2>1. \A fx \in inside : fx + 1 \in T
    BY <1>1, <1>3 DEF RowSides
  <2>2. PICK p : p = [fx \in inside |-> fx + 1]
    OBVIOUS
  <2>3. Sends(p, inside, T)
    BY <2>1, <2>2 DEF Sends
  <2> QED
    BY <2>2, <2>3
<1>10. Total([t \in T |-> Totals(f)[Part(inside, p, t)]]) = Totals(f)[inside] /\ Total(f) = Totals(f)[inside]
  <2>1. inside \in SUBSET inside /\ inside = DOMAIN f
    BY <1>5
  <2>2. Total(f) = Totals(f)[inside]
    BY <2>1, TotalIs
  <2>3. Total([t \in T |-> Totals(f)[Part(inside, p, t)]]) = Totals(f)[inside]
    <3>1. IsFiniteSet(T) /\ Sends(p, inside, T) /\ inside \in SUBSET inside
      BY <1>1, <1>9
    <3> QED
      BY <1>8, <3>1, TotalByParts
  <2> QED
    BY <2>2, <2>3
<1>11. ASSUME NEW t \in T
       PROVE  Totals(f)[Part(inside, p, t)] = PointSum(input, filter[t], X, D, offset, in_x(t - 1))
  <2>1. PICK fx \in P : fx = t - 1 /\ fx + 1 = t
    BY <1>1 DEF RowSides
  <2>2. CASE fx \in inside
    <3>1. Part(inside, p, t) = {fx}
      <4>1. \A y \in inside : y \in Int /\ p[y] = y + 1
        BY <1>1, <1>3, <1>9 DEF RowSides
      <4>2. \A y \in inside : p[y] = t <=> y = fx
        BY <1>1, <2>1, <4>1 DEF RowSides
      <4> QED
        BY <2>2, <4>2 DEF Part
    <3>2. Totals(f)[{fx}] = f[fx]
      <4>1. {fx} \in SUBSET inside /\ \A y \in {fx} : y # fx => f[y] = 0
        BY <2>2
      <4> QED
        BY <1>8, <4>1, TotalOfOne
    <3>3. f[fx] = PointSum(input, filter[fx + 1], X, D, offset, in_x(fx))
      BY <1>7, <2>2
    <3> QED
      BY <2>1, <3>1, <3>2, <3>3, Zenon
  <2>3. CASE fx \notin inside
    <3>1. Part(inside, p, t) = {}
      <4>1. \A y \in inside : y \in Int /\ p[y] = y + 1
        BY <1>1, <1>3, <1>9 DEF RowSides
      <4>2. \A y \in inside : p[y] # t
        BY <1>1, <2>1, <2>3, <4>1 DEF RowSides
      <4> QED
        BY <4>2 DEF Part
    <3>2. Totals(f)[{}] = 0
      BY <1>8, TotalsWithout
    <3>3. in_x(fx) \in Int /\ in_x(fx) \notin 0..(X - 1)
      BY <1>2, <1>3, <2>3
    <3>4. filter[t] \in ByteVectors(D)
      BY <1>1 DEF ByteRows
    <3>5. PointSum(input, filter[t], X, D, offset, in_x(fx)) = 0
      BY <3>3, <3>4, OutsideIsZero
    <3> QED
      BY <2>1, <3>1, <3>2, <3>5, Zenon
  <2> QED
    BY <2>2, <2>3
<1>12. [t \in T |-> Totals(f)[Part(inside, p, t)]]
         = [t \in 1..F |-> PointSum(input, filter[t], X, D, offset, in_x(t - 1))]
  BY <1>1, <1>11
<1>13. Total([t \in 1..F |-> PointSum(input, filter[t], X, D, offset, in_x(t - 1))]) = Total(f)
  BY <1>10, <1>12, Zenon
<1> QED
  BY <1>6, <1>13, Zenon DEF in_x

\* conv.h along a row, on the SIMD unit of cfu.v: the convolution of the whole row
\* with the zero point on both sides, for rows and filters of every length that
\* fits, any number of channels and all their bytes.
THEOREM ConvolutionSums == Spec => []ConvolutionIsExact
<1>1. Init => ConvolutionIsExact
  BY DEF Init, None, ConvolutionIsExact
<1>2. ConvolutionIsExact /\ [Next]_vars => ConvolutionIsExact'
  <2> SUFFICES ASSUME ConvolutionIsExact, [Next]_vars, call'.of = "conv"
               PROVE  ConvolutionIsExact'
    BY DEF ConvolutionIsExact
  <2>1. CASE UNCHANGED vars
    BY <2>1 DEF vars, ConvolutionIsExact
  <2>2. CASE CallConv
    <3>1. PICK row \in Rows, offset \in Offsets, stride \in 1..2, pad \in 0..2, dilation \in 1..2, out_x \in 0..2 :
            Returns([of |-> "conv", row |-> row, offset |-> offset, first |-> out_x * stride - pad,
                     dilation |-> dilation],
                    ConvRow(row.input, row.filter, out_x, stride, pad, dilation, offset))
      BY <2>2 DEF CallConv
    <3>2. PICK input, filter, first : input = row.input /\ filter = row.filter /\ first = out_x * stride - pad
      OBVIOUS
    <3>3. PICK X, F, D : X = Len(input) /\ F = Len(filter) /\ D = Len(filter[1])
      OBVIOUS
    <3>4. /\ X \in RowSides /\ F \in RowSides /\ D \in Nat \ {0}
          /\ input \in ByteRows(X, D) /\ filter \in ByteRows(F, D)
      <4>1. PICK r \in Rows : r = row /\ input = r.input /\ filter = r.filter
        BY <3>2
      <4>2. IsRow(r, X, F, D)
        <5>1. X = Len(r.input) /\ F = Len(r.filter) /\ D = Len(r.filter[1])
          BY <3>3, <4>1, Zenon
        <5> QED
          BY <5>1, RowsAssumption, Zenon
      <4>3. /\ X \in RowSides /\ F \in RowSides /\ D \in Nat \ {0}
            /\ r.input \in RowPoints(X, D) /\ r.filter \in RowPoints(F, D)
        BY <4>2 DEF IsRow
      <4> QED
        BY <4>1, <4>3, Zenon DEF RowPoints, Bytes, ByteRows, ByteVectors
    <3>5. offset \in ZeroPoints
      BY OffsetsAssumption DEF ZeroPoints
    <3>6. /\ call'.row.input = input /\ call'.row.filter = filter /\ call'.offset = offset
          /\ call'.first = first /\ call'.dilation = dilation
          /\ result' = ConvRow(input, filter, out_x, stride, pad, dilation, offset)
      BY <3>1, <3>2 DEF Returns
    <3>7. result' = Total([t \in 1..F |-> PointSum(input, filter[t], X, D, offset, first + dilation * (t - 1))])
      <4>1. ConvRow(input, filter, out_x, stride, pad, dilation, offset)
              = Total([t \in 1..F |->
                  PointSum(input, filter[t], X, D, offset, out_x * stride - pad + dilation * (t - 1))])
        <5>1. IsCall(out_x, stride, pad, dilation)
          BY DEF IsCall
        <5> QED
          BY <3>4, <3>5, <5>1, ConvRowIs
      <4> QED
        BY <3>2, <3>6, <4>1, Zenon
    <3>8. DOMAIN filter = 1..F /\ \A t \in 1..F : DOMAIN filter[t] = 1..D
      BY <3>4 DEF ByteRows, ByteVectors
    <3>9. DOMAIN filter[1] = 1..D
      <4>1. 1 \in 1..F
        BY <3>4 DEF RowSides
      <4> QED
        BY <3>8, <4>1, Zenon
    <3> DEFINE padded(x) == IF x \in 0..(Len(call'.row.input) - 1) THEN call'.row.input[x + 1]
                            ELSE [c \in DOMAIN call'.row.filter[1] |-> -call'.offset]
               term(fx, c) == (padded(call'.first + call'.dilation * (fx - 1))[c] + call'.offset)
                              * call'.row.filter[fx][c]
    <3>10. \A x : padded(x) = Padded(input, X, D, offset, x)
      BY <3>3, <3>6, <3>9, Zenon DEF Padded
    <3>11. \A fx, c : term(fx, c)
             = (Padded(input, X, D, offset, first + dilation * (fx - 1))[c] + offset) * filter[fx][c]
      <4> HIDE DEF padded
      <4> QED
        BY <3>6, <3>10, Zenon
    <3>12. \A fx : fx \in 1..F => Total([c \in DOMAIN call'.row.filter[fx] |-> term(fx, c)])
                       = PointSum(input, filter[fx], X, D, offset, first + dilation * (fx - 1))
      <4> HIDE DEF term
      <4> QED
        BY <3>6, <3>8, <3>11, Zenon DEF PointSum
    <3>13. result' = Total([fx \in DOMAIN call'.row.filter |->
                        Total([c \in DOMAIN call'.row.filter[fx] |-> term(fx, c)])])
      <4> HIDE DEF term
      <4>1. DOMAIN call'.row.filter = 1..F
        BY <3>6, <3>8, Zenon
      <4> QED
        BY <3>7, <3>12, <4>1, Zenon
    <3> QED
      BY <3>13, Zenon DEF ConvolutionIsExact
  <2> QED
    BY <2>1, <2>2, WhichCall
<1> QED
  BY <1>1, <1>2, PTL DEF Spec
=============================================================================
