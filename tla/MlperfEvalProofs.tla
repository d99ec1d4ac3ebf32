-------------------------- MODULE MlperfEvalProofs --------------------------
(***************************************************************************)
(* For samples, buffers and lines of every size, and any number of         *)
(* restarts: if the sleep of the script is long enough, the script and the *)
(* device are in step, and the results are those of the samples.           *)
(*                                                                         *)
(* The argument: when the script wakes, the line is empty both ways and so *)
(* is the command buffer (Clean), whatever the runs before left there.     *)
(* From then on everything is known: whether the script's line is still    *)
(* being received (Receiving), or its answer is waiting (Answer), and what *)
(* the buffer holds meanwhile (Holds).                                     *)
(*                                                                         *)
(* However short the sleep, no byte is stored outside the buffer.  There   *)
(* is then no saying what is on the line, but how far it can take the      *)
(* position there is (Bounded): every token still to be worked on carries  *)
(* a bound, which a byte raises and a whole load command takes back to     *)
(* zero, and which never exceeds the bytes of an input.                    *)
(***************************************************************************)
EXTENDS MlperfEval, SequenceTheorems, FiniteSetTheorems, WellFoundedInduction, TLAPS

Started == pc # "open"
Keywords == {"x", "name", "db", "load", "infer", "nibble"}
Tokens == [w : Keywords \cup {"num", "byte", "space", "end"}, v : Int]

(* What is received last ends a command, so that nothing is left in the    *)
(* command buffer when there is nothing more to receive.                   *)
Clean ==
    /\ rx \in Seq(Tokens)
    /\ tx # <<>> => mlperf
    /\ pc \notin {"open", "entering"} => mlperf
    /\ Started /\ rx # <<>> => rx[Len(rx)] = End
    /\ Started /\ mlperf /\ rx = <<>> => g_cmd_buf = <<>>

Script ==
    /\ sent \in 0..kIcInputSize
    /\ testcase \in Nat \ {0}
    /\ pc \in {"open", "entering", "asleep", "naming"} => testcase = 1 /\ results = <<>>
    /\ pc \in {"loading", "sending", "sent", "inferring"} => testcase <= Len(Samples)
    /\ pc = "loading" => sent = 0
    /\ pc = "inferring" => sent = kIcInputSize

Quiet == rx = <<>> /\ tx = <<>> /\ g_cmd_buf = <<>>

Receiving(line) ==
    /\ tx = <<>>
    /\ \E k \in 0..(Len(line) - 1) :
          g_cmd_buf = SubSeq(line, 1, k) /\ rx = SubSeq(line, k + 1, Len(line))

(* The answer has arrived, with one Ready at its end.                      *)
Answering ==
    /\ rx = <<>> /\ g_cmd_buf = <<>>
    /\ Len(tx) \in Nat \ {0} /\ DOMAIN tx = 1..Len(tx)
    /\ \A i \in 1..Len(tx) : tx[i] = Ready <=> i = Len(tx)

Sample == Samples[testcase]
Holds(p) ==
    /\ g_buff_size = kIcInputSize /\ g_buff_pos = p
    /\ \A i \in 1..p : gp_buff[i - 1] = Sample[i]

Part(p) == SubSeq(Sample, p + 1, sent)

InferAnswer(v) ==
    <<[m |-> "m-warmup-start", v |-> <<0>>], Message("m-lap-us"), Message("m-lap-us"),
      [m |-> "m-results", v |-> v], Ready>>

InStepWith ==
    /\ pc = "naming" => Receiving(NameLine) \/ Answering
    /\ pc \in {"next", "done"} => Quiet
    /\ pc = "loading" => Receiving(LoadLine) \/ (Answering /\ Holds(0))
    /\ pc = "sending" => Quiet /\ Holds(sent)
    /\ pc = "sent" =>
          \/ Answering /\ Holds(sent)
          \/ \E p \in 0..(sent - 1) :
                Holds(p) /\ sent - p <= SendBytes /\ Receiving(DataLine(Part(p)))
    /\ pc = "inferring" =>
          /\ Holds(kIcInputSize)
          /\ \/ Receiving(InferLine)
             \/ Answering /\ tx = InferAnswer(Network(Quantized(Sample)))

Tensor == [1..kIcInputSize -> Int]
Evaluated ==
    /\ results \in Seq(Tensor) /\ Len(results) = testcase - 1
    /\ \A i \in 1..Len(results) : results[i] = Network(Quantized(Samples[i]))

IInv ==
    /\ Clean /\ Script
    /\ DOMAIN gp_buff = 0..(MaxDbInputSize - 1)
    /\ longSleep => InStepWith /\ Evaluated

-----------------------------------------------------------------------------
(* Lines: sequences of tokens of which only the last ends the command, and   *)
(* that fit the command buffer.                                              *)
IsLine(line) ==
    /\ line \in Seq(Tokens)
    /\ Len(line) \in 2..(CmdSize + 1)
    /\ \A i \in 1..Len(line) : line[i] = End <=> i = Len(line)

LEMMA Sizes ==
    /\ kIcInputSize \in Nat \ {0} /\ MaxDbInputSize \in Nat /\ MaxDbInputSize >= kIcInputSize
    /\ CmdSize \in Nat /\ SendBytes \in Nat \ {0} /\ Exits \in Nat
    /\ CmdSize >= 5 /\ CmdSize >= SendBytes + 2
    /\ Samples \in Seq([1..kIcInputSize -> Int])
<1>1. [1..kIcInputSize -> Bytes] \subseteq [1..kIcInputSize -> Int]
  <2>1. Bytes \subseteq Int
    BY DEF Bytes
  <2>2. \A D, S, T : S \subseteq T => [D -> S] \subseteq [D -> T]
    OBVIOUS
  <2> QED
    BY <2>1, <2>2
<1>2. \A S, T : S \subseteq T => Seq(S) \subseteq Seq(T)
  OBVIOUS
<1>3. Samples \in Seq([1..kIcInputSize -> Int])
  BY <1>1, <1>2, EvalAssumption DEF EvalAssumption
<1> QED
  BY <1>3, SizesAssumption, EvalAssumption DEF SizesAssumption, EvalAssumption

LEMMA TokensAre ==
    /\ \A w \in Keywords : Token(w) \in Tokens /\ Token(w) # End /\ Token(w) # Space
    /\ \A n \in Int : /\ Num(n) \in Tokens /\ Num(n) # End /\ Num(n) # Space
                       /\ Hex(n) \in Tokens /\ Hex(n) # End /\ Hex(n) # Space
    /\ Space \in Tokens /\ End \in Tokens /\ Space # End
<1>1. ASSUME NEW w \in Keywords \cup {"num", "byte", "space", "end"}, NEW n \in Int PROVE [w |-> w, v |-> n] \in Tokens
  BY DEF Tokens
<1>2. ASSUME NEW w, NEW n PROVE [w |-> w, v |-> n].w = w
  OBVIOUS
<1>31. \A w \in Keywords : w # "end" /\ w # "space"
  BY DEF Keywords
<1>33. "num" # "end" /\ "byte" # "end" /\ "num" # "space" /\ "byte" # "space" /\ "space" # "end"
  OBVIOUS
<1>3. /\ \A w \in Keywords : w # "end" /\ w # "space"
      /\ "num" # "end" /\ "byte" # "end" /\ "num" # "space" /\ "byte" # "space"
      /\ "space" # "end" /\ 0 \in Int
  BY <1>31, <1>33
<1>4. \A w \in Keywords : Token(w) \in Tokens /\ Token(w) # End /\ Token(w) # Space
  BY <1>1, <1>2, <1>3, Zenon DEF Token, End, Space
<1>5. ASSUME NEW n \in Int
      PROVE  /\ Num(n) \in Tokens /\ Num(n) # End /\ Num(n) # Space
             /\ Hex(n) \in Tokens /\ Hex(n) # End /\ Hex(n) # Space
  <2>1. Num(n).w = "num" /\ Hex(n).w = "byte" /\ End.w = "end" /\ Space.w = "space"
    BY DEF Num, Hex, End, Space, Token
  <2>2. Num(n) \in Tokens /\ Hex(n) \in Tokens
    BY <1>1, <1>3 DEF Num, Hex
  <2> QED
    BY <1>3, <2>1, <2>2
<1>6. Space \in Tokens /\ End \in Tokens /\ Space # End
  BY <1>1, <1>2, <1>3, Zenon DEF Token, End, Space
<1> QED
  BY <1>4, <1>5, <1>6

LEMMA FixedLines ==
    /\ IsLine(NameLine) /\ Len(NameLine) = 2
    /\ IsLine(LoadLine) /\ Len(LoadLine) = 6
    /\ IsLine(InferLine) /\ Len(InferLine) = 6
<1>0. CmdSize \in Nat /\ CmdSize >= 5 /\ kIcInputSize \in Int /\ 0 \in Int /\ 1 \in Int
  BY Sizes
<1>00. {"name", "db", "load", "infer"} \subseteq Keywords
  BY DEF Keywords
<1>1. IsLine(NameLine) /\ Len(NameLine) = 2
  <2>1. Token("name") \in Tokens /\ Token("name") # End
    BY <1>0, <1>00, TokensAre
  <2>2. End \in Tokens /\ Space \in Tokens /\ Space # End
    BY TokensAre
  <2> QED
    BY <1>0, <2>1, <2>2 DEF IsLine, NameLine
<1>2. IsLine(LoadLine) /\ Len(LoadLine) = 6
  <2>1. /\ Token("db") \in Tokens /\ Token("db") # End
        /\ Token("load") \in Tokens /\ Token("load") # End
        /\ Num(kIcInputSize) \in Tokens /\ Num(kIcInputSize) # End
    BY <1>0, <1>00, TokensAre
  <2>2. End \in Tokens /\ Space \in Tokens /\ Space # End
    BY TokensAre
  <2> QED
    BY <1>0, <2>1, <2>2 DEF IsLine, LoadLine
<1>3. IsLine(InferLine) /\ Len(InferLine) = 6
  <2>1. /\ Token("infer") \in Tokens /\ Token("infer") # End
        /\ Num(0) \in Tokens /\ Num(0) # End
        /\ Num(1) \in Tokens /\ Num(1) # End
    BY <1>0, <1>00, TokensAre
  <2>2. End \in Tokens /\ Space \in Tokens /\ Space # End
    BY TokensAre
  <2> QED
    BY <1>0, <2>1, <2>2 DEF IsLine, InferLine
<1> QED
  BY <1>1, <1>2, <1>3

(* A data line: db, the bytes, and the end.                                  *)
LEMMA DataLineIs ==
    ASSUME NEW n \in 1..SendBytes, NEW bytes \in [1..n -> Int]
    PROVE  /\ IsLine(DataLine(bytes)) /\ Len(DataLine(bytes)) = n + 3
           /\ DataLine(bytes)[1] = Token("db") /\ DataLine(bytes)[2] = Space
           /\ \A i \in 1..n : DataLine(bytes)[i + 2] = Hex(bytes[i])
<1>0. /\ SendBytes \in Nat /\ CmdSize \in Nat /\ CmdSize >= SendBytes + 2
      /\ \A b \in Int : Hex(b) \in Tokens /\ Hex(b) # End
  BY Sizes, TokensAre
<1>01. /\ Token("db") \in Tokens /\ Token("db") # End
       /\ Space \in Tokens /\ End \in Tokens /\ Space # End
  BY TokensAre DEF Keywords
<1> DEFINE hexes == [i \in 1..n |-> Hex(bytes[i])]
<1>1. hexes \in Seq(Tokens) /\ Len(hexes) = n /\ Len(bytes) = n /\ n \in Nat
  BY <1>0
<1>2. <<Token("db"), Space>> \in Seq(Tokens) /\ <<End>> \in Seq(Tokens)
  BY <1>01
<1>3. DataLine(bytes) = <<Token("db"), Space>> \o hexes \o <<End>>
  BY <1>1 DEF DataLine
<1>4. \A i \in 1..n : hexes[i] = Hex(bytes[i]) /\ hexes[i] # End
  BY <1>0
<1> HIDE DEF hexes
<1>50. <<Token("db"), Space>> \o hexes \in Seq(Tokens)
  BY <1>1, <1>2, ConcatProperties
<1>5. PICK front \in Seq(Tokens) : front = <<Token("db"), Space>> \o hexes
  BY <1>50
<1>6. /\ Len(front) = n + 2 /\ front[1] = Token("db") /\ front[2] = Space
      /\ \A i \in 1..n : front[i + 2] = hexes[i]
  BY <1>1, <1>2, <1>5
<1>7. /\ DataLine(bytes) \in Seq(Tokens) /\ Len(DataLine(bytes)) = n + 3
      /\ \A i \in 1..(n + 2) : DataLine(bytes)[i] = front[i]
      /\ DataLine(bytes)[n + 3] = End
  BY <1>2, <1>3, <1>5, <1>6
<1>8. \A i \in 1..(n + 2) : front[i] # End
  <2>1. TAKE i \in 1..(n + 2)
  <2>2. CASE i = 1
    BY <1>01, <1>6, <2>2
  <2>3. CASE i = 2
    BY <1>01, <1>6, <2>3
  <2>4. CASE i > 2
    <3>1. i - 2 \in 1..n /\ (i - 2) + 2 = i
      BY <1>1, <2>4
    <3> QED
      BY <1>4, <1>6, <3>1
  <2> QED
    BY <2>2, <2>3, <2>4
<1>9. \A i \in 1..Len(DataLine(bytes)) : DataLine(bytes)[i] = End <=> i = Len(DataLine(bytes))
  <2>1. Len(DataLine(bytes)) = n + 3 /\ n \in Nat
    BY <1>1, <1>7
  <2>2. ASSUME NEW i \in 1..(n + 3) PROVE DataLine(bytes)[i] = End <=> i = n + 3
    <3>1. CASE i = n + 3
      BY <1>7, <3>1
    <3>2. CASE i # n + 3
      <4>1. i \in 1..(n + 2)
        BY <1>1, <3>2
      <4> QED
        BY <1>7, <1>8, <3>2, <4>1
    <3> QED
      BY <3>1, <3>2
  <2> QED
    BY <2>1, <2>2
<1> QED
  <2>1. IsLine(DataLine(bytes))
    <3>1. Len(DataLine(bytes)) \in 2..(CmdSize + 1)
      BY <1>0, <1>1, <1>7
    <3> QED
      BY <1>7, <1>9, <3>1 DEF IsLine
  <2>2. /\ DataLine(bytes)[1] = Token("db") /\ DataLine(bytes)[2] = Space
        /\ \A i \in 1..n : DataLine(bytes)[i + 2] = Hex(bytes[i])
    <3>1. 1 \in 1..(n + 2) /\ 2 \in 1..(n + 2) /\ \A i \in 1..n : i + 2 \in 1..(n + 2)
      BY <1>1
    <3> QED
      BY <1>4, <1>6, <1>7, <3>1
  <2> QED
    BY <1>7, <2>1, <2>2


-----------------------------------------------------------------------------
(* The words of a line.                                                      *)

(* A set of numbers has a least one.                                         *)
LEMMA LeastNatural ==
    ASSUME NEW T, T \subseteq Nat, T # {}
    PROVE  \E n \in T : \A m \in T : n <= m
<1>1. IsWellFoundedOn(OpToRel(<, Nat), Nat)
  BY NatLessThanWellFounded
<1>2. PICK R : R = OpToRel(<, Nat)
  OBVIOUS
<1>3. \A x, y \in Nat : x < y => <<x, y>> \in R
  BY <1>2 DEF OpToRel
<1>4. IsWellFoundedOn(R, Nat)
  BY <1>1, <1>2, Zenon
<1>5. \E x \in T : \A y \in T : ~ (<<y, x>> \in R)
  BY <1>4, WFMin, Zenon
<1>6. \A x, y \in Nat : ~(x <= y) => y < x
  OBVIOUS
<1> QED
  BY <1>3, <1>5, <1>6, Zenon

(* There is a function with the equations of Split.                          *)
LEMMA SplitExists ==
    ASSUME NEW N \in Nat, NEW line
    PROVE  \E f : f = [k \in 0..N |-> IF k = 0 THEN <<>> ELSE WithToken(f[k - 1], line, k)]
<1> DEFINE Equations(f, n) ==
             f = [k \in 0..n |-> IF k = 0 THEN <<>> ELSE WithToken(f[k - 1], line, k)]
<1>1. PICK T : T = {n \in Nat : ~ \E f : Equations(f, n)}
  OBVIOUS
<1>2. CASE T = {}
  BY <1>1, <1>2
<1>3. CASE T # {}
  <2>1. PICK n \in T : \A m \in T : n <= m
    BY <1>1, <1>3, LeastNatural
  <2>2. n \in Nat /\ ~ \E f : Equations(f, n)
    BY <1>1
  <2>3. CASE n = 0
    <3>1. PICK f : f = [k \in 0..0 |-> <<>>]
      OBVIOUS
    <3>2. Equations(f, 0)
      BY <3>1
    <3> QED
      BY <2>2, <2>3, <3>2
  <2>4. CASE n > 0
    <3>1. n - 1 \in Nat /\ n - 1 \notin T
      BY <2>1, <2>2, <2>4
    <3>2. PICK g : Equations(g, n - 1)
      BY <1>1, <3>1
    <3>3. PICK f : f = [k \in 0..n |-> IF k = n THEN WithToken(g[n - 1], line, n) ELSE g[k]]
      OBVIOUS
    <3>4. \A k \in 0..(n - 1) : f[k] = g[k]
      BY <2>2, <3>3
    <3>5. ASSUME NEW k \in 0..n
          PROVE  f[k] = IF k = 0 THEN <<>> ELSE WithToken(f[k - 1], line, k)
      <4>1. CASE k = n
        BY <2>2, <2>4, <3>3, <3>4, <4>1
      <4>2. CASE k \in 0..(n - 1)
        <5>1. g[k] = IF k = 0 THEN <<>> ELSE WithToken(g[k - 1], line, k)
          BY <3>2, <4>2, Zenon
        <5>2. k # 0 => k - 1 \in 0..(n - 1)
          BY <2>2, <4>2
        <5>3. k # 0 => f[k - 1] = g[k - 1]
          BY <3>4, <5>2
        <5> QED
          BY <3>4, <4>2, <5>1, <5>3, Zenon
      <4> QED
        BY <2>2, <3>5, <4>1, <4>2
    <3>6. f = [k \in 0..n |-> f[k]]
      BY <3>3
    <3>7. Equations(f, n)
      BY <3>5, <3>6, Zenon
    <3> QED
      BY <2>2, <3>7
  <2> QED
    BY <2>2, <2>3, <2>4
<1> QED
  BY <1>2, <1>3

LEMMA SplitIs ==
    ASSUME Len(g_cmd_buf) \in Nat
    PROVE  /\ Split[0] = <<>>
           /\ \A k \in 1..Len(g_cmd_buf) : Split[k] = WithToken(Split[k - 1], g_cmd_buf, k)
<1>1. PICK N : N = Len(g_cmd_buf)
  OBVIOUS
<1>2. PICK line : line = g_cmd_buf
  OBVIOUS
<1>3. \E f : f = [k \in 0..N |-> IF k = 0 THEN <<>> ELSE WithToken(f[k - 1], line, k)]
  <2>1. N \in Nat
    BY <1>1
  <2> QED
    BY <2>1, SplitExists, Zenon
<1>4. Split = [k \in 0..N |-> IF k = 0 THEN <<>> ELSE WithToken(Split[k - 1], line, k)]
  BY <1>1, <1>2, <1>3, Zenon DEF Split
<1>5. \A k \in 0..N : Split[k] = IF k = 0 THEN <<>> ELSE WithToken(Split[k - 1], line, k)
  BY <1>4, Zenon
<1>6. 0 \in 0..N /\ \A k \in 1..N : k \in 0..N /\ k # 0
  BY <1>1
<1> QED
  BY <1>1, <1>2, <1>5, <1>6, Zenon

(* The line has been received but for its end.                               *)
Received(line) == g_cmd_buf = SubSeq(line, 1, Len(line) - 1)

LEMMA ReceivedIs ==
    ASSUME NEW line, IsLine(line), Received(line)
    PROVE  /\ g_cmd_buf \in Seq(Tokens) /\ Len(g_cmd_buf) = Len(line) - 1
           /\ Len(g_cmd_buf) \in Nat \ {0}
           /\ \A i \in 1..(Len(line) - 1) : g_cmd_buf[i] = line[i]
<1>1. /\ line \in Seq(Tokens) /\ Len(line) \in Nat /\ Len(line) >= 2
  BY Sizes DEF IsLine
<1> QED
  BY <1>1, SubSeqProperties DEF Received

(* Three words.                                                              *)
ThreeWords(a, b, c) == << <<a>>, <<b>>, <<c>> >>

LEMMA AppendToTwo ==
  ASSUME NEW d, NEW e, NEW w
  PROVE  Append(<<d, e>>, w) = <<d, e, w>>
<1>1. PICK S : S = {d, e, w}
  OBVIOUS
<1>2. <<d, e>> \in Seq(S) /\ Len(<<d, e>>) = 2 /\ <<d, e>>[1] = d /\ <<d, e>>[2] = e /\ w \in S
  BY <1>1
<1>3. PICK s \in Seq(S) : s = <<d, e>>
  BY <1>2
<1>4. /\ Append(s, w) \in Seq(S) /\ Len(Append(s, w)) = 3
      /\ Append(s, w)[1] = d /\ Append(s, w)[2] = e /\ Append(s, w)[3] = w
  BY <1>2, <1>3, AppendProperties
<1>5. /\ <<d, e, w>> \in Seq(S) /\ Len(<<d, e, w>>) = 3
      /\ <<d, e, w>>[1] = d /\ <<d, e, w>>[2] = e /\ <<d, e, w>>[3] = w
  BY <1>1
<1>6. ASSUME NEW p \in Seq(S), NEW q \in Seq(S), Len(p) = 3, Len(q) = 3,
             p[1] = q[1], p[2] = q[2], p[3] = q[3]
      PROVE  p = q
  <2>1. \A i \in 1..3 : p[i] = q[i]
    BY <1>6
  <2> QED
    BY <1>6, <2>1, SeqEqual
<1> QED
  BY <1>3, <1>4, <1>5, <1>6, Zenon

(* The words of a line that begins with three.                               *)
LEMMA FirstThree ==
  ASSUME NEW a \in Tokens, NEW b \in Tokens, NEW c \in Tokens, Space \notin {a, b, c},
         g_cmd_buf \in Seq(Tokens), Len(g_cmd_buf) >= 5,
         g_cmd_buf[1] = a, g_cmd_buf[2] = Space, g_cmd_buf[3] = b, g_cmd_buf[4] = Space,
         g_cmd_buf[5] = c
  PROVE  Split[5] = ThreeWords(a, b, c)
<1>2. Split[0] = <<>> /\ \A k \in 1..5 : Split[k] = WithToken(Split[k - 1], g_cmd_buf, k)
  BY SplitIs
<1>3. Split[1] = << <<a>> >>
  <2>1. Split[1] = WithToken(Split[0], g_cmd_buf, 1)
    BY <1>2
  <2>2. WithToken(Split[0], g_cmd_buf, 1) = Append(Split[0], <<a>>)
    BY DEF WithToken
  <2> QED
    BY <1>2, <2>1, <2>2
<1>4. Split[2] = << <<a>> >>
  <2>1. Split[2] = WithToken(Split[1], g_cmd_buf, 2)
    BY <1>2
  <2>2. WithToken(Split[1], g_cmd_buf, 2) = Split[1]
    BY DEF WithToken
  <2> QED
    BY <1>3, <2>1, <2>2
<1>5. Split[3] = << <<a>>, <<b>> >>
  <2>1. Split[3] = WithToken(Split[2], g_cmd_buf, 3) /\ 3 - 1 = 2
    BY <1>2
  <2>2. WithToken(Split[2], g_cmd_buf, 3) = Append(Split[2], <<b>>)
    BY <2>1 DEF WithToken
  <2> QED
    BY <1>4, <2>1, <2>2
<1>6. Split[4] = << <<a>>, <<b>> >>
  <2>1. Split[4] = WithToken(Split[3], g_cmd_buf, 4)
    BY <1>2
  <2>2. WithToken(Split[3], g_cmd_buf, 4) = Split[3]
    BY DEF WithToken
  <2> QED
    BY <1>5, <2>1, <2>2
<1>7. Split[5] = << <<a>>, <<b>>, <<c>> >>
  <2>1. Split[5] = WithToken(Split[4], g_cmd_buf, 5) /\ 5 - 1 = 4
    BY <1>2
  <2>2. WithToken(Split[4], g_cmd_buf, 5) = Append(Split[4], <<c>>)
    BY <2>1 DEF WithToken
  <2>3. Append(<< <<a>>, <<b>> >>, <<c>>) = << <<a>>, <<b>>, <<c>> >>
    BY AppendToTwo, Zenon
  <2> QED
    BY <1>6, <2>1, <2>2, <2>3, Zenon
<1> QED
  BY <1>7 DEF ThreeWords

LEMMA WordsOfThree ==
    ASSUME NEW a \in Tokens, NEW b \in Tokens, NEW c \in Tokens,
           Space \notin {a, b, c}, Received(<<a, Space, b, Space, c, End>>),
           IsLine(<<a, Space, b, Space, c, End>>)
    PROVE  Words = ThreeWords(a, b, c)
<1>1. /\ Len(g_cmd_buf) = 5
      /\ g_cmd_buf[1] = a /\ g_cmd_buf[2] = Space /\ g_cmd_buf[3] = b
      /\ g_cmd_buf[4] = Space /\ g_cmd_buf[5] = c
  <2>1. PICK line : line = <<a, Space, b, Space, c, End>>
    OBVIOUS
  <2>2. /\ Len(line) = 6 /\ line[1] = a /\ line[2] = Space /\ line[3] = b
        /\ line[4] = Space /\ line[5] = c
    BY <2>1
  <2>3. /\ Len(g_cmd_buf) = Len(line) - 1
        /\ \A i \in 1..(Len(line) - 1) : g_cmd_buf[i] = line[i]
    BY <2>1, ReceivedIs, Zenon
  <2>4. Len(g_cmd_buf) = 5 /\ \A i \in 1..5 : g_cmd_buf[i] = line[i]
    BY <2>2, <2>3
  <2> QED
    BY <2>2, <2>4
<1>2. g_cmd_buf \in Seq(Tokens)
  BY ReceivedIs
<1>3. Split[5] = ThreeWords(a, b, c)
  BY <1>1, <1>2, FirstThree
<1> QED
  BY <1>1, <1>3 DEF Words

LEMMA AppendToOne ==
    ASSUME NEW d, NEW w
    PROVE  Append(<<d>>, w) = <<d, w>>
<1>1. PICK S : S = {d, w}
  OBVIOUS
<1>2. <<d>> \in Seq(S) /\ Len(<<d>>) = 1 /\ <<d>>[1] = d /\ w \in S
  BY <1>1
<1>3. PICK s \in Seq(S) : s = <<d>>
  BY <1>2
<1>4. Append(s, w) \in Seq(S) /\ Len(Append(s, w)) = 2 /\ Append(s, w)[1] = d /\ Append(s, w)[2] = w
  BY <1>2, <1>3, AppendProperties
<1>5. <<d, w>> \in Seq(S) /\ Len(<<d, w>>) = 2 /\ <<d, w>>[1] = d /\ <<d, w>>[2] = w
  BY <1>1
<1>6. ASSUME NEW p \in Seq(S), NEW q \in Seq(S), Len(p) = 2, Len(q) = 2, p[1] = q[1], p[2] = q[2]
      PROVE  p = q
  <2>1. \A i \in 1..2 : p[i] = q[i]
    BY <1>6
  <2> QED
    BY <1>6, <2>1, SeqEqual
<1> QED
  BY <1>3, <1>4, <1>5, <1>6, Zenon

(* The words of a data line: db, and one word of all its bytes.              *)
DataWords(bytes, n) == << <<Token("db")>>, [i \in 1..n |-> Hex(bytes[i])] >>

LEMMA WordsOfData ==
    ASSUME NEW n \in 1..SendBytes, NEW bytes \in [1..n -> Int], Received(DataLine(bytes))
    PROVE  Words = DataWords(bytes, n)
<1>1. /\ Len(g_cmd_buf) = n + 2 /\ n \in Nat /\ n >= 1
      /\ g_cmd_buf[1] = Token("db") /\ g_cmd_buf[2] = Space
      /\ \A i \in 1..n : g_cmd_buf[i + 2] = Hex(bytes[i]) /\ Hex(bytes[i]) # Space
  <2>1. PICK line : line = DataLine(bytes)
    OBVIOUS
  <2>2. /\ IsLine(line) /\ Len(line) = n + 3 /\ line[1] = Token("db") /\ line[2] = Space
        /\ \A i \in 1..n : line[i + 2] = Hex(bytes[i])
    BY <2>1, DataLineIs
  <2>3. n \in Nat /\ n >= 1
    BY Sizes
  <2>4. /\ Len(g_cmd_buf) = n + 2 /\ \A i \in 1..(n + 2) : g_cmd_buf[i] = line[i]
    BY <2>1, <2>2, <2>3, ReceivedIs
  <2>5. 1 \in 1..(n + 2) /\ 2 \in 1..(n + 2) /\ \A i \in 1..n : i + 2 \in 1..(n + 2)
    BY <2>3
  <2>6. \A i \in 1..n : Hex(bytes[i]) # Space
    BY TokensAre
  <2> QED
    BY <2>2, <2>3, <2>4, <2>5, <2>6
<1>2. Split[0] = <<>> /\ \A k \in 1..(n + 2) : Split[k] = WithToken(Split[k - 1], g_cmd_buf, k)
  BY <1>1, SplitIs
<1>3. Split[2] = << <<Token("db")>> >>
  <2>1. Token("db") # Space
    BY TokensAre DEF Keywords
  <2>2. Split[1] = << <<Token("db")>> >>
    <3>1. Split[1] = WithToken(Split[0], g_cmd_buf, 1)
      BY <1>1, <1>2
    <3>2. WithToken(Split[0], g_cmd_buf, 1) = Append(Split[0], <<Token("db")>>)
      BY <1>1, <2>1 DEF WithToken
    <3> QED
      BY <1>2, <3>1, <3>2
  <2>3. Split[2] = WithToken(Split[1], g_cmd_buf, 2)
    BY <1>1, <1>2
  <2> QED
    BY <1>1, <2>2, <2>3 DEF WithToken
<1>4. Split[3] = DataWords(bytes, 1)
  <2>1. Split[3] = WithToken(Split[2], g_cmd_buf, 3) /\ g_cmd_buf[3] = Hex(bytes[1]) /\ Hex(bytes[1]) # Space
    BY <1>1, <1>2
  <2>2. Split[3] = << <<Token("db")>>, <<Hex(bytes[1])>> >>
    <3>1. g_cmd_buf[3] # Space /\ g_cmd_buf[3 - 1] = Space
      BY <1>1, <2>1
    <3>2. WithToken(Split[2], g_cmd_buf, 3) = Append(Split[2], <<g_cmd_buf[3]>>)
      BY <3>1 DEF WithToken
    <3>3. Append(<< <<Token("db")>> >>, <<g_cmd_buf[3]>>) = << <<Token("db")>>, <<g_cmd_buf[3]>> >>
      BY AppendToOne, Zenon
    <3> QED
      BY <1>3, <2>1, <3>2, <3>3, Zenon
  <2>3. [i \in 1..1 |-> Hex(bytes[i])] = <<Hex(bytes[1])>>
    OBVIOUS
  <2> QED
    BY <2>2, <2>3 DEF DataWords
<1>5. ASSUME NEW k \in 2..n, Split[k + 1] = DataWords(bytes, k - 1)
      PROVE  Split[k + 2] = DataWords(bytes, k)
  <2>1. /\ k \in 1..n /\ k + 2 \in 1..(n + 2) /\ (k + 2) - 1 = k + 1 /\ k + 2 # 1
        /\ k - 1 \in 1..n /\ (k - 1) + 2 = k + 1 /\ k - 1 \in Nat
    BY <1>1
  <2>2. Split[k + 2] = WithToken(Split[k + 1], g_cmd_buf, k + 2)
    BY <1>2, <2>1
  <2>3. g_cmd_buf[k + 2] = Hex(bytes[k]) /\ Hex(bytes[k]) # Space /\ g_cmd_buf[k + 1] # Space
    BY <1>1, <2>1
  <2>4. PICK word : word = [i \in 1..(k - 1) |-> Hex(bytes[i])]
    OBVIOUS
  <2>5. Split[k + 1] = << <<Token("db")>>, word >>
    BY <1>5, <2>4 DEF DataWords
  <2>6. Split[k + 2] = << <<Token("db")>>, Append(word, Hex(bytes[k])) >>
    <3>1. Split[k + 2] = [Split[k + 1] EXCEPT ![Len(Split[k + 1])] = Append(@, Hex(bytes[k]))]
      BY <2>1, <2>2, <2>3 DEF WithToken
    <3> QED
      BY <2>5, <3>1
  <2>7. Append(word, Hex(bytes[k])) = [i \in 1..k |-> Hex(bytes[i])]
    BY <2>1, <2>4
  <2> QED
    BY <2>6, <2>7 DEF DataWords
<1>6. ASSUME NEW T, T = {k \in 1..n : Split[k + 2] # DataWords(bytes, k)}, T # {} PROVE FALSE
  <2>1. T \subseteq Nat
    BY <1>1, <1>6
  <2>2. PICK k \in T : \A m \in T : k <= m
    BY <1>6, <2>1, LeastNatural, Zenon
  <2>3. k \in 1..n /\ Split[k + 2] # DataWords(bytes, k)
    BY <1>6
  <2>4. k # 1
    BY <1>4, <2>3
  <2>5. k \in 2..n /\ k - 1 \in 1..n /\ (k - 1) + 2 = k + 1 /\ k - 1 \notin T
    BY <1>1, <2>2, <2>3, <2>4
  <2>6. Split[k + 1] = DataWords(bytes, k - 1)
    BY <1>6, <2>5
  <2> QED
    BY <1>5, <2>3, <2>5, <2>6
<1>7. Split[n + 2] = DataWords(bytes, n)
  <2>1. PICK T : T = {k \in 1..n : Split[k + 2] # DataWords(bytes, k)}
    OBVIOUS
  <2>2. T = {}
    BY <1>6, <2>1, Zenon
  <2> QED
    BY <1>1, <2>1, <2>2
<1> QED
  BY <1>1, <1>7 DEF Words

-----------------------------------------------------------------------------
(* Steps of the device.                                                      *)

(* An answer to an empty line back: nothing in it but its end is Ready.      *)
LEMMA AnswerIs ==
    ASSUME NEW S, NEW msgs \in Seq(S), \A i \in 1..Len(msgs) : msgs[i] # Ready,
           tx = <<>>, Answer(msgs)
    PROVE  /\ tx' = Append(msgs, Ready)
           /\ Len(tx') \in Nat \ {0} /\ DOMAIN tx' = 1..Len(tx')
           /\ \A i \in 1..Len(tx') : tx'[i] = Ready <=> i = Len(tx')
<1>1. msgs \in Seq(S \cup {Ready}) /\ Ready \in S \cup {Ready}
  <2>1. S \subseteq S \cup {Ready}
    OBVIOUS
  <2> QED
    BY <2>1
<1>2. PICK t \in Seq(S \cup {Ready}) : t = Append(msgs, Ready)
  BY <1>1, AppendProperties
<1>3. /\ Len(t) = Len(msgs) + 1 /\ t[Len(msgs) + 1] = Ready
      /\ \A i \in 1..Len(msgs) : t[i] = msgs[i]
  BY <1>1, <1>2, AppendProperties
<1>4. tx' = t
  BY <1>2, ConcatEmptySeq DEF Answer
<1>5. Len(msgs) \in Nat
  BY <1>1
<1>6. ASSUME NEW i \in 1..Len(t) PROVE t[i] = Ready <=> i = Len(t)
  <2>1. CASE i = Len(msgs) + 1
    BY <1>3, <2>1
  <2>2. CASE i # Len(msgs) + 1
    <3>1. i \in 1..Len(msgs)
      BY <1>3, <1>5, <2>2
    <3> QED
      BY <1>3, <2>2, <3>1
  <2> QED
    BY <2>1, <2>2
<1>7. Len(t) \in Nat \ {0} /\ DOMAIN t = 1..Len(t)
  BY <1>3, <1>5
<1> QED
  BY <1>2, <1>4, <1>6, <1>7

LEMMA NotReady ==
    ASSUME NEW m, NEW v, m # "m-ready"
    PROVE  [m |-> m, v |-> v] # Ready /\ Message(m) # Ready
<1>1. [m |-> m, v |-> v].m = m /\ Message(m).m = m /\ Ready.m = "m-ready"
  BY DEF Message, Ready
<1> QED
  BY <1>1

LEMMA ShortAnswer ==
    ASSUME NEW msg, msg # Ready, tx = <<>>, Answer(<<msg>>)
    PROVE  /\ Len(tx') \in Nat \ {0} /\ DOMAIN tx' = 1..Len(tx')
           /\ \A i \in 1..Len(tx') : tx'[i] = Ready <=> i = Len(tx')
<1>1. <<msg>> \in Seq({msg}) /\ \A i \in 1..Len(<<msg>>) : <<msg>>[i] # Ready
  OBVIOUS
<1> QED
  BY <1>1, AnswerIs

(* The answer of infer: on a loaded buffer, and refused.                     *)
Laps(w, v) == <<[m |-> "m-warmup-start", v |-> <<w>>], Message("m-lap-us"), Message("m-lap-us"),
                [m |-> "m-results", v |-> v]>>

LEMMA LapsAre ==
    ASSUME NEW w, NEW v
    PROVE  \E S : /\ Laps(w, v) \in Seq(S) /\ Message("refused") \in S
                  /\ Len(Laps(w, v)) = 4
                  /\ \A x \in S : x # Ready
<1>1. PICK a, b, c, d : /\ a = [m |-> "m-warmup-start", v |-> <<w>>]
                        /\ b = Message("m-lap-us") /\ c = [m |-> "m-results", v |-> v]
                        /\ d = Message("refused")
  OBVIOUS
<1>2. PICK S : S = {a, b, c, d}
  OBVIOUS
<1>3. a # Ready /\ b # Ready /\ c # Ready /\ d # Ready
  <2>1. "m-warmup-start" # "m-ready" /\ "m-lap-us" # "m-ready" /\ "m-results" # "m-ready" /\ "refused" # "m-ready"
    OBVIOUS
  <2> QED
    BY <1>1, <2>1, NotReady, Zenon
<1>4. <<a, b, b, c>> \in Seq(S) /\ Len(<<a, b, b, c>>) = 4
  BY <1>2
<1>5. Laps(w, v) = <<a, b, b, c>>
  BY <1>1, Zenon DEF Laps
<1> QED
  BY <1>1, <1>2, <1>3, <1>4, <1>5

(* Whatever the command, its answer ends with the only Ready in it.          *)
LEMMA CommandAnswers ==
    ASSUME tx = <<>>, rx = <<End>>, Command
    PROVE  Answering'
<1> DEFINE Ends == /\ Len(tx') \in Nat \ {0} /\ DOMAIN tx' = 1..Len(tx')
                   /\ \A i \in 1..Len(tx') : tx'[i] = Ready <=> i = Len(tx')
<1>1. rx' = <<>> /\ g_cmd_buf' = <<>>
  BY DEF Command
<1>2. /\ Message("m-name") # Ready /\ Message("m-expecting") # Ready /\ Message("e") # Ready
      /\ Message("m-load-done") # Ready
  <2>1. "m-name" # "m-ready" /\ "m-expecting" # "m-ready" /\ "e" # "m-ready" /\ "m-load-done" # "m-ready"
    OBVIOUS
  <2> QED
    BY <2>1, NotReady, Zenon
<1>3. ASSUME Name PROVE Ends
  BY <1>2, <1>3, ShortAnswer DEF Name
<1>4. ASSUME DbLoad PROVE Ends
  <2>1. PICK msg : msg = Message(IF atoi(3) \in 1..MaxDbInputSize THEN "m-expecting" ELSE "e")
    OBVIOUS
  <2>2. msg # Ready
    BY <1>2, <2>1
  <2>3. Answer(<<msg>>)
    BY <1>4, <2>1 DEF DbLoad
  <2> QED
    BY <2>2, <2>3, ShortAnswer
<1>5. ASSUME DbData PROVE Ends
  <2>1. PICK msgs : msgs \in {<<Message("e")>>, <<Message("m-load-done")>>, <<>>} /\ Answer(msgs)
    BY <1>5, Zenon DEF DbData
  <2>2. CASE msgs = <<>>
    <3>1. msgs \in Seq({0}) /\ \A i \in 1..Len(msgs) : msgs[i] # Ready
      BY <2>2
    <3> QED
      BY <2>1, <3>1, AnswerIs
  <2> QED
    BY <1>2, <2>1, <2>2, ShortAnswer
<1>6. ASSUME Infer PROVE Ends
  <2>1. PICK t : t = Laps(Warmups, output')
    OBVIOUS
  <2>2. PICK refused : refused = IF Loaded THEN <<>> ELSE <<Message("refused")>>
    OBVIOUS
  <2>3. Answer(refused \o t)
    BY <1>6, <2>1, <2>2, Zenon DEF Infer, Laps
  <2>4. PICK S : t \in Seq(S) /\ Message("refused") \in S /\ \A x \in S : x # Ready
    BY <2>1, LapsAre, Zenon
  <2>5. refused \in Seq(S)
    BY <2>2, <2>4
  <2>50. refused \o t \in Seq(S)
    BY <2>4, <2>5, ConcatProperties
  <2>6. PICK msgs \in Seq(S) : msgs = refused \o t
    BY <2>50
  <2>7. \A i \in 1..Len(msgs) : msgs[i] # Ready
    BY <2>4, <2>6
  <2> QED
    BY <2>3, <2>6, <2>7, AnswerIs
<1>7. ASSUME Results PROVE Ends
  <2>1. PICK msg : msg = [m |-> "m-results", v |-> output]
    OBVIOUS
  <2>2. msg # Ready
    <3>1. "m-results" # "m-ready"
      OBVIOUS
    <3> QED
      BY <2>1, <3>1, NotReady, Zenon
  <2> QED
    BY <1>7, <2>1, <2>2, ShortAnswer DEF Results
<1>8. ASSUME Other PROVE Ends
  BY <1>2, <1>8, ShortAnswer DEF Other
<1>9. Ends
  BY <1>3, <1>4, <1>5, <1>6, <1>7, <1>8 DEF Command
<1> QED
  BY <1>1, <1>9 DEF Answering

(* A step of the device that receives a line: one more character, or the end *)
(* of the line and with it the command.                                      *)
LEMMA Receives ==
    ASSUME NEW line, IsLine(line), Receiving(line), mlperf, Device
    PROVE  \/ Receiving(line)' /\ UNCHANGED <<mlperf, buffer, tensors>>
           \/ Received(line) /\ rx = <<End>> /\ Command
<1>1. PICK n \in Nat : n = Len(line) /\ n >= 2 /\ n <= CmdSize + 1
  BY Sizes DEF IsLine
<1>2. line \in Seq(Tokens) /\ \A i \in 1..n : line[i] = End <=> i = n
  BY <1>1 DEF IsLine
<1>3. PICK k \in 0..(n - 1) : g_cmd_buf = SubSeq(line, 1, k) /\ rx = SubSeq(line, k + 1, n)
  BY <1>1 DEF Receiving
<1>4. /\ Len(g_cmd_buf) = k /\ Len(rx) = n - k /\ rx \in Seq(Tokens) /\ rx # <<>>
      /\ \A i \in 1..(n - k) : rx[i] = line[k + i]
  <2>1. k \in Nat /\ k + 1 \in 1..n /\ k <= n
    BY <1>1
  <2>2. SubSeq(line, 1, k) \in Seq(Tokens) /\ Len(SubSeq(line, 1, k)) = k
    BY <1>1, <1>2, <2>1, SubSeqProperties
  <2>3. /\ SubSeq(line, k + 1, n) \in Seq(Tokens) /\ Len(SubSeq(line, k + 1, n)) = n - k
        /\ \A i \in 1..(n - k) : SubSeq(line, k + 1, n)[i] = line[k + i]
    BY <1>1, <1>2, <2>1, SubSeqProperties
  <2>4. rx # <<>>
    <3>1. n - k >= 1 /\ Len(rx) = n - k
      BY <1>3, <2>1, <2>3
    <3>2. Len(<<>>) = 0
      OBVIOUS
    <3> QED
      BY <2>1, <3>1, <3>2
  <2> QED
    BY <1>3, <2>2, <2>3, <2>4
<1>5. Head(rx) = line[k + 1] /\ k + 1 \in 1..n
  BY <1>1, <1>4
<1>6. Command \/ Character
  BY DEF Device, MenuExit, MenuProject, EnterMlperf, AtMenu
<1>7. CASE Command
  <2>1. Head(rx) = End
    BY <1>7 DEF Command
  <2>2. k = n - 1
    BY <1>1, <1>2, <1>5, <2>1
  <2>3. rx = <<End>>
    <3>1. Len(rx) = 1 /\ rx[1] = End
      BY <1>1, <1>4, <1>5, <2>1, <2>2
    <3> QED
      BY <1>4, <3>1
  <2>4. Received(line)
    BY <1>1, <1>3, <2>2 DEF Received
  <2> QED
    BY <1>7, <2>3, <2>4
<1>8. CASE Character
  <2>1. /\ Head(rx) # End /\ rx' = Tail(rx) /\ UNCHANGED <<tx, mlperf, buffer, tensors>>
        /\ g_cmd_buf' = IF Len(g_cmd_buf) < CmdSize THEN Append(g_cmd_buf, Head(rx)) ELSE g_cmd_buf
    BY <1>8 DEF Character
  <2>2. k + 1 \in 1..(n - 1) /\ k < CmdSize
    BY <1>1, <1>2, <1>5, <2>1, Sizes
  <2>3. g_cmd_buf' = Append(SubSeq(line, 1, k), line[k + 1])
    BY <1>3, <1>4, <1>5, <2>1, <2>2
  <2>4. SubSeq(line, 1, k + 1) = Append(SubSeq(line, 1, k), line[k + 1])
    BY <1>1, <1>2, <2>2, SubSeqProperties, AppendProperties
  <2>5. rx' = SubSeq(line, (k + 1) + 1, n)
    BY <1>1, <1>2, <1>3, <2>1, <2>2, SubSeqProperties
  <2>6. tx' = <<>>
    BY <2>1 DEF Receiving
  <2>7. Receiving(line)'
    <3>1. k + 1 \in 0..(Len(line) - 1)
      BY <1>1, <2>2
    <3>2. g_cmd_buf' = SubSeq(line, 1, k + 1) /\ rx' = SubSeq(line, (k + 1) + 1, Len(line))
      BY <1>1, <2>3, <2>4, <2>5
    <3> QED
      BY <2>6, <3>1, <3>2, Zenon DEF Receiving
  <2> QED
    BY <2>1, <2>7
<1> QED
  BY <1>6, <1>7, <1>8

(* And without anything to receive the device stays as it is.                *)
LEMMA Silent == rx = <<>> => ~Device
BY DEF Device, Command, Character, MenuExit, MenuProject, EnterMlperf, AtMenu

-----------------------------------------------------------------------------
(* What the commands of the script do.                                       *)
LEMMA Apart ==
    /\ \A u, w : Token(u) = Token(w) <=> u = w
    /\ \A n, w : w # "num" => Num(n) # Token(w)
    /\ \A n, m : <<n>> = <<m>> <=> n = m
<1>1. \A u : Token(u).w = u
  BY DEF Token
<1>2. \A n : Num(n).w = "num"
  BY DEF Num
<1> QED
  BY <1>1, <1>2

(* The commands a line of three words can be.                                *)
LEMMA ThreeWordsAre ==
    ASSUME NEW u, NEW b, NEW c, Words = ThreeWords(Token(u), b, c)
    PROVE  /\ Len(Words) = 3 /\ HasWord(2) /\ HasWord(3)
           /\ \A w : IsWord(1, w) <=> u = w
           /\ \A w : IsWord(2, w) <=> b = Token(w)
           /\ Words[2][1] = b /\ Words[3][1] = c
<1>1. PICK x, y, z : x = <<Token(u)>> /\ y = <<b>> /\ z = <<c>>
  OBVIOUS
<1>2. Words = <<x, y, z>>
  BY <1>1, Zenon DEF ThreeWords
<1>3. Len(Words) = 3 /\ Words[1] = x /\ Words[2] = y /\ Words[3] = z
  BY <1>2
<1>4. HasWord(1) /\ HasWord(2) /\ HasWord(3)
  BY <1>3 DEF HasWord
<1>5. 1 <= Len(Words) /\ 2 <= Len(Words)
  BY <1>3
<1>6. \A w : IsWord(1, w) <=> u = w
  BY <1>1, <1>3, <1>5, Apart, Zenon DEF IsWord
<1>7. \A w : IsWord(2, w) <=> b = Token(w)
  BY <1>1, <1>3, <1>5, Apart, Zenon DEF IsWord
<1>8. y[1] = b /\ z[1] = c
  BY <1>1
<1> QED
  BY <1>3, <1>4, <1>6, <1>7, <1>8

LEMMA LoadDone ==
    ASSUME Received(LoadLine), Command
    PROVE  g_buff_size' = kIcInputSize /\ g_buff_pos' = 0 /\ UNCHANGED <<gp_buff, tensors>>
<1>1. Words = ThreeWords(Token("db"), Token("load"), Num(kIcInputSize))
  <2>1. PICK a, b, c : a = Token("db") /\ b = Token("load") /\ c = Num(kIcInputSize)
    OBVIOUS
  <2>2. LoadLine = <<a, Space, b, Space, c, End>>
    BY <2>1 DEF LoadLine
  <2>3. a \in Tokens /\ b \in Tokens /\ c \in Tokens /\ Space \notin {a, b, c}
    BY <2>1, TokensAre, Sizes DEF Keywords
  <2> QED
    BY <2>1, <2>2, <2>3, FixedLines, WordsOfThree
<1>2. /\ HasWord(2) /\ HasWord(3) /\ Words[3][1] = Num(kIcInputSize)
      /\ \A w : IsWord(1, w) <=> "db" = w
      /\ \A w : IsWord(2, w) <=> Token("load") = Token(w)
  BY <1>1, ThreeWordsAre, Zenon
<1>3. \A w : IsWord(2, w) <=> "load" = w
  BY <1>2, Apart, Zenon
<1>4. atoi(3) = kIcInputSize /\ kIcInputSize # 0
  BY <1>2, Sizes DEF atoi, Num
<1>5. ~Name /\ ~Infer /\ ~Results
  BY <1>2 DEF Name, Infer, Results
<1>6. ~DbData
  BY <1>3 DEF DbData
<1>7. ~Other
  BY <1>2, <1>3 DEF Other
<1>8. DbLoad
  BY <1>5, <1>6, <1>7 DEF Command
<1> QED
  BY <1>4, <1>8 DEF DbLoad

LEMMA AppendToFour ==
    ASSUME NEW a, NEW b, NEW c, NEW d, NEW r
    PROVE  Append(<<a, b, c, d>>, r) = <<a, b, c, d, r>>
<1>1. PICK S : S = {a, b, c, d, r}
  OBVIOUS
<1>2. <<a, b, c, d>> \in Seq(S) /\ <<a, b, c, d, r>> \in Seq(S) /\ r \in S
  BY <1>1
<1>3. ASSUME NEW p \in Seq(S), NEW q \in Seq(S), NEW x \in S, Len(p) = 4, Len(q) = 5,
             \A i \in 1..4 : q[i] = p[i], q[5] = x
      PROVE  Append(p, x) = q
  <2>1. /\ Append(p, x) \in Seq(S) /\ Len(Append(p, x)) = 5 /\ Append(p, x)[5] = x
        /\ \A i \in 1..4 : Append(p, x)[i] = p[i]
    <3>1. PICK t : t = Append(p, x)
      OBVIOUS
    <3>2. t \in Seq(S)
      BY <3>1, AppendProperties, Zenon
    <3>3. Len(t) = Len(p) + 1
      BY <3>1, AppendProperties, Zenon
    <3>4. \A i \in 1..Len(p) : t[i] = p[i]
      BY <3>1, AppendProperties, Zenon
    <3>5. t[Len(p) + 1] = x
      BY <3>1, AppendProperties, Zenon
    <3> QED
      BY <1>3, <3>1, <3>2, <3>3, <3>4, <3>5
  <2>2. \A i \in 1..5 : Append(p, x)[i] = q[i]
    BY <1>3, <2>1
  <2> QED
    BY <1>3, <2>1, <2>2, SeqEqual
<1>4. /\ Len(<<a, b, c, d>>) = 4 /\ Len(<<a, b, c, d, r>>) = 5 /\ <<a, b, c, d, r>>[5] = r
      /\ \A i \in 1..4 : <<a, b, c, d, r>>[i] = <<a, b, c, d>>[i]
  OBVIOUS
<1> QED
  BY <1>2, <1>3, <1>4, Zenon

LEMMA InferDone ==
    ASSUME Received(InferLine), Command, tx = <<>>, Loaded
    PROVE  tx' = InferAnswer(Network(LoadedTensor)) /\ UNCHANGED buffer
<1>1. Words = ThreeWords(Token("infer"), Num(1), Num(0))
  <2>1. PICK a, b, c : a = Token("infer") /\ b = Num(1) /\ c = Num(0)
    OBVIOUS
  <2>2. InferLine = <<a, Space, b, Space, c, End>>
    BY <2>1 DEF InferLine
  <2>3. a \in Tokens /\ b \in Tokens /\ c \in Tokens /\ Space \notin {a, b, c}
    BY <2>1, TokensAre DEF Keywords
  <2> QED
    BY <2>1, <2>2, <2>3, FixedLines, WordsOfThree
<1>2. /\ HasWord(2) /\ HasWord(3) /\ Words[2][1] = Num(1) /\ Words[3][1] = Num(0)
      /\ \A w : IsWord(1, w) <=> "infer" = w
  BY <1>1, ThreeWordsAre, Zenon
<1>3. Inferences = 1 /\ Warmups = 0
  BY <1>2 DEF Inferences, Warmups, atoi, Num
<1>4. ~Name /\ ~Results /\ ~DbLoad /\ ~DbData
  BY <1>2 DEF Name, Results, DbLoad, DbData
<1>5. ~Other
  BY <1>2, <1>3 DEF Other
<1>6. Infer
  BY <1>4, <1>5 DEF Command
<1>7. output' = Network(LoadedTensor)
  <2>1. PICK overwrites \in BOOLEAN :
          output' = Network(IF overwrites /\ Warmups + Inferences > 1 THEN Spoiled ELSE LoadedTensor)
    BY <1>6, Zenon DEF Infer
  <2>2. ~(Warmups + Inferences > 1)
    BY <1>3
  <2> QED
    BY <2>1, <2>2
<1>8. PICK t : t = Laps(Warmups, output')
  OBVIOUS
<1>9. Answer(<<>> \o t) /\ UNCHANGED buffer
  BY <1>6, <1>8, Zenon DEF Infer, Laps
<1>10. PICK S : t \in Seq(S) /\ \A x \in S : x # Ready
  BY <1>8, LapsAre, Zenon
<1>11. <<>> \o t = t
  BY <1>10
<1>12. tx' = Append(t, Ready)
  <2>1. \A i \in 1..Len(t) : t[i] # Ready
    BY <1>10
  <2> QED
    BY <1>9, <1>10, <1>11, <2>1, AnswerIs
<1>13. Append(t, Ready) = InferAnswer(output')
  <2>1. PICK a, b, c : /\ a = [m |-> "m-warmup-start", v |-> <<0>>]
                       /\ b = Message("m-lap-us") /\ c = [m |-> "m-results", v |-> output']
    OBVIOUS
  <2>2. t = <<a, b, b, c>>
    BY <1>3, <1>8, <2>1, Zenon DEF Laps
  <2>3. InferAnswer(output') = <<a, b, b, c, Ready>>
    BY <2>1, Zenon DEF InferAnswer
  <2>4. Append(<<a, b, b, c>>, Ready) = <<a, b, b, c, Ready>>
    BY AppendToFour, Zenon
  <2> QED
    BY <2>2, <2>3, <2>4, Zenon
<1> QED
  BY <1>7, <1>9, <1>12, <1>13

LEMMA DataStored ==
    ASSUME NEW n \in 1..SendBytes, NEW bytes \in [1..n -> Int], NEW p \in Nat,
           Received(DataLine(bytes)), Command,
           g_buff_size = kIcInputSize, g_buff_pos = p, p + n <= kIcInputSize
    PROVE  /\ g_buff_size' = kIcInputSize /\ g_buff_pos' = p + n /\ UNCHANGED tensors
           /\ gp_buff' = [a \in DOMAIN gp_buff |->
                            IF a - p \in 0..(n - 1) THEN bytes[a - p + 1] ELSE gp_buff[a]]
<1>1. PICK word : word = [i \in 1..n |-> Hex(bytes[i])]
  OBVIOUS
<1>2. Words = << <<Token("db")>>, word >>
  BY <1>1, WordsOfData, Zenon DEF DataWords
<1>3. n \in Nat /\ n >= 1 /\ kIcInputSize \in Nat
  BY Sizes
<1>4. /\ Len(word) = n /\ DOMAIN word = 1..n
      /\ \A i \in 1..n : word[i] = Hex(bytes[i]) /\ word[i].w = "byte" /\ word[i].v = bytes[i]
  BY <1>1, <1>3 DEF Hex
<1>5. Len(Words) = 2 /\ Words[2] = word /\ HasWord(2) /\ ~HasWord(3)
  BY <1>2 DEF HasWord
<1>6. \A w : IsWord(1, w) <=> "db" = w
  <2>1. 1 <= Len(Words) /\ Words[1] = <<Token("db")>>
    BY <1>2, <1>5
  <2> QED
    BY <2>1, Apart, Zenon DEF IsWord
<1>7. \A w : w # "byte" => ~IsWord(2, w)
  <2>1. SUFFICES ASSUME NEW w, w # "byte", word = <<Token(w)>> PROVE FALSE
    BY <1>5 DEF IsWord
  <2>2. word[1] = Token(w)
    BY <2>1
  <2>3. word[1].w = "byte"
    BY <1>3, <1>4
  <2> QED
    BY <2>1, <2>2, <2>3 DEF Token
<1>8. ~Name /\ ~Results /\ ~DbLoad /\ ~Infer
  BY <1>5, <1>6 DEF Name, Results, DbLoad, Infer
<1>9. ~Other
  BY <1>5, <1>6, <1>7 DEF Other
<1>10. DbData
  BY <1>8, <1>9 DEF Command
<1>11. SelectInSeq(word, LAMBDA t : t.w # "byte") = 0
  BY <1>4 DEF SelectInSeq
<1>12. {i \in DOMAIN word : OddlyLong(word[i])} = {}
  <2>1. \A i \in DOMAIN word : word[i].w = "byte"
    BY <1>4
  <2>2. \A t : t.w = "byte" => ~OddlyLong(t)
    BY DEF OddlyLong
  <2> QED
    BY <2>1, <2>2, Zenon
<1>13. ~(Cardinality({i \in DOMAIN word : OddlyLong(word[i])}) % 2 = 1)
  BY <1>12, FS_EmptySet
<1>14. (IF kIcInputSize - p \in 1..n THEN kIcInputSize - p ELSE n) = n
  BY <1>3
<1>15. /\ g_buff_pos' = g_buff_pos + n
       /\ gp_buff' = [a \in DOMAIN gp_buff |->
                        IF a - g_buff_pos \in 0..(n - 1) THEN word[a - g_buff_pos + 1].v ELSE gp_buff[a]]
       /\ UNCHANGED <<g_buff_size, tensors>>
  BY <1>4, <1>5, <1>10, <1>11, <1>13, <1>14 DEF DbData
<1>16. \A a : a - p \in 0..(n - 1) => word[a - p + 1].v = bytes[a - p + 1]
  <2>1. \A d \in 0..(n - 1) : d + 1 \in 1..n
    BY <1>3
  <2> QED
    BY <1>4, <2>1
<1> QED
  BY <1>15, <1>16

-----------------------------------------------------------------------------
(* Steps of the script.                                                      *)
LEMMA Written ==
    ASSUME NEW line \in Seq(Tokens), Len(line) >= 1, line[Len(line)] = End,
           rx \in Seq(Tokens), Write(line)
    PROVE  rx' \in Seq(Tokens) /\ rx' # <<>> /\ rx'[Len(rx')] = End
<1>1. PICK r \in Seq(Tokens) : r = rx \o line
  BY ConcatProperties
<1>2. Len(r) = Len(rx) + Len(line) /\ r[Len(rx) + Len(line)] = line[Len(line)]
  BY <1>1, ConcatProperties
<1>3. Len(r) >= 1
  BY <1>2
<1>4. r # <<>>
  BY <1>3
<1> QED
  BY <1>1, <1>2, <1>4 DEF Write

LEMMA LinesEnd ==
    ASSUME NEW line, IsLine(line)
    PROVE  line \in Seq(Tokens) /\ Len(line) \in Nat /\ Len(line) >= 1 /\ line[Len(line)] = End
BY Sizes DEF IsLine

LEMMA EnterLineIs ==
    /\ EnterLine \in Seq(Tokens) /\ Len(EnterLine) >= 1 /\ EnterLine[Len(EnterLine)] = End
    /\ \A i \in 1..Len(EnterLine) : EnterLine[i] \in {Token("x"), Num(3), Num(0), End}
<1>1. PICK front : front = [i \in 1..Exits |-> Token("x")]
  OBVIOUS
<1>2. PICK back : back = <<Num(3), Num(0), End>>
  OBVIOUS
<1>3. front \in Seq(Tokens) /\ Len(front) = Exits /\ Exits \in Nat
      /\ \A i \in 1..Exits : front[i] = Token("x")
  <2>1. Token("x") \in Tokens
    BY TokensAre DEF Keywords
  <2> QED
    BY <1>1, <2>1, Sizes
<1>4. /\ back \in Seq(Tokens) /\ Len(back) = 3
      /\ back[1] = Num(3) /\ back[2] = Num(0) /\ back[3] = End
  <2>1. Num(3) \in Tokens /\ Num(0) \in Tokens /\ End \in Tokens
    BY TokensAre
  <2> QED
    BY <1>2, <2>1
<1>5. PICK line \in Seq(Tokens) : line = front \o back
  BY <1>3, <1>4, ConcatProperties
<1>6. Len(line) = Len(front) + Len(back)
  BY <1>3, <1>4, <1>5, ConcatProperties, Zenon
<1>7. \A i \in 1..Len(line) : line[i] = IF i <= Len(front) THEN front[i] ELSE back[i - Len(front)]
  BY <1>3, <1>4, <1>5, ConcatProperties
<1>8. ASSUME NEW i \in 1..Len(line) PROVE line[i] \in {Token("x"), Num(3), Num(0), End}
  <2>1. CASE i <= Len(front)
    <3>1. i \in 1..Exits
      BY <1>3, <2>1
    <3> QED
      BY <1>3, <1>7, <2>1, <3>1
  <2>2. CASE ~(i <= Len(front))
    <3>1. i - Len(front) \in 1..3
      BY <1>3, <1>4, <1>6, <2>2
    <3>2. \A j \in 1..3 : back[j] \in {Num(3), Num(0), End}
      BY <1>4
    <3> QED
      BY <1>7, <2>2, <3>1, <3>2
  <2> QED
    BY <2>1, <2>2
<1>9. line[Len(line)] = End /\ Len(line) >= 1
  <2>1. Len(line) \in 1..Len(line) /\ ~(Len(line) <= Len(front)) /\ Len(line) - Len(front) = 3
    BY <1>3, <1>4, <1>6
  <2> QED
    BY <1>4, <1>7, <2>1
<1>10. EnterLine = line
  BY <1>1, <1>2, <1>5 DEF EnterLine
<1> QED
  BY <1>8, <1>9, <1>10

(* A part of the sample, and the line that carries it.                       *)
LEMMA PartIs ==
    ASSUME NEW bytes \in [1..kIcInputSize -> Int], NEW p \in Nat, NEW q \in Nat,
           p < q, q <= kIcInputSize, q - p <= SendBytes
    PROVE  /\ q - p \in 1..SendBytes
           /\ SubSeq(bytes, p + 1, q) \in [1..(q - p) -> Int]
           /\ \A i \in 1..(q - p) : SubSeq(bytes, p + 1, q)[i] = bytes[p + i]
           /\ Len(SubSeq(bytes, p + 1, q)) = q - p
<1>1. kIcInputSize \in Nat /\ SendBytes \in Nat
  BY Sizes
<1>2. bytes \in Seq(Int) /\ Len(bytes) = kIcInputSize
  BY <1>1
<1>3. p + 1 \in 1..Len(bytes) + 1 /\ q \in p..Len(bytes)
  BY <1>1, <1>2
<1>4. PICK part : part = SubSeq(bytes, p + 1, q)
  OBVIOUS
<1>5. /\ part \in Seq(Int) /\ Len(part) = q - p /\ \A i \in 1..(q - p) : part[i] = bytes[p + i]
  BY <1>1, <1>2, <1>3, <1>4, SubSeqProperties
<1>6. part \in [1..(q - p) -> Int]
  BY <1>5
<1> QED
  BY <1>1, <1>4, <1>5, <1>6

LEMMA ChunkIs ==
    ASSUME Script, pc = "sending", sent < kIcInputSize
    PROVE  \E q \in Nat :
             /\ sent < q /\ q <= kIcInputSize /\ q - sent <= SendBytes
             /\ Chunk = SubSeq(Sample, sent + 1, q) /\ sent + Len(Chunk) = q
             /\ Sample \in [1..kIcInputSize -> Int]
             /\ IsLine(DataLine(Chunk))
<1>1. sent \in Nat /\ kIcInputSize \in Nat /\ SendBytes \in Nat /\ SendBytes >= 1
  BY Sizes DEF Script
<1>2. PICK q : q = IF sent + SendBytes < kIcInputSize THEN sent + SendBytes ELSE kIcInputSize
  OBVIOUS
<1>3. q \in Nat /\ sent < q /\ q <= kIcInputSize /\ q - sent <= SendBytes
  BY <1>1, <1>2
<1>4. Sample \in [1..kIcInputSize -> Int]
  BY Sizes DEF Script, Sample
<1>5. Chunk = SubSeq(Sample, sent + 1, q)
  BY <1>2 DEF Chunk, Sample
<1>6. /\ q - sent \in 1..SendBytes /\ Chunk \in [1..(q - sent) -> Int]
      /\ Len(Chunk) = q - sent
  BY <1>1, <1>3, <1>4, <1>5, PartIs
<1>7. IsLine(DataLine(Chunk))
  BY <1>6, DataLineIs
<1> QED
  BY <1>1, <1>3, <1>4, <1>5, <1>6, <1>7

LEMMA PartLine ==
    ASSUME Script, pc = "sent", NEW p \in 0..(sent - 1), sent - p <= SendBytes
    PROVE  Sample \in [1..kIcInputSize -> Int] /\ IsLine(DataLine(Part(p)))
<1>1. Sample \in [1..kIcInputSize -> Int]
  BY Sizes DEF Script, Sample
<1>2. sent \in Nat /\ sent <= kIcInputSize /\ p \in Nat /\ p < sent
  BY Sizes DEF Script
<1>3. PICK n : n = sent - p
  OBVIOUS
<1>4. n \in 1..SendBytes /\ Part(p) \in [1..n -> Int]
  BY <1>1, <1>2, <1>3, PartIs DEF Part
<1> QED
  BY <1>1, <1>4, DataLineIs

(* What a cut may leave of a token.                                          *)
Remnants == {Token("nibble")} \cup {Num(n) : n \in 0..kIcInputSize}

LEMMA CutsAre ==
    ASSUME NEW line \in Seq(Tokens), NEW c \in Cut(line)
    PROVE  \/ \E k \in 0..Len(line) : c = SubSeq(line, 1, k)
           \/ \E k \in 0..Len(line), part \in Remnants : c = Append(SubSeq(line, 1, k), part)
<1>1. kIcInputSize \in Nat
  BY Sizes
<1>2. ASSUME NEW token PROVE Parts(token) \subseteq Remnants
  BY <1>1 DEF Parts, Remnants
<1>3. ASSUME NEW k \in 1..Len(line), NEW part \in Parts(line[k]), c = Append(SubSeq(line, 1, k - 1), part)
      PROVE  \E j \in 0..Len(line), rest \in Remnants : c = Append(SubSeq(line, 1, j), rest)
  <2>1. k - 1 \in 0..Len(line)
    OBVIOUS
  <2>2. part \in Remnants
    BY <1>2
  <2> QED
    BY <1>3, <2>1, <2>2
<1> QED
  BY <1>3 DEF Cut

LEMMA Cuts ==
    ASSUME NEW line \in Seq(Tokens), NEW c \in Cut(line)
    PROVE  c \in Seq(Tokens)
<1>1. \A k \in 0..Len(line) : SubSeq(line, 1, k) \in Seq(Tokens)
  BY SubSeqProperties
<1>2. \A part \in Remnants : part \in Tokens
  BY TokensAre, Sizes DEF Keywords, Remnants
<1>3. \A k \in 0..Len(line), part \in Remnants : Append(SubSeq(line, 1, k), part) \in Seq(Tokens)
  BY <1>1, <1>2
<1> QED
  BY <1>1, <1>3, CutsAre

-----------------------------------------------------------------------------
(* What the line, the buffer and the script are, whatever the sleep.         *)
LEMMA DeviceFrame ==
    ASSUME Device
    PROVE  /\ rx # <<>> /\ rx' = Tail(rx) /\ (Head(rx) = End => Command)
           /\ mlperf => mlperf'
           /\ tx' # tx => mlperf'
           /\ DOMAIN gp_buff' = DOMAIN gp_buff
<1>1. Token("x") # End /\ Num(3) # End /\ Num(0) # End
  BY TokensAre DEF Keywords
<1>2. CASE Command
  <2>1. rx # <<>> /\ rx' = Tail(rx) /\ mlperf /\ mlperf' = mlperf
    BY <1>2 DEF Command
  <2>2. gp_buff' = gp_buff \/ DbData
    BY <1>2, Zenon DEF Command, Name, DbLoad, Infer, Results, Other, buffer
  <2>3. DOMAIN gp_buff' = DOMAIN gp_buff
    BY <2>2 DEF DbData
  <2> QED
    BY <1>2, <2>1, <2>3
<1>3. CASE Character
  BY <1>3 DEF Character, buffer
<1>4. CASE MenuExit
  BY <1>1, <1>4 DEF MenuExit, AtMenu, buffer
<1>5. CASE MenuProject
  BY <1>1, <1>5 DEF MenuProject, AtMenu, buffer
<1>6. CASE EnterMlperf
  BY <1>1, <1>6 DEF EnterMlperf, AtMenu, buffer
<1> QED
  BY <1>2, <1>3, <1>4, <1>5, <1>6 DEF Device

LEMMA DeviceKeepsClean ==
    ASSUME Clean, DeviceStep
    PROVE  Clean'
<1>1. /\ rx # <<>> /\ rx' = Tail(rx) /\ (Head(rx) = End => Command)
      /\ mlperf => mlperf'
      /\ tx' # tx => mlperf'
      /\ pc' = pc
  BY DeviceFrame DEF DeviceStep, hostVars
<1>2. PICK r \in Seq(Tokens) : r = rx
  BY DEF Clean
<1>3. /\ r # <<>> /\ Head(r) = r[1] /\ Len(r) \in Nat /\ Len(r) >= 1 /\ Tail(r) \in Seq(Tokens)
      /\ Len(Tail(r)) = Len(r) - 1 /\ \A i \in 1..Len(Tail(r)) : Tail(r)[i] = r[i + 1]
  BY <1>1, <1>2, HeadTailProperties
<1>4. rx' \in Seq(Tokens)
  BY <1>1, <1>2, <1>3
<1>5. tx' # <<>> => mlperf'
  BY <1>1 DEF Clean
<1>6. pc' \notin {"open", "entering"} => mlperf'
  BY <1>1 DEF Clean
<1>7. Tail(r) # <<>> => Tail(r)[Len(Tail(r))] = r[Len(r)]
  <2>1. SUFFICES ASSUME Tail(r) # <<>> PROVE Tail(r)[Len(Tail(r))] = r[Len(r)]
    OBVIOUS
  <2>2. Len(Tail(r)) \in 1..Len(Tail(r)) /\ (Len(r) - 1) + 1 = Len(r)
    BY <1>3, <2>1
  <2> QED
    BY <1>3, <2>2
<1>8. Tail(r) = <<>> => r[Len(r)] = Head(r)
  <2>1. SUFFICES ASSUME Tail(r) = <<>> PROVE r[Len(r)] = Head(r)
    OBVIOUS
  <2>2. Len(Tail(r)) = 0
    <3>1. Len(<<>>) = 0
      OBVIOUS
    <3> QED
      BY <2>1, <3>1, Zenon
  <2>3. Len(r) = 1
    BY <1>3, <2>2
  <2> QED
    BY <1>3, <2>3
<1>9. Started' <=> Started
  BY <1>1 DEF Started
<1>10. Started => r[Len(r)] = End
  BY <1>1, <1>2 DEF Clean
<1>11. (Started /\ rx # <<>> => rx[Len(rx)] = End)'
  BY <1>1, <1>2, <1>7, <1>9, <1>10
<1>12. (Started /\ mlperf /\ rx = <<>> => g_cmd_buf = <<>>)'
  <2>1. SUFFICES ASSUME Started', rx' = <<>> PROVE g_cmd_buf' = <<>>
    OBVIOUS
  <2>2. Command
    BY <1>1, <1>2, <1>8, <1>9, <1>10, <2>1
  <2> QED
    BY <2>2 DEF Command
<1> QED
  BY <1>4, <1>5, <1>6, <1>11, <1>12 DEF Clean

LEMMA NothingToRead == tx = <<>> => ~Answered
<1>1. Len(<<>>) = 0
  OBVIOUS
<1>2. SUFFICES ASSUME tx = <<>>, Answered PROVE FALSE
  OBVIOUS
<1>3. ~ \E i \in 1..Len(tx) : tx[i] = Ready
  BY <1>1, <1>2
<1>4. ReadUntil = 0
  BY <1>3 DEF ReadUntil, SelectInSeq
<1> QED
  BY <1>2, <1>4 DEF Answered

(* The steps of the script that write a line, and those that do not.         *)
LEMMA HostWrites ==
    ASSUME Clean, Script, Host
    PROVE  \/ /\ pc' # "open" /\ mlperf' = mlperf /\ g_cmd_buf' = g_cmd_buf /\ pc # pc'
              /\ \E line \in Seq(Tokens) : /\ Len(line) >= 1 /\ line[Len(line)] = End
                                           /\ Write(line)
              /\ pc = "open" => tx' = tx /\ pc' = "entering"
           \/ /\ pc' # "open" /\ mlperf' = mlperf /\ g_cmd_buf' = g_cmd_buf /\ rx' = rx
              /\ pc # "open" /\ mlperf
<1>1. CASE Enter
  <2>1. Write(EnterLine) /\ pc = "open" /\ pc' = "entering" /\ tx' = tx /\ mlperf' = mlperf
        /\ g_cmd_buf' = g_cmd_buf
    BY <1>1 DEF Enter, Goto, deviceState
  <2> QED
    BY <2>1, EnterLineIs
<1>2. CASE Wake
  <2>1. Write(NameLine) /\ pc = "asleep" /\ pc' = "naming" /\ mlperf' = mlperf
        /\ g_cmd_buf' = g_cmd_buf
    BY <1>2 DEF Wake, Goto, deviceState
  <2> QED
    BY <2>1, FixedLines, LinesEnd
<1>3. CASE SendLoad
  <2>1. Write(LoadLine) /\ pc = "next" /\ pc' = "loading" /\ mlperf' = mlperf
        /\ g_cmd_buf' = g_cmd_buf
    BY <1>3 DEF SendLoad, Goto, deviceState
  <2> QED
    BY <2>1, FixedLines, LinesEnd
<1>4. CASE SendData
  <2>1. Write(DataLine(Chunk)) /\ pc = "sending" /\ pc' = "sent" /\ mlperf' = mlperf
        /\ g_cmd_buf' = g_cmd_buf /\ sent < kIcInputSize
    BY <1>4 DEF SendData, Goto, deviceState
  <2> QED
    BY <2>1, ChunkIs, LinesEnd
<1>5. CASE SendInfer
  <2>1. Write(InferLine) /\ pc = "sending" /\ pc' = "inferring" /\ mlperf' = mlperf
        /\ g_cmd_buf' = g_cmd_buf
    BY <1>5 DEF SendInfer, Goto, deviceState
  <2> QED
    BY <2>1, FixedLines, LinesEnd
<1>6. CASE ReadEntered
  <2>1. Answered /\ pc = "entering" /\ pc' = "asleep" /\ mlperf' = mlperf
        /\ g_cmd_buf' = g_cmd_buf /\ rx' = rx
    BY <1>6 DEF ReadEntered, Goto, deviceState
  <2> QED
    BY <2>1, NothingToRead DEF Clean
<1>7. CASE ReadName
  BY <1>7 DEF ReadName, deviceState, Clean
<1>8. CASE ReadLoaded
  BY <1>8 DEF ReadLoaded, Goto, deviceState, Clean
<1>9. CASE ReadResults
  BY <1>9 DEF ReadResults, deviceState, Clean
<1>10. CASE Finish
  BY <1>10 DEF Finish, Goto, deviceVars, Clean
<1> QED
  BY <1>1, <1>2, <1>3, <1>4, <1>5, <1>6, <1>7, <1>8, <1>9, <1>10 DEF Host

LEMMA CleanKept ==
    ASSUME Clean, Script, [Next]_vars
    PROVE  Clean'
<1>1. CASE DeviceStep
  BY <1>1, DeviceKeepsClean
<1>2. CASE Host
  <2>1. CASE /\ pc' # "open" /\ mlperf' = mlperf /\ g_cmd_buf' = g_cmd_buf /\ rx' = rx
             /\ pc # "open" /\ mlperf
    BY <2>1 DEF Clean, Started
  <2>2. CASE /\ pc' # "open" /\ mlperf' = mlperf /\ pc # pc'
             /\ \E line \in Seq(Tokens) : /\ Len(line) >= 1 /\ line[Len(line)] = End
                                          /\ Write(line)
             /\ pc = "open" => tx' = tx /\ pc' = "entering"
    <3>1. rx' \in Seq(Tokens) /\ rx' # <<>> /\ rx'[Len(rx')] = End
      <4>1. PICK line \in Seq(Tokens) : Len(line) >= 1 /\ line[Len(line)] = End /\ Write(line)
        BY <2>2
      <4>2. rx \in Seq(Tokens)
        BY DEF Clean
      <4> QED
        BY <4>1, <4>2, Written
    <3>2. (pc \notin {"open", "entering"} => mlperf)' /\ (tx # <<>> => mlperf)'
      <4>1. CASE pc = "open"
        BY <2>2, <4>1 DEF Clean
      <4>2. CASE pc = "entering"
        <5>1. ReadEntered
          BY <1>2, <4>2 DEF Host, Enter, Wake, ReadName, SendLoad, ReadLoaded, SendData, SendInfer,
                            ReadResults, Finish, Goto
        <5>2. mlperf
          BY <5>1, NothingToRead DEF ReadEntered, Clean
        <5> QED
          BY <2>2, <5>2
      <4>3. CASE pc \notin {"open", "entering"}
        BY <2>2, <4>3 DEF Clean
      <4> QED
        BY <4>1, <4>2, <4>3
    <3> QED
      BY <3>1, <3>2 DEF Clean
  <2> QED
    BY <1>2, <2>1, <2>2, HostWrites
<1>3. CASE Restart
  <2>1. /\ pc' = "open" /\ mlperf' = mlperf /\ rx' \in Cut(rx) /\ ReadAll
        /\ rx \in Seq(Tokens)
    BY <1>3 DEF Restart, deviceState, Clean
  <2>2. rx' \in Seq(Tokens)
    BY <2>1, Cuts
  <2>3. tx = <<>> => tx' = <<>>
    BY <2>1, Len(<<>>) = 0 DEF ReadAll
  <2> QED
    BY <2>1, <2>2, <2>3 DEF Clean, Started
<1>4. CASE UNCHANGED vars
  BY <1>4 DEF vars, deviceVars, hostVars, Clean, Started
<1> QED
  BY <1>1, <1>2, <1>3, <1>4 DEF Next

LEMMA ScriptKept ==
    ASSUME Script, [Next]_vars
    PROVE  Script'
<1>0. kIcInputSize \in Nat /\ kIcInputSize # 0
  BY Sizes
<1>1. CASE DeviceStep
  BY <1>1 DEF DeviceStep, hostVars, Script
<1>2. CASE Host
  <2>1. CASE Enter
    BY <2>1 DEF Enter, Goto, Script
  <2>2. CASE ReadEntered
    BY <2>2 DEF ReadEntered, Goto, Script
  <2>3. CASE Wake
    BY <2>3 DEF Wake, Goto, Script
  <2>4. CASE ReadName
    BY <2>4 DEF ReadName, Script
  <2>5. CASE SendLoad
    BY <1>0, <2>5 DEF SendLoad, Goto, Script
  <2>6. CASE ReadLoaded
    BY <2>6 DEF ReadLoaded, Goto, Script
  <2>7. CASE SendData
    <3>1. /\ pc = "sending" /\ pc' = "sent" /\ testcase' = testcase /\ sent < kIcInputSize
          /\ sent' = sent + Len(Chunk)
      BY <2>7 DEF SendData, Goto
    <3>2. sent' \in 0..kIcInputSize
      BY <1>0, <3>1, ChunkIs
    <3> QED
      BY <3>1, <3>2 DEF Script
  <2>8. CASE SendInfer
    BY <2>8 DEF SendInfer, Goto, Script
  <2>9. CASE ReadResults
    BY <2>9 DEF ReadResults, Script
  <2>10. CASE Finish
    BY <2>10 DEF Finish, Goto, Script
  <2> QED
    BY <1>2, <2>1, <2>2, <2>3, <2>4, <2>5, <2>6, <2>7, <2>8, <2>9, <2>10 DEF Host
<1>3. CASE Restart
  BY <1>0, <1>3 DEF Restart, Script
<1>4. CASE UNCHANGED vars
  BY <1>4 DEF vars, hostVars, Script
<1> QED
  BY <1>1, <1>2, <1>3, <1>4 DEF Next

LEMMA BufferKept ==
    ASSUME [Next]_vars
    PROVE  DOMAIN gp_buff' = DOMAIN gp_buff
<1>1. CASE DeviceStep
  BY <1>1, DeviceFrame DEF DeviceStep
<1>2. CASE Host
  BY <1>2 DEF Host, Enter, ReadEntered, Wake, ReadName, SendLoad, ReadLoaded, SendData, SendInfer,
              ReadResults, Finish, deviceState, deviceVars, buffer
<1>3. CASE Restart
  BY <1>3 DEF Restart, deviceState, buffer
<1>4. CASE UNCHANGED vars
  BY <1>4 DEF vars, deviceVars
<1> QED
  BY <1>1, <1>2, <1>3, <1>4 DEF Next

-----------------------------------------------------------------------------
(* When the sleep is long enough.                                            *)

(* A line written when nothing is under way begins to be received.           *)
LEMMA StartsReceiving ==
    ASSUME NEW line, IsLine(line), rx = <<>>, g_cmd_buf = <<>>,
           rx' = rx \o line, tx' = <<>>, g_cmd_buf' = g_cmd_buf
    PROVE  Receiving(line)'
<1>1. line \in Seq(Tokens) /\ Len(line) \in Nat /\ Len(line) >= 1
  BY LinesEnd
<1>2. rx' = line
  BY <1>1
<1>3. SubSeq(line, 1, 0) = <<>> /\ SubSeq(line, 0 + 1, Len(line)) = line
  BY <1>1
<1>4. g_cmd_buf' = SubSeq(line, 1, 0) /\ rx' = SubSeq(line, 0 + 1, Len(line))
  BY <1>2, <1>3
<1>5. 0 \in 0..(Len(line) - 1)
  BY <1>1
<1> QED
  BY <1>4, <1>5, Zenon DEF Receiving

(* No answer is read while a line is received; the answer is read at once    *)
(* and to its end.                                                           *)
LEMMA NotYet ==
    ASSUME NEW line, Receiving(line)
    PROVE  ~Answered
BY NothingToRead DEF Receiving

LEMMA LeastOfOne == \A k \in Int : Min({k}) = k
BY DEF Min

LEMMA ReadsAll ==
    ASSUME Answering, Answered
    PROVE  tx' = <<>> /\ ReadUntil = Len(tx)
<1>0. Len(tx) \in Nat \ {0} /\ \A i \in 1..Len(tx) : tx[i] = Ready <=> i = Len(tx)
  BY Zenon DEF Answering
<1>1. Len(tx) \in Nat /\ Len(tx) >= 1 /\ \A i \in 1..Len(tx) : tx[i] = Ready <=> i = Len(tx)
  BY <1>0
<1>2. \E i \in 1..Len(tx) : tx[i] = Ready
  BY <1>1
<1>3. {i \in 1..Len(tx) : tx[i] = Ready} = {Len(tx)}
  BY <1>1
<1>4. ReadUntil = Len(tx)
  BY <1>1, <1>2, <1>3, LeastOfOne DEF ReadUntil, SelectInSeq
<1>5. tx' = SubSeq(tx, Len(tx) + 1, Len(tx))
  BY <1>4 DEF Answered
<1> QED
  BY <1>1, <1>4, <1>5

LEMMA InferAnswerIs ==
    ASSUME NEW v, tx = InferAnswer(v)
    PROVE  ResultsRead = v
<1>1. /\ Len(tx) = 5 /\ tx[1].m = "m-warmup-start" /\ tx[2].m = "m-lap-us"
      /\ tx[3].m = "m-lap-us" /\ tx[4].m = "m-results" /\ tx[4].v = v /\ tx[5].m = "m-ready"
  BY DEF InferAnswer, Message, Ready
<1>2. {i \in 1..Len(tx) : tx[i].m = "m-results"} = {4}
  BY <1>1
<1>3. SelectInSeq(tx, LAMBDA msg : msg.m = "m-results") = 4
  BY <1>2, LeastOfOne DEF SelectInSeq
<1> QED
  BY <1>1, <1>3 DEF ResultsRead

LEMMA HoldsKept ==
    ASSUME NEW p, Holds(p), UNCHANGED buffer, testcase' = testcase
    PROVE  Holds(p)'
BY DEF Holds, buffer, Sample

(* A whole sample in the buffer is what the interpreter computes from.       *)
LEMMA SampleLoaded ==
    ASSUME Holds(kIcInputSize), Sample \in [1..kIcInputSize -> Int]
    PROVE  Loaded /\ LoadedTensor = Quantized(Sample)
<1>1. Loaded
  BY Sizes DEF Loaded, Holds
<1>2. [i \in 1..kIcInputSize |-> gp_buff[i - 1]] = Sample
  BY DEF Holds
<1> QED
  BY <1>1, <1>2 DEF LoadedTensor

(* The last line of data received, the buffer holds the sample so far.       *)
LEMMA DataHeld ==
    ASSUME Script, DOMAIN gp_buff = 0..(MaxDbInputSize - 1), Sample \in [1..kIcInputSize -> Int],
           NEW p \in 0..(sent - 1), Holds(p), sent - p <= SendBytes,
           Received(DataLine(Part(p))), Command, sent' = sent, testcase' = testcase
    PROVE  Holds(sent)'
<1>1. /\ sent \in Nat /\ sent <= kIcInputSize /\ p \in Nat /\ p < sent /\ kIcInputSize \in Nat
      /\ MaxDbInputSize \in Nat /\ kIcInputSize <= MaxDbInputSize
  BY Sizes DEF Script
<1>2. PICK n : n = sent - p
  OBVIOUS
<1>3. PICK bytes : bytes = Part(p)
  OBVIOUS
<1>4. /\ n \in 1..SendBytes /\ bytes \in [1..n -> Int] /\ \A i \in 1..n : bytes[i] = Sample[p + i]
  BY <1>1, <1>2, <1>3, PartIs DEF Part
<1>5. g_buff_size = kIcInputSize /\ g_buff_pos = p /\ \A i \in 1..p : gp_buff[i - 1] = Sample[i]
  BY DEF Holds
<1>6. p + n <= kIcInputSize /\ p + n = sent
  BY <1>1, <1>2
<1>7. Received(DataLine(bytes))
  BY <1>3
<1>8. /\ g_buff_size' = kIcInputSize /\ g_buff_pos' = p + n
      /\ gp_buff' = [a \in DOMAIN gp_buff |->
                       IF a - p \in 0..(n - 1) THEN bytes[a - p + 1] ELSE gp_buff[a]]
  BY <1>1, <1>4, <1>5, <1>6, <1>7, DataStored
<1>9. ASSUME NEW i \in 1..sent PROVE gp_buff'[i - 1] = Sample[i]
  <2>1. i - 1 \in DOMAIN gp_buff
    BY <1>1
  <2>2. CASE i <= p
    <3>1. ~((i - 1) - p \in 0..(n - 1)) /\ i \in 1..p
      BY <1>1, <2>2
    <3> QED
      BY <1>5, <1>8, <2>1, <3>1
  <2>3. CASE i > p
    <3>1. (i - 1) - p \in 0..(n - 1) /\ (i - 1) - p + 1 = i - p /\ i - p \in 1..n /\ p + (i - p) = i
      BY <1>1, <1>2, <2>3
    <3>2. gp_buff'[i - 1] = bytes[i - p]
      BY <1>8, <2>1, <3>1
    <3>3. bytes[i - p] = Sample[p + (i - p)]
      BY <1>4, <3>1
    <3> QED
      BY <3>1, <3>2, <3>3
  <2> QED
    BY <1>1, <2>2, <2>3
<1>10. Sample' = Sample
  BY DEF Sample
<1> QED
  BY <1>6, <1>8, <1>9, <1>10 DEF Holds

LEMMA DeviceKeepsInStep ==
    ASSUME Clean, Script, DOMAIN gp_buff = 0..(MaxDbInputSize - 1), InStepWith, DeviceStep
    PROVE  InStepWith'
<1>1. /\ Device /\ rx # <<>> /\ pc' = pc /\ sent' = sent /\ testcase' = testcase
  BY DeviceFrame DEF DeviceStep, hostVars
<1>2. ~Quiet /\ ~Answering
  BY <1>1 DEF Quiet, Answering
<1>3. ASSUME NEW line, IsLine(line), Receiving(line), mlperf
      PROVE  \/ Receiving(line)' /\ UNCHANGED buffer
             \/ Received(line) /\ Command /\ tx = <<>> /\ Answering'
  <2>1. CASE Receiving(line)' /\ UNCHANGED <<mlperf, buffer, tensors>>
    BY <2>1
  <2>2. CASE Received(line) /\ rx = <<End>> /\ Command
    <3>1. tx = <<>>
      BY <1>3 DEF Receiving
    <3> QED
      BY <2>2, <3>1, CommandAnswers
  <2> QED
    BY <1>1, <1>3, <2>1, <2>2, Receives
<1>4. Sample' = Sample
  BY <1>1 DEF Sample
<1>5. CASE pc = "naming"
  <2>1. mlperf /\ Receiving(NameLine)
    BY <1>2, <1>5 DEF Clean, InStepWith
  <2>2. Receiving(NameLine)' \/ Answering'
    BY <1>3, <2>1, FixedLines
  <2> QED
    BY <1>1, <1>5, <2>2 DEF InStepWith
<1>6. CASE pc \in {"next", "done", "sending"}
  BY <1>2, <1>6 DEF InStepWith
<1>7. CASE pc = "loading"
  <2>1. mlperf /\ Receiving(LoadLine)
    BY <1>2, <1>7 DEF Clean, InStepWith
  <2>2. Receiving(LoadLine)' \/ (Received(LoadLine) /\ Command /\ Answering')
    BY <1>3, <2>1, FixedLines
  <2>3. ASSUME Received(LoadLine), Command PROVE Holds(0)'
    <3>1. g_buff_size' = kIcInputSize /\ g_buff_pos' = 0
      BY <2>3, LoadDone
    <3> QED
      BY <3>1 DEF Holds
  <2>4. Receiving(LoadLine)' \/ (Answering' /\ Holds(0)')
    BY <2>2, <2>3
  <2> QED
    BY <1>1, <1>7, <2>4 DEF InStepWith
<1>8. CASE pc = "sent"
  <2>1. mlperf
    BY <1>8 DEF Clean
  <2>2. PICK p \in 0..(sent - 1) :
          Holds(p) /\ sent - p <= SendBytes /\ Receiving(DataLine(Part(p)))
    BY <1>2, <1>8 DEF InStepWith
  <2>3. Sample \in [1..kIcInputSize -> Int] /\ IsLine(DataLine(Part(p)))
    BY <1>8, <2>2, PartLine
  <2>4. PICK line : line = DataLine(Part(p))
    OBVIOUS
  <2>5. IsLine(line)
    BY <2>3, <2>4
  <2>6. CASE Receiving(line)' /\ UNCHANGED buffer
    <3>1. Part(p)' = Part(p)
      BY <1>1, <1>4 DEF Part
    <3>2. Receiving(DataLine(Part(p)))'
      BY <2>4, <2>6, <3>1 DEF Receiving
    <3>3. Holds(p)'
      BY <1>1, <2>2, <2>6, HoldsKept
    <3> QED
      BY <1>1, <1>8, <2>2, <3>2, <3>3 DEF InStepWith
  <2>7. CASE Received(line) /\ Command /\ tx = <<>> /\ Answering'
    <3>1. Holds(sent)'
      BY <1>1, <2>2, <2>3, <2>4, <2>7, DataHeld
    <3> QED
      BY <1>1, <1>8, <2>7, <3>1 DEF InStepWith
  <2> QED
    BY <1>3, <2>1, <2>2, <2>4, <2>5, <2>6, <2>7
<1>9. CASE pc = "inferring"
  <2>1. mlperf /\ Receiving(InferLine) /\ Holds(kIcInputSize)
    BY <1>2, <1>9 DEF Clean, InStepWith
  <2>2. CASE Receiving(InferLine)' /\ UNCHANGED buffer
    <3>1. Holds(kIcInputSize)'
      BY <1>1, <2>1, <2>2, HoldsKept
    <3> QED
      BY <1>1, <1>9, <2>2, <3>1 DEF InStepWith
  <2>3. CASE Received(InferLine) /\ Command /\ tx = <<>> /\ Answering'
    <3>1. Sample \in [1..kIcInputSize -> Int]
      BY <1>9, Sizes DEF Script, Sample
    <3>2. Loaded /\ LoadedTensor = Quantized(Sample)
      BY <2>1, <3>1, SampleLoaded
    <3>3. tx' = InferAnswer(Network(LoadedTensor)) /\ UNCHANGED buffer
      BY <2>3, <3>2, InferDone
    <3>4. Holds(kIcInputSize)'
      BY <1>1, <2>1, <3>3, HoldsKept
    <3>5. tx' = InferAnswer(Network(Quantized(Sample')))
      BY <1>4, <3>2, <3>3
    <3> QED
      BY <1>1, <1>9, <2>3, <3>4, <3>5 DEF InStepWith
  <2> QED
    BY <1>3, <2>1, <2>2, <2>3, FixedLines
<1>10. CASE pc \notin {"naming", "next", "loading", "sending", "sent", "inferring", "done"}
  BY <1>1, <1>10 DEF InStepWith
<1> QED
  BY <1>5, <1>6, <1>7, <1>8, <1>9, <1>10

LEMMA HostKeepsInStep ==
    ASSUME Clean, Script, longSleep, InStepWith, Host
    PROVE  InStepWith'
<1>1. CASE Enter
  BY <1>1 DEF Enter, Goto, InStepWith
<1>2. CASE ReadEntered
  BY <1>2 DEF ReadEntered, Goto, InStepWith
<1>3. CASE Wake
  <2>1. /\ pc = "asleep" /\ pc' = "naming" /\ rx = <<>> /\ tx' = <<>> /\ rx' = rx \o NameLine
        /\ g_cmd_buf' = g_cmd_buf
    BY <1>3 DEF Wake, Goto, Write, deviceState
  <2>2. g_cmd_buf = <<>>
    BY <2>1 DEF Clean, Started
  <2>3. Receiving(NameLine)'
    BY <2>1, <2>2, FixedLines, StartsReceiving
  <2> QED
    BY <2>1, <2>3 DEF InStepWith
<1>4. CASE ReadName
  <2>1. /\ pc = "naming" /\ Answered /\ pc' \in {"next", "failed"} /\ rx' = rx
        /\ g_cmd_buf' = g_cmd_buf
    BY <1>4 DEF ReadName, deviceState
  <2>2. Answering
    BY <2>1, NotYet DEF InStepWith
  <2>3. Quiet'
    BY <2>1, <2>2, ReadsAll DEF Answering, Quiet
  <2> QED
    BY <2>1, <2>3 DEF InStepWith
<1>5. CASE SendLoad
  <2>1. /\ pc = "next" /\ pc' = "loading" /\ ReadAll /\ rx' = rx \o LoadLine
        /\ g_cmd_buf' = g_cmd_buf
    BY <1>5 DEF SendLoad, Goto, Write, deviceState
  <2>2. Quiet
    BY <2>1 DEF InStepWith
  <2>3. tx' = <<>>
    BY <2>1, <2>2, Len(<<>>) = 0 DEF ReadAll, Quiet
  <2>4. Receiving(LoadLine)'
    BY <2>1, <2>2, <2>3, FixedLines, StartsReceiving DEF Quiet
  <2> QED
    BY <2>1, <2>4 DEF InStepWith
<1>6. CASE ReadLoaded
  <2>1. /\ pc \in {"loading", "sent"} /\ pc' = "sending" /\ Answered /\ rx' = rx
        /\ UNCHANGED buffer /\ testcase' = testcase /\ sent' = sent /\ g_cmd_buf' = g_cmd_buf
    BY <1>6 DEF ReadLoaded, Goto, deviceState
  <2>2. Answering /\ Holds(sent)
    <3>1. CASE pc = "loading"
      <4>1. sent = 0
        BY <3>1 DEF Script
      <4> QED
        BY <2>1, <3>1, <4>1, NotYet DEF InStepWith
    <3>2. CASE pc = "sent"
      BY <2>1, <3>2, NotYet DEF InStepWith
    <3> QED
      BY <2>1, <3>1, <3>2
  <2>3. Quiet'
    BY <2>1, <2>2, ReadsAll DEF Answering, Quiet
  <2>4. PICK p : p = sent
    OBVIOUS
  <2>5. Holds(p)'
    BY <2>1, <2>2, <2>4, HoldsKept
  <2>6. Holds(sent)'
    BY <2>1, <2>4, <2>5 DEF Holds
  <2> QED
    BY <2>1, <2>3, <2>6 DEF InStepWith
<1>7. CASE SendData
  <2>1. /\ pc = "sending" /\ pc' = "sent" /\ rx' = rx \o DataLine(Chunk) /\ tx' = tx
        /\ sent < kIcInputSize /\ sent' = sent + Len(Chunk)
        /\ UNCHANGED buffer /\ testcase' = testcase /\ g_cmd_buf' = g_cmd_buf
    BY <1>7 DEF SendData, Goto, Write, deviceState
  <2>2. Quiet /\ Holds(sent)
    BY <2>1 DEF InStepWith
  <2>3. PICK q \in Nat :
          /\ sent < q /\ q <= kIcInputSize /\ q - sent <= SendBytes
          /\ Chunk = SubSeq(Sample, sent + 1, q) /\ sent + Len(Chunk) = q
          /\ IsLine(DataLine(Chunk))
    BY <2>1, ChunkIs
  <2>4. PICK p : p = sent
    OBVIOUS
  <2>5. PICK line : line = DataLine(Chunk)
    OBVIOUS
  <2>6. Receiving(line)'
    BY <2>1, <2>2, <2>3, <2>5, StartsReceiving DEF Quiet
  <2>7. Part(p)' = Chunk
    BY <2>1, <2>3, <2>4 DEF Part, Sample
  <2>8. Receiving(DataLine(Part(p)))'
    BY <2>5, <2>6, <2>7 DEF Receiving
  <2>9. Holds(p)'
    BY <2>1, <2>2, <2>4, HoldsKept
  <2>10. p \in 0..(sent' - 1) /\ sent' - p <= SendBytes
    BY <2>1, <2>3, <2>4, Sizes DEF Script
  <2> QED
    BY <2>1, <2>8, <2>9, <2>10 DEF InStepWith
<1>8. CASE SendInfer
  <2>1. /\ pc = "sending" /\ pc' = "inferring" /\ rx' = rx \o InferLine /\ tx' = tx
        /\ sent = kIcInputSize
        /\ UNCHANGED buffer /\ testcase' = testcase /\ g_cmd_buf' = g_cmd_buf
    BY <1>8 DEF SendInfer, Goto, Write, deviceState
  <2>2. Quiet /\ Holds(kIcInputSize)
    BY <2>1 DEF InStepWith
  <2>3. Receiving(InferLine)'
    BY <2>1, <2>2, FixedLines, StartsReceiving DEF Quiet
  <2>4. Holds(kIcInputSize)'
    BY <2>1, <2>2, HoldsKept
  <2> QED
    BY <2>1, <2>3, <2>4 DEF InStepWith
<1>9. CASE ReadResults
  <2>1. /\ pc = "inferring" /\ Answered /\ pc' \in {"next", "failed"} /\ rx' = rx
        /\ g_cmd_buf' = g_cmd_buf
    BY <1>9 DEF ReadResults, deviceState
  <2>2. Answering
    BY <2>1, NotYet DEF InStepWith
  <2>3. Quiet'
    BY <2>1, <2>2, ReadsAll DEF Answering, Quiet
  <2> QED
    BY <2>1, <2>3 DEF InStepWith
<1>10. CASE Finish
  <2>1. /\ pc = "next" /\ pc' = "done" /\ rx' = rx /\ tx' = tx /\ g_cmd_buf' = g_cmd_buf
    BY <1>10 DEF Finish, Goto, deviceVars
  <2> QED
    BY <2>1 DEF InStepWith, Quiet
<1> QED
  BY <1>1, <1>2, <1>3, <1>4, <1>5, <1>6, <1>7, <1>8, <1>9, <1>10 DEF Host

LEMMA EvaluatedKept ==
    ASSUME Script, InStepWith, Evaluated, [Next]_vars
    PROVE  Evaluated'
<1>1. CASE UNCHANGED <<results, testcase>>
  BY <1>1 DEF Evaluated
<1>2. CASE ReadResults /\ ~UNCHANGED <<results, testcase>>
  <2>1. /\ pc = "inferring" /\ Answered /\ results' = Append(results, ResultsRead)
        /\ testcase' = testcase + 1
    BY <1>2 DEF ReadResults
  <2>2. tx = InferAnswer(Network(Quantized(Sample)))
    BY <2>1, NotYet DEF InStepWith
  <2>3. PICK v : v = Quantized(Sample)
    OBVIOUS
  <2>4. ResultsRead = v
    BY <2>2, <2>3, InferAnswerIs DEF Network
  <2>5. Sample \in [1..kIcInputSize -> Int] /\ testcase \in Nat /\ testcase >= 1
    BY <2>1, Sizes DEF Script, Sample
  <2>6. v \in Tensor
    BY <2>3, <2>5, Sizes DEF Quantized, Tensor
  <2>7. PICK r \in Seq(Tensor) : r = Append(results, v)
    BY <2>6, AppendProperties DEF Evaluated
  <2>8. Len(results) = testcase - 1 /\ results \in Seq(Tensor)
    BY DEF Evaluated
  <2>9. Len(r) = testcase /\ r[testcase] = v /\ \A i \in 1..(testcase - 1) : r[i] = results[i]
    <3>1. Len(r) = Len(results) + 1
      BY <2>6, <2>7, <2>8, AppendProperties, Zenon
    <3>2. r[Len(results) + 1] = v
      BY <2>6, <2>7, <2>8, AppendProperties, Zenon
    <3>3. \A i \in 1..Len(results) : r[i] = results[i]
      BY <2>6, <2>7, <2>8, AppendProperties, Zenon
    <3> QED
      BY <2>5, <2>8, <3>1, <3>2, <3>3
  <2>10. ASSUME NEW i \in 1..testcase PROVE r[i] = Network(Quantized(Samples[i]))
    <3>1. CASE i = testcase
      BY <2>3, <2>9, <3>1 DEF Network, Sample
    <3>2. CASE i # testcase
      <4>1. i \in 1..Len(results) /\ i \in 1..(testcase - 1)
        BY <2>5, <2>8, <3>2
      <4> QED
        BY <2>9, <4>1 DEF Evaluated
    <3> QED
      BY <3>1, <3>2
  <2>11. results' = r
    BY <2>1, <2>4, <2>7
  <2>12. Len(r) = testcase' - 1
    BY <2>1, <2>5, <2>9
  <2> QED
    BY <2>7, <2>9, <2>10, <2>11, <2>12 DEF Evaluated
<1>3. CASE Restart
  <2>1. results' = <<>> /\ testcase' = 1
    BY <1>3 DEF Restart
  <2> QED
    BY <2>1 DEF Evaluated
<1>4. CASE DeviceStep \/ UNCHANGED vars
  BY <1>1, <1>4 DEF DeviceStep, vars, hostVars
<1>5. CASE Host /\ ~ReadResults
  BY <1>1, <1>5 DEF Host, Enter, ReadEntered, Wake, ReadName, SendLoad, ReadLoaded, SendData,
                    SendInfer, Finish
<1> QED
  BY <1>1, <1>2, <1>3, <1>4, <1>5 DEF Next

-----------------------------------------------------------------------------
(* The invariant, and the two properties it is for.                          *)
LEMMA InvInit == Init => IInv
<1>1. SUFFICES ASSUME Init PROVE IInv
  OBVIOUS
<1>2. rx = <<>> /\ tx = <<>> /\ pc = "open" /\ sent = 0 /\ testcase = 1 /\ results = <<>>
  BY <1>1 DEF Init, DeviceInit
<1>3. Clean
  BY <1>2 DEF Clean, Started
<1>4. Script
  BY <1>2, Sizes DEF Script
<1>5. DOMAIN gp_buff = 0..(MaxDbInputSize - 1)
  BY <1>1 DEF Init, DeviceInit
<1>6. InStepWith
  BY <1>2 DEF InStepWith
<1>7. Evaluated
  BY <1>2 DEF Evaluated
<1> QED
  BY <1>3, <1>4, <1>5, <1>6, <1>7 DEF IInv

LEMMA InvKept == IInv /\ [Next]_vars => IInv'
<1>1. SUFFICES ASSUME IInv, [Next]_vars PROVE IInv'
  OBVIOUS
<1>2. Clean' /\ Script'
  BY <1>1, CleanKept, ScriptKept DEF IInv
<1>3. (DOMAIN gp_buff = 0..(MaxDbInputSize - 1))'
  BY <1>1, BufferKept DEF IInv
<1>4. longSleep' = longSleep
  BY <1>1 DEF Next, DeviceStep, Host, Restart, vars, hostVars
<1>5. ASSUME longSleep PROVE InStepWith' /\ Evaluated'
  <2>1. InStepWith'
    <3>1. CASE DeviceStep
      BY <1>1, <1>5, <3>1, DeviceKeepsInStep DEF IInv
    <3>2. CASE Host
      BY <1>1, <1>5, <3>2, HostKeepsInStep DEF IInv
    <3>3. CASE Restart
      BY <3>3 DEF Restart, InStepWith
    <3>4. CASE UNCHANGED vars
      <4>1. InStepWith
        BY <1>1, <1>5 DEF IInv
      <4> QED
        BY <3>4, <4>1 DEF vars, deviceVars, hostVars, InStepWith, Quiet, Receiving, Answering, Holds,
                          Sample, Part
    <3> QED
      BY <1>1, <3>1, <3>2, <3>3, <3>4 DEF Next
  <2>2. Evaluated'
    BY <1>1, <1>5, EvaluatedKept DEF IInv
  <2> QED
    BY <2>1, <2>2
<1> QED
  BY <1>2, <1>3, <1>4, <1>5 DEF IInv

LEMMA Invariance == Spec => []IInv
BY InvInit, InvKept, PTL DEF Spec

LEMMA NothingUnderWay ==
    ASSUME Quiet
    PROVE  UnderWay = 0
<1>1. {i \in DOMAIN rx : rx[i] = End} = {} /\ {i \in DOMAIN tx : tx[i] = Ready} = {}
  BY DEF Quiet
<1> QED
  BY <1>1, FS_EmptySet DEF UnderWay

LEMMA OneAndNone ==
    ASSUME NEW x,
           \/ /\ {i \in DOMAIN rx : rx[i] = End} = {}
              /\ {i \in DOMAIN tx : tx[i] = Ready} = {x}
           \/ /\ {i \in DOMAIN rx : rx[i] = End} = {x}
              /\ {i \in DOMAIN tx : tx[i] = Ready} = {}
    PROVE  UnderWay = 1
<1>1. Cardinality({}) = 0 /\ Cardinality({x}) = 1
  BY FS_EmptySet, FS_Singleton
<1>2. 0 + 1 = 1 /\ 1 + 0 = 1
  OBVIOUS
<1> QED
  BY <1>1, <1>2, Zenon DEF UnderWay

LEMMA AnswerUnderWay ==
    ASSUME Answering
    PROVE  UnderWay = 1
<1>1. {i \in DOMAIN rx : rx[i] = End} = {}
  <2>1. rx = <<>>
    BY Zenon DEF Answering
  <2> QED
    BY <2>1
<1>2. PICK last \in Nat \ {0} : /\ DOMAIN tx = 1..last
                               /\ \A i \in 1..last : tx[i] = Ready <=> i = last
  BY Zenon DEF Answering
<1>3. {i \in DOMAIN tx : tx[i] = Ready} = {last}
  BY <1>2
<1> QED
  BY <1>1, <1>3, OneAndNone

LEMMA LineUnderWay ==
    ASSUME NEW line, IsLine(line), Receiving(line)
    PROVE  UnderWay = 1
<1>1. line \in Seq(Tokens) /\ Len(line) \in Nat
  BY LinesEnd
<1>2. \A i \in 1..Len(line) : line[i] = End <=> i = Len(line)
  BY DEF IsLine
<1>3. PICK k \in 0..(Len(line) - 1) : rx = SubSeq(line, k + 1, Len(line))
  BY DEF Receiving
<1>4. /\ rx \in Seq(Tokens) /\ Len(rx) = Len(line) - k
      /\ \A i \in 1..(Len(line) - k) : rx[i] = line[k + i]
  BY <1>1, <1>3, SubSeqProperties
<1>5. DOMAIN rx = 1..(Len(line) - k)
  BY <1>4
<1>6. \A i \in 1..(Len(line) - k) : k + i \in 1..Len(line) /\ (k + i = Len(line) <=> i = Len(line) - k)
  BY <1>1
<1>7. {i \in DOMAIN rx : rx[i] = End} = {Len(line) - k}
  BY <1>1, <1>2, <1>4, <1>5, <1>6
<1>8. {i \in DOMAIN tx : tx[i] = Ready} = {}
  BY DEF Receiving
<1> QED
  BY <1>7, <1>8, OneAndNone, Zenon

(* If the sleep is long enough, then whatever the size of the samples and of *)
(* the lines, and however often the script is restarted in the middle of     *)
(* one: once it has the name, a command or its answer is under way exactly   *)
(* while the script waits for one.                                           *)
THEOREM StaysInStep == Spec => []InStep
<1>1. ASSUME IInv PROVE InStep
  <2>1. SUFFICES ASSUME longSleep, pc \in {"next", "loading", "sending", "sent", "inferring", "done"}
                 PROVE  /\ UnderWay = IF pc \in {"loading", "sent", "inferring"} THEN 1 ELSE 0
                        /\ UnderWay = 0 => g_cmd_buf = <<>> /\ rx = <<>>
    BY DEF InStep
  <2>2. InStepWith /\ Script
    BY <1>1, <2>1 DEF IInv
  <2>3. CASE pc \in {"next", "sending", "done"}
    <3>1. Quiet
      BY <2>2, <2>3 DEF InStepWith
    <3> QED
      BY <2>3, <3>1, NothingUnderWay DEF Quiet
  <2>4. CASE pc \in {"loading", "sent", "inferring"}
    <3>1. UnderWay = 1
      <4>1. CASE Answering
        BY <4>1, AnswerUnderWay
      <4>2. CASE pc = "loading" /\ ~Answering
        BY <2>2, <4>2, FixedLines, LineUnderWay DEF InStepWith
      <4>3. CASE pc = "inferring" /\ ~Answering
        BY <2>2, <4>3, FixedLines, LineUnderWay DEF InStepWith
      <4>4. CASE pc = "sent" /\ ~Answering
        <5>1. PICK p \in 0..(sent - 1) : sent - p <= SendBytes /\ Receiving(DataLine(Part(p)))
          BY <2>2, <4>4 DEF InStepWith
        <5>2. IsLine(DataLine(Part(p)))
          BY <2>2, <4>4, <5>1, PartLine
        <5> QED
          BY <5>1, <5>2, LineUnderWay
      <4> QED
        BY <2>4, <4>1, <4>2, <4>3, <4>4
    <3> QED
      BY <2>4, <3>1
  <2> QED
    BY <2>1, <2>3, <2>4
<1> QED
  BY <1>1, Invariance, PTL

(* If the sleep is long enough, every result the script counts is that of    *)
(* the network on the very sample it was looking at: for any number of       *)
(* samples, of any size, sent in lines of any length, and after any number   *)
(* of restarts, however much of a line or of answers each one leaves behind. *)
THEOREM ResultsOfSamples == Spec => [](longSleep => ResultsMatch)
<1>1. ASSUME IInv PROVE longSleep => ResultsMatch
  BY <1>1 DEF IInv, Evaluated, ResultsMatch
<1> QED
  BY <1>1, Invariance, PTL

-----------------------------------------------------------------------------
(* How far the position can come: every token that is still to be worked on  *)
(* or belongs to the open command is in D, and W[i] is at least the position *)
(* when the first i of them have been worked on.  A byte moves it on, and a  *)
(* whole load command takes it back.                                         *)
IsByte(t)   == t.w = "byte"
IsValue(t)  == t \in Tokens /\ (IsByte(t) => t.v \in Bytes) /\ (t.w = "num" => t.v \in 0..kIcInputSize)
Loads(D, i) == i >= 3 /\ D[i - 2] = Token("load") /\ D[i - 1] = Space /\ D[i] = Num(kIcInputSize)
Whole(D, i) == D[i] = Token("load") =>
                   /\ i >= 3 /\ D[i - 1] = Space /\ D[i - 2] = Token("db")
                   /\ i = 3 \/ D[i - 3] = End
Grows(D, W, i) == W[i] >= W[i - 1] /\ (IsByte(D[i]) => W[i] >= W[i - 1] + 1)
Reaches(D, L, W) ==
    /\ W \in [0..L -> 0..kIcInputSize]
    /\ \A i \in 1..L : IsValue(D[i]) /\ Whole(D, i) /\ (Loads(D, i) \/ Grows(D, W, i))

(* Of them c belong to the open command g, of which CmdSize are kept, and    *)
(* the others are on the line r.                                             *)
Queued(D, L, c, r) == Len(r) = L - c /\ \A i \in 1..(L - c) : r[i] = D[c + i]
Kept(D, c, g)      == /\ g \in Seq(Tokens) /\ Len(g) = (IF c < CmdSize THEN c ELSE CmdSize)
                      /\ \A i \in 1..Len(g) : g[i] = D[i]
                      /\ \A i \in 1..c : D[i] # End
Pending(D, L, c, W, r, g, p) ==
    /\ L \in Nat /\ c \in 0..L
    /\ Reaches(D, L, W) /\ p <= W[0]
    /\ Queued(D, L, c, r) /\ Kept(D, c, g)

(* The last of the W is what the position can be when nothing is pending.    *)
IsPending(c, r, g, p, last) == \E D, L, W : Pending(D, L, c, W, r, g, p) /\ W[L] = last

Loading == {"loading", "sending", "sent", "inferring"}
Bounded ==
    \E c, last : /\ IsPending(c, rx, g_cmd_buf, g_buff_pos, last)
                 /\ ~mlperf => c = 0
                 /\ pc \in Loading => last <= sent

-----------------------------------------------------------------------------
(* A function that grows by d at every place of a range.                     *)
LEMMA Climb ==
  ASSUME NEW f, NEW a \in Nat, NEW b \in Nat, a <= b, NEW d \in {0, 1},
         \A i \in a..b : f[i] \in Int,
         \A i \in (a + 1)..b : f[i] >= f[i - 1] + d
  PROVE  f[b] >= f[a] + d * (b - a)
<1> DEFINE Bad == {n \in Nat : n \in a..b /\ ~(f[n] >= f[a] + d * (n - a))}
<1>1. ASSUME Bad # {} PROVE FALSE
  <2>1. PICK n \in Bad : \A m \in Bad : n <= m
    BY <1>1, LeastNatural
  <2>2. CASE n = a
    BY <2>1, <2>2
  <2>3. CASE n # a
    <3>1. n \in (a + 1)..b /\ n - 1 \in a..b /\ n - 1 \in Nat
      BY <2>1, <2>3
    <3>2. n - 1 \notin Bad
      BY <2>1, <3>1
    <3>3. f[n - 1] >= f[a] + d * ((n - 1) - a)
      BY <3>1, <3>2
    <3>4. f[n] >= f[n - 1] + d
      BY <3>1
    <3>5. f[n] \in Int /\ f[n - 1] \in Int /\ f[a] \in Int
      BY <3>1
    <3>6. f[n] >= f[a] + d * (n - a)
      BY <3>1, <3>3, <3>4, <3>5
    <3> QED
      BY <2>1, <3>6
  <2> QED
    BY <2>2, <2>3
<1> QED
  BY <1>1

(* Behind the first n tokens the position is no further than W[n] if none of *)
(* them ended a load, whatever run of bytes among them has been stored.      *)
LEMMA Moved ==
  ASSUME NEW D, NEW L \in Nat, NEW W, Reaches(D, L, W), NEW n \in 0..L,
         \A i \in 1..n : ~Loads(D, i),
         NEW a \in Nat, NEW b \in Nat, a + b <= n, \A i \in 1..b : IsByte(D[a + i])
  PROVE  W[0] + b <= W[n]
<1>1. kIcInputSize \in Nat
  BY Sizes
<1>2. \A i \in 0..n : W[i] \in Int
  BY <1>1 DEF Reaches
<1>3. ASSUME NEW i \in 1..n
      PROVE  W[i] >= W[i - 1] + 0 /\ (IsByte(D[i]) => W[i] >= W[i - 1] + 1)
  <2>1. Grows(D, W, i)
    BY <1>3 DEF Reaches
  <2>2. W[i - 1] \in Int
    BY <1>2, <1>3
  <2> QED
    BY <2>1, <2>2 DEF Grows
<1>4. W[a] >= W[0] + 0 * (a - 0)
  <2>1. \A i \in (0 + 1)..a : W[i] >= W[i - 1] + 0
    BY <1>3
  <2>2. \A i \in 0..a : W[i] \in Int
    BY <1>2
  <2> QED
    BY <2>1, <2>2, Climb
<1>5. W[a + b] >= W[a] + 1 * ((a + b) - a)
  <2>1. ASSUME NEW i \in (a + 1)..(a + b) PROVE W[i] >= W[i - 1] + 1
    <3>1. i - a \in 1..b /\ a + (i - a) = i /\ i \in 1..n
      BY <2>1
    <3>2. IsByte(D[i])
      BY <3>1
    <3> QED
      BY <1>3, <3>1, <3>2
  <2>2. \A i \in a..(a + b) : W[i] \in Int
    BY <1>2
  <2>3. a + b \in Nat /\ a <= a + b
    OBVIOUS
  <2> QED
    BY <2>1, <2>2, <2>3, Climb
<1>6. W[n] >= W[a + b] + 0 * (n - (a + b))
  <2>1. \A i \in ((a + b) + 1)..n : W[i] >= W[i - 1] + 0
    BY <1>3
  <2>2. \A i \in (a + b)..n : W[i] \in Int
    BY <1>2
  <2> QED
    BY <2>1, <2>2, Climb
<1>7. W[0] \in Int /\ W[a] \in Int /\ W[a + b] \in Int /\ W[n] \in Int
  BY <1>2
<1> QED
  BY <1>4, <1>5, <1>6, <1>7

-----------------------------------------------------------------------------
(* A word is a run of tokens of the line behind its first a.                 *)
Run(word, line, a, k) ==
    /\ a \in Nat /\ word \in Seq(Tokens) /\ Len(word) >= 1 /\ a + Len(word) <= k
    /\ \A j \in 1..Len(word) : word[j] = line[a + j]
Runs(word, line, k) == \E a \in Nat : Run(word, line, a, k)
Unfinished(words, line, k) ==
    /\ Len(words) >= 1
    /\ \E a \in Nat : /\ Run(words[Len(words)], line, a, k)
                      /\ a + Len(words[Len(words)]) = k
AreWords(words, line, k) ==
    /\ words \in Seq(Seq(Tokens))
    /\ \A w \in 1..Len(words) : Runs(words[w], line, k)
    /\ k >= 1 /\ line[k] # Space => Unfinished(words, line, k)

(* A longer part of the line.                                                *)
LEMMA RunsOn ==
  ASSUME NEW word, NEW line, NEW a \in Nat, NEW k \in Nat, Run(word, line, a, k - 1)
  PROVE  Run(word, line, a, k)
BY DEF Run

LEMMA NextToken ==
  ASSUME NEW line \in Seq(Tokens), NEW k \in 1..Len(line), NEW words, AreWords(words, line, k - 1)
  PROVE  AreWords(WithToken(words, line, k), line, k)
<1>1. words \in Seq(Seq(Tokens)) /\ Len(words) \in Nat /\ k \in Nat /\ k >= 1 /\ line[k] \in Tokens
  BY DEF AreWords
<1>2. \A w \in 1..Len(words) : Runs(words[w], line, k)
  BY <1>1, RunsOn DEF AreWords, Runs
<1>3. CASE line[k] = Space
  BY <1>1, <1>2, <1>3 DEF WithToken, AreWords
<1>4. CASE line[k] # Space /\ (k = 1 \/ line[k - 1] = Space)
  <2>1. PICK word : word = <<line[k]>>
    OBVIOUS
  <2>2. word \in Seq(Tokens) /\ Len(word) = 1 /\ word[1] = line[k]
    BY <1>1, <2>1
  <2>3. Run(word, line, k - 1, k)
    <3>1. k - 1 \in Nat /\ (k - 1) + 1 = k
      BY <1>1
    <3> QED
      BY <1>1, <2>2, <3>1 DEF Run
  <2>4. PICK all : all = Append(words, word) /\ all = WithToken(words, line, k)
    BY <1>4, <2>1 DEF WithToken
  <2>5. /\ all \in Seq(Seq(Tokens)) /\ Len(all) = Len(words) + 1 /\ all[Len(words) + 1] = word
        /\ \A w \in 1..Len(words) : all[w] = words[w]
    <3>1. PICK S : S = Seq(Tokens)
      OBVIOUS
    <3>2. words \in Seq(S) /\ word \in S /\ all = Append(words, word)
      BY <1>1, <2>2, <2>4, <3>1
    <3>3. /\ all \in Seq(S) /\ Len(all) = Len(words) + 1 /\ all[Len(words) + 1] = word
          /\ \A w \in 1..Len(words) : all[w] = words[w]
      BY <3>2
    <3> QED
      BY <3>1, <3>3
  <2>6. Unfinished(all, line, k)
    <3>1. k - 1 \in Nat /\ (k - 1) + Len(word) = k
      BY <1>1, <2>2
    <3>2. PICK n : n = Len(all) /\ n >= 1 /\ all[n] = word
      BY <1>1, <2>5
    <3> QED
      BY <2>3, <3>1, <3>2, Zenon DEF Unfinished
  <2>7. ASSUME NEW w \in 1..Len(all) PROVE Runs(all[w], line, k)
    <3>1. CASE w = Len(words) + 1
      BY <1>1, <2>3, <2>5, <3>1 DEF Runs
    <3>2. CASE w # Len(words) + 1
      <4>1. w \in 1..Len(words)
        BY <1>1, <2>5, <3>2
      <4> QED
        BY <1>2, <2>5, <4>1
    <3> QED
      BY <3>1, <3>2
  <2> QED
    BY <2>4, <2>5, <2>6, <2>7 DEF AreWords
<1>5. CASE line[k] # Space /\ ~(k = 1 \/ line[k - 1] = Space)
  <2>1. Unfinished(words, line, k - 1)
    BY <1>1, <1>5 DEF AreWords
  <2>2. PICK n \in Nat : n = Len(words)
    BY <1>1
  <2>3. PICK last : last = words[n]
    OBVIOUS
  <2>4. n >= 1 /\ \E a \in Nat : Run(last, line, a, k - 1) /\ a + Len(last) = k - 1
    BY <2>1, <2>2, <2>3 DEF Unfinished
  <2>5. PICK a \in Nat : Run(last, line, a, k - 1) /\ a + Len(last) = k - 1
    BY <2>4
  <2>6. PICK word : word = Append(last, line[k])
    OBVIOUS
  <2>7. last \in Seq(Tokens) /\ Len(last) \in Nat /\ Len(last) >= 1
        /\ \A j \in 1..Len(last) : last[j] = line[a + j]
    BY <2>5 DEF Run
  <2>8. /\ word \in Seq(Tokens) /\ Len(word) = Len(last) + 1 /\ word[Len(last) + 1] = line[k]
        /\ \A j \in 1..Len(last) : word[j] = last[j]
    BY <1>1, <2>6, <2>7, AppendProperties
  <2>9. Run(word, line, a, k) /\ a + Len(word) = k
    <3>1. a + Len(word) = k /\ a + (Len(last) + 1) = k
      BY <1>1, <2>5, <2>7, <2>8
    <3>2. ASSUME NEW j \in 1..Len(word) PROVE word[j] = line[a + j]
      <4>1. CASE j = Len(last) + 1
        BY <2>8, <3>1, <4>1
      <4>2. CASE j # Len(last) + 1
        BY <2>7, <2>8, <4>2
      <4> QED
        BY <4>1, <4>2
    <3> QED
      BY <2>7, <2>8, <3>1, <3>2 DEF Run
  <2>10. PICK all : all = [words EXCEPT ![n] = word] /\ all = WithToken(words, line, k)
    BY <1>5, <2>2, <2>3, <2>6 DEF WithToken
  <2>11. /\ all \in Seq(Seq(Tokens)) /\ Len(all) = n /\ all[n] = word
         /\ \A w \in 1..n : w # n => all[w] = words[w]
    BY <1>1, <2>2, <2>4, <2>8, <2>10, ExceptSeq
  <2>12. Unfinished(all, line, k)
    BY <2>4, <2>9, <2>11 DEF Unfinished
  <2>13. ASSUME NEW w \in 1..Len(all) PROVE Runs(all[w], line, k)
    <3>1. CASE w = n
      BY <2>9, <2>11, <3>1 DEF Runs
    <3>2. CASE w # n
      BY <1>2, <2>2, <2>11, <3>2
    <3> QED
      BY <3>1, <3>2
  <2> QED
    BY <2>10, <2>11, <2>12, <2>13 DEF AreWords
<1> QED
  BY <1>3, <1>4, <1>5

(* What strtok finds, in the whole line and in every part of it.             *)
LEMMA SplitWords ==
  ASSUME g_cmd_buf \in Seq(Tokens), NEW k \in Nat, k <= Len(g_cmd_buf)
  PROVE  AreWords(Split[k], g_cmd_buf, k)
<1>1. PICK line \in Seq(Tokens) : line = g_cmd_buf
  OBVIOUS
<1>2. Len(line) \in Nat
  BY <1>1
<1>3. Split[0] = <<>> /\ \A n \in 1..Len(line) : Split[n] = WithToken(Split[n - 1], line, n)
  BY <1>1, <1>2, SplitIs, Zenon
<1> DEFINE Bad == {n \in Nat : n <= Len(line) /\ ~AreWords(Split[n], line, n)}
<1>4. ASSUME Bad # {} PROVE FALSE
  <2>1. PICK n \in Bad : \A m \in Bad : n <= m
    BY <1>4, LeastNatural
  <2>2. CASE n = 0
    <3>1. AreWords(<<>>, line, 0)
      BY DEF AreWords
    <3> QED
      BY <1>3, <2>1, <2>2, <3>1
  <2>3. CASE n # 0
    <3>1. n \in 1..Len(line) /\ n - 1 \in Nat /\ n - 1 <= Len(line) /\ ~(n <= n - 1)
      BY <1>2, <2>1, <2>3
    <3>2. AreWords(Split[n - 1], line, n - 1)
      BY <2>1, <3>1
    <3>3. AreWords(WithToken(Split[n - 1], line, n), line, n)
      BY <3>1, <3>2, NextToken, Zenon
    <3> QED
      BY <1>3, <2>1, <3>1, <3>3
  <2> QED
    BY <2>2, <2>3
<1> QED
  BY <1>1, <1>2, <1>4

LEMMA WordsAre ==
  ASSUME g_cmd_buf \in Seq(Tokens)
  PROVE  AreWords(Words, g_cmd_buf, Len(g_cmd_buf))
BY SplitWords DEF Words

-----------------------------------------------------------------------------
(* The commands.                                                             *)
(* A whole load command stays one, whatever else is received.                *)
Announced(words) ==
    /\ Len(words) >= 3 /\ words[1] = <<Token("db")>> /\ words[2] = <<Token("load")>>
    /\ words[3][1] = Num(kIcInputSize)

LEMMA StaysAnnounced ==
  ASSUME NEW line \in Seq(Tokens), NEW k \in 6..Len(line), NEW words,
         AreWords(words, line, k - 1), Announced(words)
  PROVE  Announced(WithToken(words, line, k))
<1>1. words \in Seq(Seq(Tokens)) /\ Len(words) \in Nat /\ Len(words) >= 3
  BY DEF AreWords, Announced
<1>2. CASE line[k] = Space
  BY <1>2 DEF WithToken
<1>3. CASE line[k] # Space /\ (k = 1 \/ line[k - 1] = Space)
  <2>1. PICK S : S = Seq(Tokens)
    OBVIOUS
  <2>2. PICK all : all = Append(words, <<line[k]>>) /\ all = WithToken(words, line, k)
    BY <1>3 DEF WithToken
  <2>3. words \in Seq(S) /\ <<line[k]>> \in S
    BY <1>1, <2>1
  <2>4. Len(all) = Len(words) + 1 /\ \A w \in 1..Len(words) : all[w] = words[w]
    BY <2>2, <2>3
  <2>5. Len(all) >= 3 /\ all[1] = words[1] /\ all[2] = words[2] /\ all[3] = words[3]
    BY <1>1, <2>4
  <2> QED
    BY <2>2, <2>5 DEF Announced
<1>4. CASE line[k] # Space /\ ~(k = 1 \/ line[k - 1] = Space)
  <2>1. PICK n \in Nat : n = Len(words)
    BY <1>1
  <2>2. PICK word : word = Append(words[n], line[k])
    OBVIOUS
  <2>3. PICK all : all = [words EXCEPT ![n] = word] /\ all = WithToken(words, line, k)
    BY <1>4, <2>1, <2>2 DEF WithToken
  <2>4. words[n] \in Seq(Tokens) /\ Len(words[n]) >= 1
    <3>1. n \in 1..Len(words)
      BY <1>1, <2>1
    <3>2. \E a \in Nat : Run(words[n], line, a, k - 1)
      BY <3>1 DEF AreWords, Runs
    <3> QED
      BY <3>2 DEF Run
  <2>5. word[1] = words[n][1] /\ word \in Seq(Tokens)
    BY <2>2, <2>4
  <2>6. Len(all) = n /\ all[n] = word /\ \A w \in 1..n : w # n => all[w] = words[w]
    BY <1>1, <2>1, <2>3, <2>5, ExceptSeq
  <2>7. Len(all) >= 3 /\ all[1] = words[1] /\ all[2] = words[2] /\ all[3][1] = words[3][1]
    <3>1. all[1] = words[1] /\ all[2] = words[2] /\ n >= 3
      BY <1>1, <2>1, <2>6
    <3>2. all[3][1] = words[3][1]
      <4>1. CASE n = 3
        BY <2>5, <2>6, <4>1
      <4>2. CASE n # 3
        BY <2>6, <3>1, <4>2
      <4> QED
        BY <4>1, <4>2
    <3> QED
      BY <2>6, <3>1, <3>2
  <2> QED
    BY <2>3, <2>7 DEF Announced
<1> QED
  BY <1>2, <1>3, <1>4

LEMMA LoadWords ==
  ASSUME g_cmd_buf \in Seq(Tokens), Len(g_cmd_buf) >= 5,
         g_cmd_buf[1] = Token("db"), g_cmd_buf[2] = Space, g_cmd_buf[3] = Token("load"),
         g_cmd_buf[4] = Space, g_cmd_buf[5] = Num(kIcInputSize)
  PROVE  Announced(Words)
<1>1. PICK line \in Seq(Tokens) : line = g_cmd_buf
  OBVIOUS
<1>2. Len(line) \in Nat /\ Len(line) >= 5
  BY <1>1
<1>3. Split[0] = <<>> /\ \A k \in 1..Len(line) : Split[k] = WithToken(Split[k - 1], line, k)
  BY <1>1, <1>2, SplitIs, Zenon
<1>4. Announced(Split[5])
  <2>1. /\ Token("db") \in Tokens /\ Token("db") # Space
        /\ Token("load") \in Tokens /\ Token("load") # Space
        /\ Num(kIcInputSize) \in Tokens /\ Num(kIcInputSize) # Space
    BY TokensAre, Sizes DEF Keywords
  <2>2. Split[5] = ThreeWords(Token("db"), Token("load"), Num(kIcInputSize))
    BY <2>1, FirstThree
  <2> QED
    BY <2>2 DEF ThreeWords, Announced
<1>5. ASSUME NEW n \in Nat, n <= Len(line) PROVE AreWords(Split[n], line, n)
  BY <1>1, <1>5, SplitWords, Zenon
<1> DEFINE Bad == {n \in Nat : 5 <= n /\ n <= Len(line) /\ ~Announced(Split[n])}
<1>6. ASSUME Bad # {} PROVE FALSE
  <2>1. PICK n \in Bad : \A m \in Bad : n <= m
    BY <1>6, LeastNatural
  <2>2. n \in 6..Len(line) /\ n - 1 \in Nat /\ 5 <= n - 1 /\ n - 1 <= Len(line) /\ ~(n <= n - 1)
    BY <1>2, <1>4, <2>1
  <2>3. Announced(Split[n - 1]) /\ AreWords(Split[n - 1], line, n - 1)
    BY <1>5, <2>1, <2>2
  <2>4. Announced(WithToken(Split[n - 1], line, n))
    BY <2>2, <2>3, StaysAnnounced, Zenon
  <2> QED
    BY <1>2, <1>3, <2>1, <2>2, <2>4
<1>7. Announced(Split[Len(line)])
  BY <1>2, <1>6
<1> QED
  BY <1>1, <1>7 DEF Words

(* The digits in front of the first token that is none.                      *)
LEMMA LeadingBytes ==
  ASSUME NEW word \in Seq(Tokens), NEW valid, NEW bytes,
         valid = SelectInSeq(word, LAMBDA t : t.w # "byte"),
         bytes = IF valid = 0 THEN Len(word) ELSE valid - 1
  PROVE  bytes \in Nat /\ bytes <= Len(word) /\ \A j \in 1..bytes : IsByte(word[j])
<1>1. PICK I : I = {i \in 1..Len(word) : word[i].w # "byte"}
  OBVIOUS
<1>2. valid = IF I # {} THEN Min(I) ELSE 0
  BY <1>1 DEF SelectInSeq
<1>3. Len(word) \in Nat
  OBVIOUS
<1>4. CASE I = {}
  BY <1>1, <1>2, <1>3, <1>4 DEF IsByte
<1>5. CASE I # {}
  <2>1. I \subseteq Nat
    BY <1>1
  <2>2. \E n \in I : \A m \in I : n <= m
    BY <1>5, <2>1, LeastNatural
  <2>3. Min(I) \in I /\ \A m \in I : Min(I) <= m
    BY <2>2 DEF Min
  <2>4. valid \in I /\ \A m \in I : valid <= m
    BY <1>2, <1>5, <2>3
  <2>5. bytes = valid - 1 /\ valid \in 1..Len(word)
    BY <1>1, <2>4
  <2>6. ASSUME NEW j \in 1..bytes PROVE IsByte(word[j])
    BY <1>1, <1>3, <2>4, <2>5 DEF IsByte
  <2> QED
    BY <1>3, <2>5, <2>6
<1> QED
  BY <1>4, <1>5

(* What a command does to the buffer, when no digits are lost outside it.    *)
Moves(p, q, line) ==
    \/ q = p \/ q = 0
    \/ \E a, b \in Nat : /\ a + b <= Len(line) /\ \A i \in 1..b : IsByte(line[a + i])
                         /\ q \in Nat /\ q <= p + b

LEMMA StoresDigits ==
  ASSUME DbData, g_cmd_buf \in Seq(Tokens), \A i \in 1..Len(g_cmd_buf) : IsValue(g_cmd_buf[i]),
         g_buff_size \in Nat, g_buff_pos \in Nat
  PROVE  /\ Moves(g_buff_pos, g_buff_pos', g_cmd_buf)
         /\ g_buff_size' = g_buff_size
         /\ \E bytes \in Nat : \E word :
              /\ gp_buff' = [a \in DOMAIN gp_buff |->
                               IF a - g_buff_pos \in 0..(bytes - 1)
                               THEN word[a - g_buff_pos + 1].v ELSE gp_buff[a]]
              /\ \A j \in 1..bytes : word[j].v \in Bytes
<1>1. PICK word : word = Words[2]
  OBVIOUS
<1>2. 2 <= Len(Words)
  BY DEF DbData, HasWord
<1>3. AreWords(Words, g_cmd_buf, Len(g_cmd_buf))
  BY WordsAre
<1>4. PICK a \in Nat : Run(word, g_cmd_buf, a, Len(g_cmd_buf))
  <2>1. Len(Words) \in Nat
    BY <1>3 DEF AreWords
  <2> QED
    BY <1>1, <1>2, <1>3, <2>1 DEF AreWords, Runs
<1>5. /\ word \in Seq(Tokens) /\ Len(word) \in Nat /\ a + Len(word) <= Len(g_cmd_buf)
      /\ \A j \in 1..Len(word) : word[j] = g_cmd_buf[a + j]
  BY <1>4 DEF Run
<1>6. PICK valid : valid = SelectInSeq(word, LAMBDA t : t.w # "byte")
  OBVIOUS
<1>7. PICK bytes : bytes = IF valid = 0 THEN Len(word) ELSE valid - 1
  OBVIOUS
<1>8. bytes \in Nat /\ bytes <= Len(word) /\ \A j \in 1..bytes : IsByte(word[j])
  BY <1>5, <1>6, <1>7, LeadingBytes
<1>9. PICK stored : /\ stored \in 0..bytes
                    /\ g_buff_pos' = g_buff_pos + stored
                    /\ gp_buff' = [x \in DOMAIN gp_buff |->
                                     IF x - g_buff_pos \in 0..(stored - 1)
                                     THEN word[x - g_buff_pos + 1].v ELSE gp_buff[x]]
                    /\ g_buff_size' = g_buff_size
  <2>1. PICK odd : odd = (Cardinality({i \in DOMAIN word : OddlyLong(word[i])}) % 2 = 1)
    OBVIOUS
  <2>2. PICK done : done = (g_buff_size - g_buff_pos \in 1..bytes)
    OBVIOUS
  <2>3. PICK stored : stored = IF odd THEN 0 ELSE IF done THEN g_buff_size - g_buff_pos ELSE bytes
    OBVIOUS
  <2>4. /\ g_buff_pos' = g_buff_pos + stored
        /\ gp_buff' = [x \in DOMAIN gp_buff |->
                         IF x - g_buff_pos \in 0..(stored - 1)
                         THEN word[x - g_buff_pos + 1].v ELSE gp_buff[x]]
        /\ g_buff_size' = g_buff_size
    BY <1>1, <1>6, <1>7, <2>1, <2>2, <2>3, Zenon DEF DbData
  <2>5. stored \in 0..bytes
    <3>1. CASE odd
      BY <1>8, <2>3, <3>1
    <3>2. CASE ~odd /\ done
      <4>1. g_buff_size - g_buff_pos \in 1..bytes
        BY <2>2, <3>2, Zenon
      <4> QED
        BY <1>8, <2>3, <3>2, <4>1
    <3>3. CASE ~odd /\ ~done
      BY <1>8, <2>3, <3>3
    <3> QED
      BY <3>1, <3>2, <3>3
  <2> QED
    BY <2>4, <2>5, Zenon
<1>10. stored \in Nat /\ stored <= bytes
  BY <1>8, <1>9
<1>11. \A j \in 1..stored : IsByte(word[j]) /\ word[j] = g_cmd_buf[a + j] /\ word[j].v \in Bytes
  <2>1. ASSUME NEW j \in 1..stored
        PROVE  IsByte(word[j]) /\ word[j] = g_cmd_buf[a + j] /\ word[j].v \in Bytes
    <3>1. j \in 1..bytes /\ j \in 1..Len(word) /\ a + j \in 1..Len(g_cmd_buf)
      BY <1>5, <1>8, <1>10
    <3>2. IsByte(word[j]) /\ word[j] = g_cmd_buf[a + j]
      BY <1>5, <1>8, <3>1
    <3>3. IsValue(g_cmd_buf[a + j])
      BY <3>1
    <3> QED
      BY <3>2, <3>3 DEF IsValue
  <2> QED
    BY <2>1
<1>12. Moves(g_buff_pos, g_buff_pos', g_cmd_buf)
  <2>1. a + stored <= Len(g_cmd_buf) /\ \A i \in 1..stored : IsByte(g_cmd_buf[a + i])
    <3>1. PICK N : N = Len(g_cmd_buf)
      OBVIOUS
    <3>2. N \in Nat /\ a + Len(word) <= N
      BY <1>5, <3>1
    <3>3. a + stored <= N
      BY <1>5, <1>8, <1>10, <3>2
    <3>4. \A i \in 1..stored : IsByte(g_cmd_buf[a + i])
      BY <1>11, Zenon
    <3> QED
      BY <3>1, <3>3, <3>4
  <2>2. g_buff_pos' \in Nat /\ g_buff_pos' <= g_buff_pos + stored
    BY <1>9, <1>10
  <2> QED
    BY <1>10, <2>1, <2>2, Zenon DEF Moves
<1> QED
  BY <1>9, <1>10, <1>11, <1>12, Zenon

BufferTyped == g_buff_size \in 0..kIcInputSize /\ gp_buff \in [0..(MaxDbInputSize - 1) -> Bytes]

LEMMA AnnouncedSize ==
  ASSUME g_cmd_buf \in Seq(Tokens), \A i \in 1..Len(g_cmd_buf) : IsValue(g_cmd_buf[i]), HasWord(3)
  PROVE  atoi(3) \in 0..kIcInputSize
<1>1. AreWords(Words, g_cmd_buf, Len(g_cmd_buf))
  BY WordsAre
<1>2. Runs(Words[3], g_cmd_buf, Len(g_cmd_buf))
  <2>1. Len(Words) \in Nat
    BY <1>1 DEF AreWords
  <2>2. 3 \in 1..Len(Words)
    BY <2>1 DEF HasWord
  <2> QED
    BY <1>1, <2>2, Zenon DEF AreWords
<1>3. PICK a \in Nat : Run(Words[3], g_cmd_buf, a, Len(g_cmd_buf))
  BY <1>2 DEF Runs
<1>4. PICK word : word = Words[3]
  OBVIOUS
<1>5. Len(word) \in Nat /\ Len(word) >= 1 /\ a + Len(word) <= Len(g_cmd_buf) /\ word[1] = g_cmd_buf[a + 1]
  BY <1>3, <1>4 DEF Run
<1>6. IsValue(word[1])
  BY <1>5
<1>7. kIcInputSize \in Nat
  BY Sizes
<1> QED
  BY <1>4, <1>6, <1>7 DEF IsValue, atoi

LEMMA CommandMoves ==
  ASSUME Command, g_cmd_buf \in Seq(Tokens), \A i \in 1..Len(g_cmd_buf) : IsValue(g_cmd_buf[i]),
         BufferTyped, g_buff_pos \in Nat
  PROVE  /\ BufferTyped' /\ Moves(g_buff_pos, g_buff_pos', g_cmd_buf)
         /\ Announced(Words) => g_buff_pos' = 0
<1>0. kIcInputSize \in Nat /\ kIcInputSize >= 3
  BY Sizes, EvalAssumption DEF EvalAssumption
<1>1. CASE Name \/ Results \/ Other \/ Infer
  <2>1. UNCHANGED buffer
    BY <1>1, Zenon DEF Name, Results, Other, Infer
  <2>2. BufferTyped' /\ g_buff_pos' = g_buff_pos
    BY <2>1 DEF buffer, BufferTyped
  <2>3. ASSUME Announced(Words) PROVE FALSE
    <3>1. 3 <= Len(Words) /\ Words[1] = <<Token("db")>> /\ Words[2] = <<Token("load")>>
      BY <2>3 DEF Announced
    <3>2. Len(Words) \in Nat
      BY WordsAre DEF AreWords
    <3>3. IsWord(1, "db") /\ IsWord(2, "load") /\ HasWord(2) /\ HasWord(3)
      BY <3>1, <3>2 DEF IsWord, HasWord
    <3>4. \A w : IsWord(1, w) => w = "db"
      BY <3>1, Apart, Zenon DEF IsWord
    <3>5. ~IsWord(2, "print")
      <4>1. Words[2] # <<Token("print")>>
        BY <3>1, Apart, "load" # "print"
      <4> QED
        BY <4>1, Zenon DEF IsWord
    <3>6. ~Name /\ ~Results /\ ~Infer
      BY <3>4 DEF Name, Results, Infer
    <3>7. ~Other
      BY <3>3, <3>5, Zenon DEF Other
    <3> QED
      BY <1>1, <3>6, <3>7
  <2> QED
    BY <2>2, <2>3, Zenon DEF Moves
<1>2. CASE DbLoad
  <2>1. HasWord(3) /\ g_buff_size' = atoi(3) /\ gp_buff' = gp_buff
        /\ g_buff_pos' = (IF atoi(3) = 0 THEN g_buff_pos ELSE 0)
    BY <1>2 DEF DbLoad
  <2>2. atoi(3) \in 0..kIcInputSize
    BY <2>1, AnnouncedSize, Zenon
  <2>3. BufferTyped'
    BY <2>1, <2>2 DEF BufferTyped
  <2>4. Moves(g_buff_pos, g_buff_pos', g_cmd_buf)
    BY <2>1, Zenon DEF Moves
  <2>5. ASSUME Announced(Words) PROVE atoi(3) # 0
    <3>1. Words[3][1] = Num(kIcInputSize)
      BY <2>5 DEF Announced
    <3> QED
      BY <1>0, <3>1 DEF atoi, Num
  <2> QED
    BY <2>1, <2>3, <2>4, <2>5
<1>3. CASE DbData
  <2>1. g_buff_size \in Nat
    BY <1>0 DEF BufferTyped
  <2>2. /\ Moves(g_buff_pos, g_buff_pos', g_cmd_buf) /\ g_buff_size' = g_buff_size
        /\ \E bytes \in Nat : \E word :
              /\ gp_buff' = [a \in DOMAIN gp_buff |->
                               IF a - g_buff_pos \in 0..(bytes - 1)
                               THEN word[a - g_buff_pos + 1].v ELSE gp_buff[a]]
              /\ \A j \in 1..bytes : word[j].v \in Bytes
    BY <1>3, <2>1, StoresDigits, Zenon
  <2>3. gp_buff' \in [0..(MaxDbInputSize - 1) -> Bytes]
    <3>10. PICK bytes \in Nat : \E word :
              /\ gp_buff' = [a \in DOMAIN gp_buff |->
                               IF a - g_buff_pos \in 0..(bytes - 1)
                               THEN word[a - g_buff_pos + 1].v ELSE gp_buff[a]]
              /\ \A j \in 1..bytes : word[j].v \in Bytes
      BY <2>2
    <3>1. PICK word :
              /\ gp_buff' = [a \in DOMAIN gp_buff |->
                               IF a - g_buff_pos \in 0..(bytes - 1)
                               THEN word[a - g_buff_pos + 1].v ELSE gp_buff[a]]
              /\ \A j \in 1..bytes : word[j].v \in Bytes
      BY <3>10
    <3>2. gp_buff \in [0..(MaxDbInputSize - 1) -> Bytes]
      BY DEF BufferTyped
    <3>3. PICK p \in Nat : p = g_buff_pos
      OBVIOUS
    <3>4. ASSUME NEW a \in 0..(MaxDbInputSize - 1)
          PROVE  (IF a - p \in 0..(bytes - 1) THEN word[a - p + 1].v ELSE gp_buff[a]) \in Bytes
      <4>1. CASE a - p \in 0..(bytes - 1)
        <5>1. (a - p) + 1 \in 1..bytes
          BY <4>1
        <5> QED
          BY <3>1, <4>1, <5>1
      <4>2. CASE ~(a - p \in 0..(bytes - 1))
        BY <3>2, <4>2
      <4> QED
        BY <4>1, <4>2
    <3>5. DOMAIN gp_buff = 0..(MaxDbInputSize - 1)
      BY <3>2
    <3>6. \A D, S, f : (\A a \in D : f[a] \in S) => [a \in D |-> f[a]] \in [D -> S]
      OBVIOUS
    <3>7. PICK f : f = [a \in 0..(MaxDbInputSize - 1) |->
                          IF a - p \in 0..(bytes - 1) THEN word[a - p + 1].v ELSE gp_buff[a]]
      OBVIOUS
    <3>8. f \in [0..(MaxDbInputSize - 1) -> Bytes]
      BY <3>4, <3>7, Zenon
    <3>9. gp_buff' = f
      BY <3>1, <3>3, <3>5, <3>7, Zenon
    <3> QED
      BY <3>8, <3>9
  <2>4. BufferTyped'
    BY <2>2, <2>3 DEF BufferTyped
  <2>5. ~Announced(Words)
    <3>1. ~IsWord(2, "load")
      BY <1>3 DEF DbData
    <3>2. Len(Words) \in Nat
      BY WordsAre DEF AreWords
    <3> QED
      BY <3>1, <3>2 DEF IsWord, Announced
  <2> QED
    BY <2>2, <2>4, <2>5
<1> QED
  BY <1>1, <1>2, <1>3 DEF Command

-----------------------------------------------------------------------------
(* What has been worked on is forgotten.                                     *)
Forgettable(t) == t \notin {Space, Token("db"), Token("load")}
Behind(D, n, L) == [i \in 1..(L - n) |-> D[n + i]]
BoundsFrom(W, n, L) == [i \in 0..(L - n) |-> W[n + i]]

LEMMA Forgotten ==
  ASSUME NEW D, NEW L \in Nat, NEW W, Reaches(D, L, W), NEW n \in 1..L,
         Forgettable(D[n])
  PROVE  Reaches(Behind(D, n, L), L - n, BoundsFrom(W, n, L))
<1>1. PICK E : E = [i \in 1..(L - n) |-> D[n + i]]
  OBVIOUS
<1>2. PICK V : V = [i \in 0..(L - n) |-> W[n + i]]
  OBVIOUS
<1>3. n \in Nat /\ L - n \in Nat
  OBVIOUS
<1>4. V \in [0..(L - n) -> 0..kIcInputSize]
  <2>1. ASSUME NEW i \in 0..(L - n) PROVE W[n + i] \in 0..kIcInputSize
    BY DEF Reaches
  <2> QED
    BY <1>2, <2>1
<1>5. ASSUME NEW i \in 1..(L - n)
      PROVE  IsValue(E[i]) /\ Whole(E, i) /\ (Loads(E, i) \/ Grows(E, V, i))
  <2>1. PICK k \in 1..L : k = n + i
    OBVIOUS
  <2>2. IsValue(D[k]) /\ Whole(D, k) /\ (Loads(D, k) \/ Grows(D, W, k))
    BY DEF Reaches
  <2>3. E[i] = D[k] /\ V[i] = W[k] /\ V[i - 1] = W[k - 1]
    <3>1. V[i - 1] = W[n + (i - 1)] /\ n + (i - 1) = k - 1
      BY <1>2, <2>1
    <3> QED
      BY <1>1, <1>2, <2>1, <3>1
  <2>4. \A j \in {1, 2, 3} : i > j => E[i - j] = D[k - j]
    <3>1. TAKE j \in {1, 2, 3}
    <3>2. i > j => E[i - j] = D[n + (i - j)] /\ n + (i - j) = k - j
      BY <1>1, <2>1
    <3> QED
      BY <3>2
  <2>5. i = 1 => D[k - 1] = D[n]
    BY <2>1
  <2>6. i = 2 => D[k - 2] = D[n]
    BY <2>1
  <2>7. i > 3 => k - 3 # 0
    BY <2>1
  <2>8. Whole(E, i)
    <3>1. SUFFICES ASSUME D[k] = Token("load")
                   PROVE  /\ i >= 3 /\ E[i - 1] = Space /\ E[i - 2] = Token("db")
                          /\ i = 3 \/ E[i - 3] = End
      BY <2>3 DEF Whole
    <3>2. k >= 3 /\ D[k - 1] = Space /\ D[k - 2] = Token("db") /\ (k = 3 \/ D[k - 3] = End)
      BY <2>2, <3>1 DEF Whole
    <3>3. i # 1
      BY <2>5, <3>2 DEF Forgettable
    <3>4. i # 2
      BY <2>6, <3>2 DEF Forgettable
    <3>5. i >= 3 /\ k # 3
      BY <2>1, <3>3, <3>4
    <3> QED
      BY <2>4, <3>2, <3>5
  <2>9. ASSUME Loads(D, k) PROVE Loads(E, i)
    <3>1. k >= 3 /\ D[k - 2] = Token("load") /\ D[k - 1] = Space /\ D[k] = Num(kIcInputSize)
      BY <2>9 DEF Loads
    <3>2. i # 1
      BY <2>5, <3>1 DEF Forgettable
    <3>3. i # 2
      BY <2>6, <3>1 DEF Forgettable
    <3>4. i >= 3
      BY <3>2, <3>3
    <3> QED
      BY <2>3, <2>4, <3>1, <3>4 DEF Loads
  <2>10. ASSUME Grows(D, W, k) PROVE Grows(E, V, i)
    BY <2>3, <2>10 DEF Grows
  <2> QED
    BY <2>2, <2>3, <2>8, <2>9, <2>10
<1> QED
  <2>1. Reaches(E, L - n, V)
    BY <1>4, <1>5, Zenon DEF Reaches
  <2> QED
    BY <1>1, <1>2, <2>1 DEF Behind, BoundsFrom

(* Only the first word of a line begins a load.                              *)
LEMMA LoadsFirst ==
  ASSUME NEW D, NEW L \in Nat, NEW W, Reaches(D, L, W), NEW n \in 1..L,
         \A i \in 1..(n - 1) : D[i] # End, NEW i \in 1..n, Loads(D, i)
  PROVE  /\ i = 5 /\ D[1] = Token("db") /\ D[2] = Space /\ D[3] = Token("load") /\ D[4] = Space
         /\ D[5] = Num(kIcInputSize)
<1>1. i >= 3 /\ D[i - 2] = Token("load") /\ D[i - 1] = Space /\ D[i] = Num(kIcInputSize)
  BY DEF Loads
<1>2. Whole(D, i - 2)
  <2>1. i - 2 \in 1..L
    BY <1>1
  <2> QED
    BY <2>1 DEF Reaches
<1>3. i - 2 >= 3 /\ D[(i - 2) - 1] = Space /\ D[(i - 2) - 2] = Token("db") /\ (i - 2 = 3 \/ D[(i - 2) - 3] = End)
  BY <1>1, <1>2 DEF Whole
<1>4. i - 2 = 3
  <2>1. SUFFICES ASSUME i - 2 # 3 PROVE FALSE
    OBVIOUS
  <2>2. (i - 2) - 3 \in 1..(n - 1)
    BY <1>3, <2>1
  <2> QED
    BY <1>3, <2>1, <2>2
<1>5. i = 5 /\ i - 1 = 4 /\ i - 2 = 3 /\ (i - 2) - 1 = 2 /\ (i - 2) - 2 = 1
  BY <1>4
<1> QED
  BY <1>1, <1>3, <1>5

(* The position stays below what it can reach.                               *)
LEMMA CommandBounded ==
  ASSUME NEW D, NEW L, NEW c, NEW W, Pending(D, L, c, W, rx, g_cmd_buf, g_buff_pos),
         c + 1 <= L, D[c + 1] = End, Command, BufferTyped, g_buff_pos \in Nat
  PROVE  BufferTyped' /\ g_buff_pos' \in Nat /\ g_buff_pos' <= W[c + 1]
<1>1. PICK g \in Seq(Tokens) : g = g_cmd_buf
  BY DEF Pending, Kept
<1>2. PICK p \in Nat : p = g_buff_pos
  OBVIOUS
<1>3. PICK q : q = g_buff_pos'
  OBVIOUS
<1>4. /\ L \in Nat /\ c \in 0..L /\ Reaches(D, L, W) /\ p <= W[0]
      /\ Len(g) = (IF c < CmdSize THEN c ELSE CmdSize)
      /\ \A i \in 1..Len(g) : g[i] = D[i]
      /\ \A i \in 1..c : D[i] # End
  BY <1>1, <1>2 DEF Pending, Kept
<1>5. Len(g) \in Nat /\ Len(g) <= c /\ (c >= 5 => Len(g) >= 5)
  <2>1. CmdSize \in Nat /\ CmdSize >= 5
    BY Sizes
  <2> QED
    BY <1>4, <2>1
<1>6. \A i \in 1..Len(g) : IsValue(g[i])
  <2>1. ASSUME NEW i \in 1..Len(g) PROVE IsValue(g[i])
    <3>1. i \in 1..L
      BY <1>4, <1>5
    <3>2. IsValue(D[i])
      BY <1>4, <3>1 DEF Reaches
    <3> QED
      BY <1>4, <3>2
  <2> QED
    BY <2>1
<1>7. BufferTyped' /\ Moves(p, q, g) /\ (Announced(Words) => q = 0)
  BY <1>1, <1>2, <1>3, <1>6, CommandMoves, Zenon
<1>8. PICK n \in 1..L : n = c + 1
  BY <1>4
<1>9. \A i \in 0..L : W[i] \in Nat
  BY Sizes, <1>4 DEF Reaches
<1>10. CASE \E i \in 1..n : Loads(D, i)
  <2>1. PICK i \in 1..n : Loads(D, i)
    BY <1>10
  <2>2. \A j \in 1..(n - 1) : D[j] # End
    BY <1>4, <1>8
  <2>3. /\ i = 5 /\ D[1] = Token("db") /\ D[2] = Space /\ D[3] = Token("load") /\ D[4] = Space
        /\ D[5] = Num(kIcInputSize)
    BY <1>4, <2>1, <2>2, LoadsFirst, Zenon
  <2>4. n # 5
    BY <1>8, <2>3, TokensAre, Sizes
  <2>5. Len(g) >= 5
    BY <1>4, <1>5, <1>8, <2>3, <2>4
  <2>6. g[1] = D[1] /\ g[2] = D[2] /\ g[3] = D[3] /\ g[4] = D[4] /\ g[5] = D[5]
    BY <1>4, <1>5, <2>5
  <2>7. Announced(Words)
    BY <1>1, <2>3, <2>5, <2>6, LoadWords, Zenon
  <2> QED
    BY <1>3, <1>7, <1>8, <1>9, <2>7
<1>11. CASE \A i \in 1..n : ~Loads(D, i)
  <2>1. ASSUME NEW a \in Nat, NEW b \in Nat, a + b <= Len(g), \A i \in 1..b : IsByte(g[a + i])
        PROVE  W[0] + b <= W[n]
    <3>1. \A i \in 1..b : IsByte(D[a + i])
      <4>1. TAKE i \in 1..b
      <4>2. a + i \in 1..Len(g)
        BY <1>5, <2>1
      <4>3. IsByte(g[a + i])
        BY <2>1
      <4> QED
        BY <1>4, <4>2, <4>3
    <3>2. a + b <= n /\ n \in 0..L
      <4>1. PICK l \in Nat : l = Len(g)
        BY <1>5
      <4>2. a + b <= l
        BY <2>1, <4>1, Zenon
      <4>3. l <= c
        BY <1>5, <4>1, Zenon
      <4>4. c \in Nat
        BY <1>4
      <4>5. n = c + 1 /\ n \in 0..L
        BY <1>8
      <4> QED
        BY <4>2, <4>3, <4>4, <4>5
    <3> QED
      BY <1>4, <1>11, <3>1, <3>2, Moved, Zenon
  <2>2. W[0] + 0 <= W[n]
    <3>1. 0 + 0 <= Len(g) /\ \A i \in 1..0 : IsByte(g[0 + i])
      BY <1>5
    <3> QED
      BY <2>1, <3>1
  <2>3. W[0] \in Nat /\ W[n] \in Nat
    BY <1>4, <1>9
  <2>4. CASE q = p \/ q = 0
    BY <1>3, <1>4, <1>7, <1>8, <2>2, <2>3, <2>4
  <2>5. CASE \E a, b \in Nat : /\ a + b <= Len(g) /\ \A i \in 1..b : IsByte(g[a + i])
                               /\ q \in Nat /\ q <= p + b
    <3>1. PICK a \in Nat, b \in Nat : /\ a + b <= Len(g) /\ \A i \in 1..b : IsByte(g[a + i])
                                      /\ q \in Nat /\ q <= p + b
      BY <2>5
    <3>2. W[0] + b <= W[n]
      BY <2>1, <3>1
    <3> QED
      BY <1>3, <1>4, <1>7, <1>8, <2>3, <3>1, <3>2
  <2> QED
    BY <1>7, <2>4, <2>5 DEF Moves
<1> QED
  BY <1>10, <1>11

LEMMA NextOnLine ==
  ASSUME NEW D, NEW L \in Nat, NEW c \in 0..L, NEW r \in Seq(Tokens), Queued(D, L, c, r), r # <<>>
  PROVE  c + 1 <= L /\ Head(r) = D[c + 1] /\ Queued(D, L, c + 1, Tail(r))
<1>1. Len(r) = L - c /\ \A i \in 1..(L - c) : r[i] = D[c + i]
  BY DEF Queued
<1>2. Len(r) \in Nat /\ Len(r) >= 1 /\ Head(r) = r[1] /\ Len(Tail(r)) = Len(r) - 1
      /\ \A i \in 1..Len(Tail(r)) : Tail(r)[i] = r[i + 1]
  BY HeadTailProperties
<1>3. c + 1 <= L
  BY <1>1, <1>2
<1>4. Head(r) = D[c + 1]
  BY <1>1, <1>2, <1>3
<1>5. Len(Tail(r)) = L - (c + 1)
  BY <1>1, <1>2
<1>6. ASSUME NEW i \in 1..(L - (c + 1)) PROVE Tail(r)[i] = D[(c + 1) + i]
  <2>1. i \in 1..Len(Tail(r)) /\ i + 1 \in 1..(L - c) /\ c + (i + 1) = (c + 1) + i
    BY <1>5
  <2> QED
    BY <1>1, <1>2, <2>1
<1> QED
  BY <1>3, <1>4, <1>5, <1>6 DEF Queued

LEMMA EmptyBuffer ==
  ASSUME NEW D, NEW g \in Seq(Tokens), Len(g) = 0
  PROVE  Kept(D, 0, g)
BY Sizes DEF Kept


LEMMA AllForgotten ==
  ASSUME NEW D, NEW L, NEW c, NEW W, NEW r \in Seq(Tokens), NEW g, NEW p, Pending(D, L, c, W, r, g, p),
         r # <<>>, Forgettable(Head(r)),
         NEW q, q <= W[c + 1], NEW h \in Seq(Tokens), Len(h) = 0
  PROVE  IsPending(0, Tail(r), h, q, W[L])
<1>1. L \in Nat /\ c \in 0..L /\ Reaches(D, L, W) /\ Queued(D, L, c, r)
  BY DEF Pending
<1>2. c + 1 <= L /\ Head(r) = D[c + 1] /\ Queued(D, L, c + 1, Tail(r))
  BY <1>1, NextOnLine, Zenon
<1>3. PICK n \in 1..L : n = c + 1
  BY <1>1, <1>2
<1>4. PICK E : E = Behind(D, n, L)
  OBVIOUS
<1>5. PICK V : V = BoundsFrom(W, n, L)
  OBVIOUS
<1>6. Reaches(E, L - n, V)
  <2>1. Forgettable(D[n])
    BY <1>2, <1>3
  <2> QED
    BY <1>1, <1>4, <1>5, <2>1, Forgotten, Zenon
<1>7. L - n \in Nat /\ 0 \in 0..(L - n)
  BY <1>1, <1>3
<1>8. V[0] = W[n] /\ V[L - n] = W[L]
  <2>1. V[0] = W[n + 0] /\ V[L - n] = W[n + (L - n)]
    BY <1>5, <1>7 DEF BoundsFrom
  <2>2. n + 0 = n /\ n + (L - n) = L
    BY <1>1, <1>3
  <2> QED
    BY <2>1, <2>2
<1>9. Queued(E, L - n, 0, Tail(r))
  <2>1. Len(Tail(r)) = L - n /\ \A i \in 1..(L - n) : Tail(r)[i] = D[n + i]
    BY <1>2, <1>3 DEF Queued
  <2>2. \A i \in 1..(L - n) : 0 + i = i /\ E[i] = D[n + i]
    BY <1>4 DEF Behind
  <2>3. (L - n) - 0 = L - n
    BY <1>7
  <2> QED
    BY <2>1, <2>2, <2>3 DEF Queued
<1>10. Kept(E, 0, h)
  BY EmptyBuffer
<1>11. PICK K : K = L - n
  OBVIOUS
<1>12. Pending(E, K, 0, V, Tail(r), h, q)
  BY <1>3, <1>6, <1>7, <1>8, <1>9, <1>10, <1>11 DEF Pending
<1> QED
  BY <1>8, <1>11, <1>12, Zenon DEF IsPending

LEMMA KeepsNext ==
  ASSUME NEW D, NEW c \in Nat, NEW g, Kept(D, c, g), NEW t \in Tokens, t = D[c + 1], t # End
  PROVE  Kept(D, c + 1, IF Len(g) < CmdSize THEN Append(g, t) ELSE g)
<1>1. CmdSize \in Nat
  BY Sizes
<1>2. /\ g \in Seq(Tokens) /\ Len(g) = (IF c < CmdSize THEN c ELSE CmdSize)
      /\ \A i \in 1..Len(g) : g[i] = D[i]
      /\ \A i \in 1..c : D[i] # End
  BY DEF Kept
<1>3. \A i \in 1..(c + 1) : D[i] # End
  <2>1. TAKE i \in 1..(c + 1)
  <2>2. i = c + 1 \/ i \in 1..c
    OBVIOUS
  <2> QED
    BY <1>2, <2>2
<1>4. CASE c < CmdSize
  <2>1. PICK h : h = Append(g, t)
    OBVIOUS
  <2>2. Len(g) = c
    BY <1>2, <1>4
  <2>3. h \in Seq(Tokens) /\ Len(h) = c + 1 /\ h[c + 1] = t /\ \A i \in 1..c : h[i] = g[i]
    <3>1. PICK S : S = Tokens
      OBVIOUS
    <3>2. g \in Seq(S) /\ t \in S
      BY <1>2, <3>1
    <3>3. h \in Seq(S) /\ Len(h) = c + 1 /\ h[c + 1] = t /\ \A i \in 1..c : h[i] = g[i]
      BY <2>1, <2>2, <3>2
    <3> QED
      BY <3>1, <3>3
  <2>4. \A i \in 1..(c + 1) : h[i] = D[i]
    <3>1. TAKE i \in 1..(c + 1)
    <3>2. i = c + 1 \/ i \in 1..c
      OBVIOUS
    <3> QED
      BY <1>2, <2>2, <2>3, <3>2
  <2>5. Len(h) = (IF c + 1 < CmdSize THEN c + 1 ELSE CmdSize)
    BY <1>1, <1>4, <2>3
  <2>6. Kept(D, c + 1, h)
    BY <1>3, <2>3, <2>4, <2>5 DEF Kept
  <2> QED
    BY <1>4, <2>1, <2>2, <2>6
<1>5. CASE ~(c < CmdSize)
  <2>1. Len(g) = CmdSize /\ ~(Len(g) < CmdSize) /\ ~(c + 1 < CmdSize)
    BY <1>1, <1>2, <1>5
  <2>2. Kept(D, c + 1, g)
    BY <1>2, <1>3, <2>1 DEF Kept
  <2> QED
    BY <2>1, <2>2
<1> QED
  BY <1>4, <1>5

LEMMA DeviceBounded ==
  ASSUME NEW D, NEW L, NEW c, NEW W, Pending(D, L, c, W, rx, g_cmd_buf, g_buff_pos), ~mlperf => c = 0,
         rx \in Seq(Tokens), Device, BufferTyped, g_buff_pos \in Nat
  PROVE  /\ BufferTyped' /\ g_buff_pos' \in Nat
         /\ \E d : /\ IsPending(d, rx', g_cmd_buf', g_buff_pos', W[L])
                   /\ ~mlperf' => d = 0
<1>1. PICK r \in Seq(Tokens) : r = rx
  OBVIOUS
<1>2. PICK g : g = g_cmd_buf
  OBVIOUS
<1>3. /\ L \in Nat /\ c \in 0..L /\ Reaches(D, L, W) /\ g_buff_pos <= W[0]
      /\ Queued(D, L, c, r) /\ Kept(D, c, g)
  BY <1>1, <1>2 DEF Pending
<1>4. r # <<>> /\ rx' = Tail(r)
  BY <1>1, DeviceFrame
<1>5. c + 1 <= L /\ Head(r) = D[c + 1] /\ Queued(D, L, c + 1, Tail(r))
  BY <1>3, <1>4, NextOnLine, Zenon
<1>6. c \in Nat /\ c + 1 \in 1..L /\ c + 1 \in 0..L
  BY <1>3, <1>5
<1>7. IsValue(D[c + 1])
  BY <1>3, <1>6 DEF Reaches
<1>8. Pending(D, L, c, W, r, g, g_buff_pos)
  BY <1>1, <1>2
<1>9. <<>> \in Seq(Tokens) /\ Len(<<>>) = 0
  OBVIOUS
<1>10. CASE Command
  <2>1. Head(r) = End /\ g_cmd_buf' = <<>>
    BY <1>1, <1>10 DEF Command
  <2>2. BufferTyped' /\ g_buff_pos' \in Nat /\ g_buff_pos' <= W[c + 1]
    BY <1>5, <1>10, <2>1, CommandBounded, Zenon
  <2>3. Forgettable(Head(r))
    BY <2>1, TokensAre DEF Keywords, Forgettable
  <2>4. IsPending(0, rx', g_cmd_buf', g_buff_pos', W[L])
    <3>1. PICK h \in Seq(Tokens) : h = <<>> /\ Len(h) = 0
      BY <1>9
    <3>2. IsPending(0, Tail(r), h, g_buff_pos', W[L])
      BY <1>4, <1>8, <2>2, <2>3, <3>1, AllForgotten, Zenon
    <3> QED
      BY <1>4, <2>1, <3>1, <3>2, Zenon
  <2> QED
    BY <2>2, <2>4, Zenon
<1>11. CASE Character
  <2>1. /\ Head(r) # End /\ mlperf /\ mlperf' = mlperf /\ UNCHANGED buffer
        /\ g_cmd_buf' = (IF Len(g) < CmdSize THEN Append(g, Head(r)) ELSE g)
    BY <1>1, <1>2, <1>11 DEF Character
  <2>2. BufferTyped' /\ g_buff_pos' = g_buff_pos
    BY <2>1 DEF buffer, BufferTyped
  <2>3. Head(r) \in Tokens
    BY <1>5, <1>7 DEF IsValue
  <2>4. Kept(D, c + 1, g_cmd_buf')
    BY <1>3, <1>5, <1>6, <2>1, <2>3, KeepsNext, Zenon
  <2>5. Pending(D, L, c + 1, W, rx', g_cmd_buf', g_buff_pos')
    BY <1>3, <1>4, <1>5, <1>6, <2>2, <2>4, Zenon DEF Pending
  <2> QED
    BY <2>1, <2>2, <2>5, Zenon DEF IsPending
<1>12. CASE MenuExit \/ MenuProject \/ EnterMlperf
  <2>1. /\ ~mlperf /\ Head(r) \in {Token("x"), Num(3), Num(0)} /\ g_cmd_buf' = g /\ UNCHANGED buffer
    BY <1>1, <1>2, <1>12 DEF MenuExit, MenuProject, EnterMlperf, AtMenu
  <2>2. BufferTyped' /\ g_buff_pos' = g_buff_pos
    BY <2>1 DEF buffer, BufferTyped
  <2>3. Forgettable(Head(r))
    BY <2>1, TokensAre, Apart DEF Keywords, Forgettable
  <2>4. c = 0
    BY <2>1
  <2>5. g \in Seq(Tokens) /\ Len(g) = 0
    BY <1>3, <2>4, Sizes DEF Kept
  <2>6. \A i \in 1..1 : ~Loads(D, i)
    BY DEF Loads
  <2>7. W[0] + 0 <= W[1]
    <3>1. 1 \in 0..L /\ 0 + 0 <= 1 /\ \A i \in 1..0 : IsByte(D[0 + i])
      BY <1>6, <2>4
    <3> QED
      BY <1>3, <2>6, <3>1, Moved
  <2>8. W[0] \in Nat /\ W[1] \in Nat
    BY <1>3, <1>6, <2>4, Sizes DEF Reaches
  <2>9. g_buff_pos' <= W[c + 1]
    BY <1>3, <2>2, <2>4, <2>7, <2>8
  <2>10. IsPending(0, rx', g_cmd_buf', g_buff_pos', W[L])
    <3>1. IsPending(0, Tail(r), g, g_buff_pos', W[L])
      BY <1>4, <1>8, <2>3, <2>5, <2>9, AllForgotten, Zenon
    <3> QED
      BY <1>4, <2>1, <3>1, Zenon
  <2> QED
    BY <2>2, <2>10, Zenon
<1> QED
  BY <1>10, <1>11, <1>12 DEF Device

-----------------------------------------------------------------------------
(* A line written behind what is pending: V[i] is what the position can be   *)
(* behind its first i tokens.                                                *)
LoadsInFront(line, i) ==
    line[i] = Token("load") => i = 3 /\ line[2] = Space /\ line[1] = Token("db")
Suited(line, V, first) ==
    /\ line \in Seq(Tokens) /\ V \in [0..Len(line) -> 0..kIcInputSize] /\ V[0] = first
    /\ \A i \in 1..Len(line) :
          IsValue(line[i]) /\ LoadsInFront(line, i) /\ (Loads(line, i) \/ Grows(line, V, i))

LEMMA Extended ==
  ASSUME NEW D, NEW L, NEW c, NEW W, NEW r \in Seq(Tokens), NEW g, NEW p, Pending(D, L, c, W, r, g, p),
         NEW line, NEW V, Suited(line, V, W[L]),
         L = 0 \/ D[L] = End \/ \A i \in 1..Len(line) : line[i] # Token("load")
  PROVE  IsPending(c, r \o line, g, p, V[Len(line)])
<1>1. /\ L \in Nat /\ c \in 0..L /\ Reaches(D, L, W) /\ p <= W[0]
      /\ Queued(D, L, c, r) /\ Kept(D, c, g)
  BY DEF Pending
<1>2. line \in Seq(Tokens)
  BY DEF Suited
<1>3. PICK n \in Nat : n = Len(line)
  BY <1>2
<1>4. PICK E : E = [i \in 1..(L + n) |-> IF i <= L THEN D[i] ELSE line[i - L]]
  OBVIOUS
<1>5. PICK Y : Y = [i \in 0..(L + n) |-> IF i <= L THEN W[i] ELSE V[i - L]]
  OBVIOUS
<1>6. \A i \in 1..L : E[i] = D[i]
  BY <1>1, <1>4
<1>7. \A i \in 0..L : Y[i] = W[i]
  BY <1>1, <1>5
<1>8. \A j \in 1..n : E[L + j] = line[j] /\ Y[L + j] = V[j]
  <2>1. TAKE j \in 1..n
  <2>2. L + j \in 1..(L + n) /\ L + j \in 0..(L + n) /\ ~(L + j <= L) /\ (L + j) - L = j
    BY <1>1
  <2> QED
    BY <1>4, <1>5, <2>2
<1>9. V \in [0..n -> 0..kIcInputSize] /\ V[0] = W[L]
  BY <1>3 DEF Suited
<1>10. Y \in [0..(L + n) -> 0..kIcInputSize]
  <2>1. ASSUME NEW i \in 0..(L + n) PROVE (IF i <= L THEN W[i] ELSE V[i - L]) \in 0..kIcInputSize
    <3>1. CASE i <= L
      BY <1>1, <3>1 DEF Reaches
    <3>2. CASE ~(i <= L)
      <4>1. i - L \in 0..n
        BY <1>1, <3>2
      <4> QED
        BY <1>9, <3>2, <4>1
    <3> QED
      BY <3>1, <3>2
  <2> QED
    BY <1>5, <2>1
<1>11. ASSUME NEW i \in 1..L
       PROVE  IsValue(E[i]) /\ Whole(E, i) /\ (Loads(E, i) \/ Grows(E, Y, i))
  <2>1. IsValue(D[i]) /\ Whole(D, i) /\ (Loads(D, i) \/ Grows(D, W, i))
    BY <1>1 DEF Reaches
  <2>2. E[i] = D[i] /\ Y[i] = W[i] /\ Y[i - 1] = W[i - 1]
    <3>1. i \in 0..L /\ i - 1 \in 0..L
      BY <1>1
    <3> QED
      BY <1>6, <1>7, <3>1
  <2>3. i >= 3 => E[i - 1] = D[i - 1] /\ E[i - 2] = D[i - 2]
    <3>1. i >= 3 => i - 1 \in 1..L /\ i - 2 \in 1..L
      BY <1>1
    <3> QED
      BY <1>6, <3>1
  <2>4. i >= 3 /\ i # 3 => E[i - 3] = D[i - 3]
    <3>1. i >= 3 /\ i # 3 => i - 3 \in 1..L
      BY <1>1
    <3> QED
      BY <1>6, <3>1
  <2>5. Whole(E, i)
    BY <2>1, <2>2, <2>3, <2>4 DEF Whole
  <2>6. Loads(D, i) => Loads(E, i)
    BY <2>2, <2>3 DEF Loads
  <2>7. Grows(D, W, i) => Grows(E, Y, i)
    BY <2>2 DEF Grows
  <2> QED
    BY <2>1, <2>2, <2>5, <2>6, <2>7
<1>12. ASSUME NEW j \in 1..n
       PROVE  IsValue(E[L + j]) /\ Whole(E, L + j) /\ (Loads(E, L + j) \/ Grows(E, Y, L + j))
  <2>1. IsValue(line[j]) /\ LoadsInFront(line, j) /\ (Loads(line, j) \/ Grows(line, V, j))
    BY <1>3 DEF Suited
  <2>2. E[L + j] = line[j] /\ Y[L + j] = V[j]
    BY <1>8
  <2>3. Y[(L + j) - 1] = V[j - 1]
    <3>1. CASE j = 1
      <4>1. (L + j) - 1 = L /\ j - 1 = 0 /\ L \in 0..L
        BY <1>1, <3>1
      <4> QED
        BY <1>7, <1>9, <4>1
    <3>2. CASE j # 1
      <4>1. (L + j) - 1 = L + (j - 1) /\ j - 1 \in 1..n
        BY <1>1, <3>2
      <4> QED
        BY <1>8, <4>1
    <3> QED
      BY <3>1, <3>2
  <2>4. j >= 3 => E[(L + j) - 1] = line[j - 1] /\ E[(L + j) - 2] = line[j - 2]
    <3>1. j >= 3 => j - 1 \in 1..n /\ j - 2 \in 1..n /\ (L + j) - 1 = L + (j - 1) /\ (L + j) - 2 = L + (j - 2)
      BY <1>1
    <3> QED
      BY <1>8, <3>1
  <2>5. Whole(E, L + j)
    <3>1. SUFFICES ASSUME line[j] = Token("load")
                   PROVE  /\ L + j >= 3 /\ E[(L + j) - 1] = Space /\ E[(L + j) - 2] = Token("db")
                          /\ L + j = 3 \/ E[(L + j) - 3] = End
      BY <2>2 DEF Whole
    <3>2. j = 3 /\ line[2] = Space /\ line[1] = Token("db")
      BY <2>1, <3>1 DEF LoadsInFront
    <3>3. L = 0 \/ D[L] = End
      BY <1>3, <3>1
    <3>4. L # 0 => L \in 1..L
      BY <1>1
    <3>5. L + j = 3 \/ E[(L + j) - 3] = End
      <4>1. (L + j) - 3 = L
        BY <1>1, <3>2
      <4> QED
        BY <1>1, <1>6, <3>2, <3>3, <3>4, <4>1
    <3> QED
      BY <1>1, <2>4, <3>2, <3>5
  <2>6. Loads(line, j) => Loads(E, L + j)
    BY <1>1, <2>2, <2>4 DEF Loads
  <2>7. Grows(line, V, j) => Grows(E, Y, L + j)
    BY <2>2, <2>3 DEF Grows
  <2> QED
    BY <2>1, <2>2, <2>5, <2>6, <2>7
<1>13. PICK K \in Nat : K = L + n
  BY <1>1
<1>14. Reaches(E, K, Y)
  <2>1. ASSUME NEW i \in 1..K
        PROVE  IsValue(E[i]) /\ Whole(E, i) /\ (Loads(E, i) \/ Grows(E, Y, i))
    <3>1. CASE i <= L
      <4>1. i \in 1..L
        BY <1>1, <3>1
      <4> QED
        BY <1>11, <4>1
    <3>2. CASE ~(i <= L)
      <4>1. i - L \in 1..n /\ L + (i - L) = i
        BY <1>1, <1>13, <3>2
      <4> QED
        BY <1>12, <4>1
    <3> QED
      BY <3>1, <3>2
  <2> QED
    BY <1>10, <1>13, <2>1 DEF Reaches
<1>15. PICK s : s = r \o line
  OBVIOUS
<1>16. Queued(E, K, c, s)
  <2>1. Len(r) = L - c /\ \A i \in 1..(L - c) : r[i] = D[c + i]
    BY <1>1 DEF Queued
  <2>2. Len(s) = Len(r) + n /\ \A i \in 1..Len(s) : s[i] = IF i <= Len(r) THEN r[i] ELSE line[i - Len(r)]
    BY <1>2, <1>3, <1>15, ConcatProperties
  <2>3. Len(s) = K - c
    BY <1>1, <1>13, <2>1, <2>2
  <2>4. ASSUME NEW i \in 1..(K - c) PROVE s[i] = E[c + i]
    <3>1. CASE i <= L - c
      <4>1. i \in 1..(L - c) /\ c + i \in 1..L
        BY <1>1, <3>1
      <4> QED
        BY <1>6, <2>1, <2>2, <2>3, <3>1, <4>1
    <3>2. CASE ~(i <= L - c)
      <4>1. i - (L - c) \in 1..n /\ L + (i - (L - c)) = c + i
        BY <1>1, <1>13, <3>2
      <4> QED
        BY <1>8, <2>1, <2>2, <2>3, <3>2, <4>1
    <3> QED
      BY <3>1, <3>2
  <2> QED
    BY <2>3, <2>4 DEF Queued
<1>17. Kept(E, c, g)
  <2>1. /\ g \in Seq(Tokens) /\ Len(g) = (IF c < CmdSize THEN c ELSE CmdSize)
        /\ \A i \in 1..Len(g) : g[i] = D[i]
        /\ \A i \in 1..c : D[i] # End
    BY <1>1 DEF Kept
  <2>2. Len(g) \in Nat /\ Len(g) <= c
    BY <1>1, <2>1, Sizes
  <2>3. \A i \in 1..c : i \in 1..L
    BY <1>1
  <2>4. \A i \in 1..Len(g) : i \in 1..L
    BY <1>1, <2>2
  <2> QED
    BY <1>6, <2>1, <2>3, <2>4 DEF Kept
<1>18. Y[0] = W[0]
  BY <1>1, <1>7
<1>19. c \in 0..K
  BY <1>1, <1>13
<1>20. Pending(E, K, c, Y, s, g, p)
  BY <1>1, <1>14, <1>16, <1>17, <1>18, <1>19 DEF Pending
<1>21. Y[K] = V[n]
  <2>1. CASE n = 0
    <3>1. K = L /\ L \in 0..L
      BY <1>1, <1>13, <2>1
    <3> QED
      BY <1>7, <1>9, <2>1, <3>1
  <2>2. CASE n # 0
    <3>1. n \in 1..n
      BY <2>2
    <3> QED
      BY <1>8, <1>13, <3>1
  <2> QED
    BY <2>1, <2>2
<1> QED
  BY <1>3, <1>15, <1>20, <1>21, Zenon DEF IsPending

(* What a restart leaves of the line.                                        *)
StaysPending(c, r, g, p) == \E v \in 0..kIcInputSize : IsPending(c, r, g, p, v)

LEMMA Shortened ==
  ASSUME NEW D, NEW L, NEW c, NEW W, NEW r \in Seq(Tokens), NEW g, NEW p, Pending(D, L, c, W, r, g, p),
         NEW k \in 0..Len(r)
  PROVE  StaysPending(c, SubSeq(r, 1, k), g, p)
<1>1. /\ L \in Nat /\ c \in 0..L /\ Reaches(D, L, W) /\ p <= W[0]
      /\ Queued(D, L, c, r) /\ Kept(D, c, g)
  BY DEF Pending
<1>2. Len(r) = L - c /\ \A i \in 1..(L - c) : r[i] = D[c + i]
  BY <1>1 DEF Queued
<1>3. PICK K \in Nat : K = c + k
  BY <1>1
<1>4. K \in 0..L /\ K - c = k
  BY <1>1, <1>2, <1>3
<1>5. PICK V : V = [i \in 0..K |-> W[i]]
  OBVIOUS
<1>6. PICK s : s = SubSeq(r, 1, k)
  OBVIOUS
<1>7. Queued(D, K, c, s)
  <2>1. Len(s) = k /\ \A i \in 1..k : s[i] = r[i]
    <3>1. \A i \in 1..k : r[i] \in Tokens
      BY <1>2
    <3> QED
      BY <1>6, <3>1, SubSeqProperties
  <2>2. \A i \in 1..k : i \in 1..(L - c)
    BY <1>1, <1>2
  <2> QED
    BY <1>2, <1>4, <2>1, <2>2 DEF Queued
<1>8. V \in [0..K -> 0..kIcInputSize]
  <2>1. ASSUME NEW i \in 0..K PROVE W[i] \in 0..kIcInputSize
    <3>1. i \in 0..L
      BY <1>1, <1>4
    <3> QED
      BY <1>1, <3>1 DEF Reaches
  <2> QED
    BY <1>5, <2>1
<1>9. Reaches(D, K, V)
  <2>1. ASSUME NEW i \in 1..K
        PROVE  IsValue(D[i]) /\ Whole(D, i) /\ (Loads(D, i) \/ Grows(D, V, i))
    <3>1. i \in 1..L /\ i \in 0..K /\ i - 1 \in 0..K
      BY <1>1, <1>4
    <3>2. IsValue(D[i]) /\ Whole(D, i) /\ (Loads(D, i) \/ Grows(D, W, i))
      BY <1>1, <3>1 DEF Reaches
    <3>3. V[i] = W[i] /\ V[i - 1] = W[i - 1]
      BY <1>5, <3>1
    <3> QED
      BY <3>2, <3>3 DEF Grows
  <2> QED
    BY <1>8, <2>1 DEF Reaches
<1>10. V[0] = W[0] /\ V[K] \in 0..kIcInputSize
  BY <1>5, <1>8
<1>11. c \in 0..K
  BY <1>1, <1>3
<1>12. Pending(D, K, c, V, s, g, p)
  BY <1>1, <1>7, <1>9, <1>10, <1>11 DEF Pending
<1> QED
  BY <1>6, <1>10, <1>12, Zenon DEF IsPending, StaysPending

(* Tokens of which a command is no load and has no bytes.                    *)
PlainTokens == {Token("x"), Token("name"), Token("infer"), Token("nibble"), Space, End}
               \cup {Num(n) : n \in 0..kIcInputSize}
PlainLine(line) == line \in Seq(Tokens) /\ \A i \in 1..Len(line) : line[i] \in PlainTokens
Level(line, v) == [i \in 0..Len(line) |-> v]

LEMMA PlainIs ==
  ASSUME NEW t \in PlainTokens
  PROVE  IsValue(t) /\ ~IsByte(t) /\ t # Token("load")
<1>1. kIcInputSize \in Nat
  BY Sizes
<1>2. CASE t \in {Num(n) : n \in 0..kIcInputSize}
  <2>1. t \in Tokens
    BY <1>2, TokensAre
  <2>2. t.w = "num" /\ t.v \in 0..kIcInputSize
    BY <1>1, <1>2 DEF Num
  <2>3. Token("load").w = "load"
    BY DEF Token
  <2> QED
    BY <2>1, <2>2, <2>3 DEF IsValue, IsByte
<1>3. CASE t \in {Token("x"), Token("name"), Token("infer"), Token("nibble"), Space, End}
  <2>1. t \in Tokens
    BY <1>3, TokensAre DEF Keywords
  <2>2. t.w \in {"x", "name", "infer", "nibble", "space", "end"}
    BY <1>3 DEF Token, Space, End
  <2>3. Token("load").w = "load"
    BY DEF Token
  <2> QED
    BY <2>1, <2>2, <2>3 DEF IsValue, IsByte
<1> QED
  BY <1>2, <1>3 DEF PlainTokens

LEMMA PlainSuits ==
  ASSUME NEW line, PlainLine(line), NEW v \in 0..kIcInputSize
  PROVE  /\ Suited(line, Level(line, v), v) /\ Level(line, v)[Len(line)] = v
         /\ \A i \in 1..Len(line) : line[i] # Token("load")
<1>1. line \in Seq(Tokens)
  BY DEF PlainLine
<1>2. PICK n \in Nat : n = Len(line)
  BY <1>1
<1>3. PICK V : V = [i \in 0..n |-> v] /\ V = Level(line, v)
  BY <1>2 DEF Level
<1>4. ASSUME NEW i \in 1..n
      PROVE  IsValue(line[i]) /\ line[i] # Token("load") /\ Grows(line, V, i)
  <2>1. line[i] \in PlainTokens
    BY <1>2 DEF PlainLine
  <2>2. IsValue(line[i]) /\ ~IsByte(line[i]) /\ line[i] # Token("load")
    BY <2>1, PlainIs
  <2>3. V[i] = v /\ V[i - 1] = v /\ v \in Int
    BY <1>3, Sizes
  <2> QED
    BY <2>2, <2>3 DEF Grows
<1>5. V \in [0..n -> 0..kIcInputSize] /\ V[0] = v /\ V[n] = v
  BY <1>3
<1>6. Suited(line, V, v)
  BY <1>1, <1>2, <1>4, <1>5 DEF Suited, LoadsInFront
<1> QED
  BY <1>2, <1>3, <1>4, <1>5, <1>6

LEMMA PlainExtends ==
  ASSUME NEW c, NEW r \in Seq(Tokens), NEW g, NEW p, NEW v \in 0..kIcInputSize, IsPending(c, r, g, p, v),
         NEW line, PlainLine(line)
  PROVE  IsPending(c, r \o line, g, p, v)
<1>1. PICK D, L, W : Pending(D, L, c, W, r, g, p) /\ W[L] = v
  BY DEF IsPending
<1>2. PICK V : V = Level(line, v)
  OBVIOUS
<1>3. Suited(line, V, v) /\ V[Len(line)] = v /\ \A i \in 1..Len(line) : line[i] # Token("load")
  BY <1>2, PlainSuits, Zenon
<1>4. IsPending(c, r \o line, g, p, V[Len(line)])
  BY <1>1, <1>3, Extended, Zenon
<1> QED
  BY <1>3, <1>4, Zenon

LEMMA CutPending ==
  ASSUME NEW D, NEW L, NEW c, NEW W, NEW r \in Seq(Tokens), NEW g, NEW p, Pending(D, L, c, W, r, g, p),
         NEW s \in Cut(r)
  PROVE  StaysPending(c, s, g, p)
<1>1. CASE \E k \in 0..Len(r) : s = SubSeq(r, 1, k)
  <2>1. PICK k \in 0..Len(r) : s = SubSeq(r, 1, k)
    BY <1>1
  <2>2. StaysPending(c, SubSeq(r, 1, k), g, p)
    BY Shortened, Zenon
  <2> QED
    BY <2>1, <2>2, Zenon
<1>2. CASE \E k \in 0..Len(r), part \in Remnants : s = Append(SubSeq(r, 1, k), part)
  <2>1. PICK k \in 0..Len(r), part \in Remnants : s = Append(SubSeq(r, 1, k), part)
    BY <1>2
  <2>2. PICK v \in 0..kIcInputSize : IsPending(c, SubSeq(r, 1, k), g, p, v)
    BY Shortened, Zenon DEF StaysPending
  <2>3. PICK front \in Seq(Tokens) : front = SubSeq(r, 1, k)
    <3>1. SubSeq(r, 1, k) \in Cut(r)
      BY DEF Cut
    <3> QED
      BY <3>1, Cuts
  <2>4. PICK t \in Tokens : t = part
    BY TokensAre, Sizes DEF Keywords, Remnants
  <2>5. PICK line : line = <<t>>
    OBVIOUS
  <2>6. s = front \o line
    BY <2>1, <2>3, <2>4, <2>5, AppendIsConcat
  <2>7. PlainLine(line)
    <3>1. line \in Seq(Tokens) /\ Len(line) = 1 /\ line[1] = t
      BY <2>5
    <3>2. t \in PlainTokens
      BY <2>4 DEF PlainTokens, Remnants
    <3> QED
      BY <3>1, <3>2 DEF PlainLine
  <2>8. IsPending(c, front, g, p, v)
    BY <2>2, <2>3, Zenon
  <2>9. IsPending(c, front \o line, g, p, v)
    BY <2>7, <2>8, PlainExtends, Zenon
  <2> QED
    BY <2>6, <2>9, Zenon DEF StaysPending
<1> QED
  BY <1>1, <1>2, CutsAre

-----------------------------------------------------------------------------
(* The lines of the script.                                                  *)
LEMMA PlainLines == PlainLine(EnterLine) /\ PlainLine(NameLine) /\ PlainLine(InferLine)
<1>0. {Num(0), Num(1), Num(3)} \subseteq PlainTokens
  <2>1. kIcInputSize > 3 /\ kIcInputSize \in Nat
    BY EvalAssumption, Sizes DEF EvalAssumption
  <2> QED
    BY <2>1 DEF PlainTokens
<1>1. PlainLine(NameLine)
  <2>1. NameLine \in Seq(Tokens) /\ Len(NameLine) = 2
    BY FixedLines DEF IsLine
  <2>2. NameLine[1] = Token("name") /\ NameLine[2] = End
    BY DEF NameLine
  <2> QED
    BY <2>1, <2>2 DEF PlainLine, PlainTokens
<1>2. PlainLine(InferLine)
  <2>1. InferLine \in Seq(Tokens) /\ Len(InferLine) = 6
    BY FixedLines DEF IsLine
  <2>2. /\ InferLine[1] = Token("infer") /\ InferLine[2] = Space /\ InferLine[3] = Num(1)
        /\ InferLine[4] = Space /\ InferLine[5] = Num(0) /\ InferLine[6] = End
    BY DEF InferLine
  <2>3. \A i \in 1..6 : InferLine[i] \in {Token("infer"), Space, Num(1), Num(0), End}
    BY <2>2
  <2>4. \A i \in 1..6 : InferLine[i] \in PlainTokens
    BY <1>0, <2>3 DEF PlainTokens
  <2> QED
    BY <2>1, <2>4 DEF PlainLine
<1>3. PlainLine(EnterLine)
  BY <1>0, EnterLineIs DEF PlainLine, PlainTokens
<1> QED
  BY <1>1, <1>2, <1>3

(* A load takes the position back to zero.                                   *)
LEMMA LoadSuits ==
  ASSUME NEW v \in 0..kIcInputSize
  PROVE  \E V : Suited(LoadLine, V, v) /\ V[Len(LoadLine)] = 0
<1>1. kIcInputSize \in Nat
  BY Sizes
<1>2. PICK V : V = [i \in 0..6 |-> IF i < 5 THEN v ELSE 0]
  OBVIOUS
<1>3. LoadLine \in Seq(Tokens) /\ Len(LoadLine) = 6
  BY FixedLines DEF IsLine
<1>4. PICK line : line = LoadLine
  OBVIOUS
<1>5. /\ line[1] = Token("db") /\ line[2] = Space /\ line[3] = Token("load") /\ line[4] = Space
      /\ line[5] = Num(kIcInputSize) /\ line[6] = End
  BY <1>4 DEF LoadLine
<1>6. V \in [0..6 -> 0..kIcInputSize] /\ V[0] = v /\ V[6] = 0
  BY <1>1, <1>2
<1>7. /\ Token("db") \in Tokens /\ Token("load") \in Tokens /\ Space \in Tokens /\ End \in Tokens
      /\ Num(kIcInputSize) \in Tokens
  BY <1>1, TokensAre DEF Keywords
<1>8. \A t \in {Token("db"), Token("load"), Space, End} : t.w \notin {"byte", "num"}
  BY DEF Token, Space, End
<1>9. Num(kIcInputSize).w = "num" /\ Num(kIcInputSize).v = kIcInputSize
  BY DEF Num
<1>10. \A i \in 1..6 : IsValue(line[i]) /\ ~IsByte(line[i])
  <2>1. TAKE i \in 1..6
  <2>2. CASE i = 5
    BY <1>1, <1>5, <1>7, <1>9, <2>2 DEF IsValue, IsByte
  <2>3. CASE i # 5
    <3>1. line[i] \in {Token("db"), Token("load"), Space, End}
      BY <1>5, <2>3
    <3> QED
      BY <1>7, <1>8, <3>1 DEF IsValue, IsByte
  <2> QED
    BY <2>2, <2>3
<1>11. \A i \in 1..6 : LoadsInFront(line, i)
  <2>1. /\ Token("db") # Token("load") /\ Space # Token("load") /\ End # Token("load")
        /\ Num(kIcInputSize) # Token("load")
    BY Apart, "db" # "load", "num" # "load", TokensAre, Sizes DEF Keywords
  <2>2. \A i \in 1..6 : line[i] = Token("load") => i = 3
    BY <1>5, <2>1
  <2> QED
    BY <1>5, <2>2 DEF LoadsInFront
<1>12. \A i \in 1..6 : Loads(line, i) \/ Grows(line, V, i)
  <2>1. Loads(line, 5)
    BY <1>5 DEF Loads
  <2>2. \A i \in 1..6 : i # 5 => V[i] >= V[i - 1]
    BY <1>1, <1>2
  <2> QED
    BY <1>10, <2>1, <2>2 DEF Grows
<1>13. Suited(line, V, v)
  BY <1>3, <1>4, <1>6, <1>10, <1>11, <1>12 DEF Suited
<1> QED
  BY <1>3, <1>4, <1>6, <1>13

(* A line of data moves it on by the number of its bytes.                    *)
LEMMA DataSuits ==
  ASSUME NEW v \in Nat, NEW n \in 1..SendBytes, v + n <= kIcInputSize, NEW bytes \in [1..n -> Bytes]
  PROVE  /\ \E V : Suited(DataLine(bytes), V, v) /\ V[Len(DataLine(bytes))] = v + n
         /\ \A i \in 1..Len(DataLine(bytes)) : DataLine(bytes)[i] # Token("load")
<1>1. kIcInputSize \in Nat /\ n \in Nat
  BY Sizes
<1>2. PICK V : V = [i \in 0..(n + 3) |-> IF i <= 2 THEN v ELSE IF i = n + 3 THEN v + n ELSE v + (i - 2)]
  OBVIOUS
<1>3. bytes \in [1..n -> Int]
  <2>1. \A D, S, T : S \subseteq T => [D -> S] \subseteq [D -> T]
    OBVIOUS
  <2>2. Bytes \subseteq Int
    BY DEF Bytes
  <2> QED
    BY <2>1, <2>2
<1>4. PICK line : line = DataLine(bytes)
  OBVIOUS
<1>5. /\ line \in Seq(Tokens) /\ Len(line) = n + 3
      /\ line[n + 3] = End /\ line[1] = Token("db") /\ line[2] = Space
      /\ \A i \in 1..n : line[i + 2] = Hex(bytes[i])
  <2>1. /\ IsLine(line) /\ Len(line) = n + 3 /\ line[1] = Token("db") /\ line[2] = Space
        /\ \A i \in 1..n : line[i + 2] = Hex(bytes[i])
    BY <1>3, <1>4, DataLineIs
  <2>2. n + 3 \in 1..(n + 3)
    BY <1>1
  <2> QED
    BY <2>1, <2>2 DEF IsLine
<1>6. V \in [0..(n + 3) -> 0..kIcInputSize] /\ V[0] = v /\ V[n + 3] = v + n
  BY <1>1, <1>2
<1>7. \A t \in {Token("db"), Space, End} : IsValue(t) /\ ~IsByte(t) /\ t # Token("load")
  <2>1. \A t \in {Token("db"), Space, End} : t \in Tokens
    BY TokensAre DEF Keywords
  <2>2. \A t \in {Token("db"), Space, End} : t.w \in {"db", "space", "end"}
    BY DEF Token, Space, End
  <2>3. Token("load").w = "load"
    BY DEF Token
  <2> QED
    BY <2>1, <2>2, <2>3 DEF IsValue, IsByte
<1>8. ASSUME NEW i \in 1..(n + 3)
      PROVE  IsValue(line[i]) /\ line[i] # Token("load") /\ Grows(line, V, i)
  <2>1. CASE i \in {1, 2, n + 3}
    <3>1. line[i] \in {Token("db"), Space, End}
      BY <1>5, <2>1
    <3>2. V[i] >= V[i - 1]
      BY <1>1, <1>2, <2>1
    <3> QED
      BY <1>7, <3>1, <3>2 DEF Grows
  <2>2. CASE i \notin {1, 2, n + 3}
    <3>1. PICK j \in 1..n : i = j + 2
      <4>1. i - 2 \in 1..n /\ i = (i - 2) + 2
        BY <1>1, <2>2
      <4> QED
        BY <4>1
    <3>2. line[i] = Hex(bytes[j]) /\ bytes[j] \in Bytes
      BY <1>5, <3>1
    <3>3. Hex(bytes[j]) \in Tokens /\ Hex(bytes[j]).w = "byte" /\ Hex(bytes[j]).v = bytes[j]
      <4>1. bytes[j] \in Int
        BY <1>3
      <4> QED
        BY <4>1, TokensAre DEF Hex
    <3>4. Token("load").w = "load"
      BY DEF Token
    <3>5. V[i] >= V[i - 1] + 1
      BY <1>1, <1>2, <2>2
    <3>6. V[i] \in Int /\ V[i - 1] \in Int
      BY <1>1, <1>6, Sizes
    <3>7. V[i] >= V[i - 1]
      BY <3>5, <3>6
    <3> QED
      BY <3>2, <3>3, <3>4, <3>5, <3>7 DEF IsValue, IsByte, Grows
  <2> QED
    BY <2>1, <2>2
<1>9. Suited(line, V, v)
  BY <1>5, <1>6, <1>8 DEF Suited, LoadsInFront
<1> QED
  BY <1>4, <1>5, <1>6, <1>8, <1>9

-----------------------------------------------------------------------------
(* The type invariant.                                                       *)
MenuNames == {"project", "imgc", "models"}
Types ==
    /\ BufferTyped /\ g_buff_pos \in Nat /\ mlperf \in BOOLEAN
    /\ menus \in Seq(MenuNames) /\ Len(menus) <= Exits
    /\ pc \in {"open", "entering", "asleep", "naming", "next", "loading", "sending",
               "sent", "inferring", "done", "failed"}
    /\ testcase \in 1..(Len(Samples) + 1)
    /\ \E S : results \in Seq(S)
    /\ Len(results) = testcase - 1

LEMMA DeviceKeepsBounded ==
  ASSUME Clean, Bounded, BufferTyped, g_buff_pos \in Nat, DeviceStep
  PROVE  Bounded' /\ BufferTyped' /\ g_buff_pos' \in Nat
<1>1. Device /\ pc' = pc /\ sent' = sent
  BY DEF DeviceStep, hostVars
<1>2. PICK c, last : /\ IsPending(c, rx, g_cmd_buf, g_buff_pos, last)
                     /\ ~mlperf => c = 0
                     /\ pc \in Loading => last <= sent
  BY DEF Bounded
<1>3. PICK D, L, W : Pending(D, L, c, W, rx, g_cmd_buf, g_buff_pos) /\ W[L] = last
  BY <1>2 DEF IsPending
<1>4. rx \in Seq(Tokens)
  BY DEF Clean
<1>5. /\ BufferTyped' /\ g_buff_pos' \in Nat
      /\ \E d : /\ IsPending(d, rx', g_cmd_buf', g_buff_pos', W[L])
                /\ ~mlperf' => d = 0
  BY <1>1, <1>2, <1>3, <1>4, DeviceBounded, Zenon
<1>6. PICK d : IsPending(d, rx', g_cmd_buf', g_buff_pos', W[L]) /\ (~mlperf' => d = 0)
  BY <1>5
<1>7. (pc \in Loading)' => W[L] <= sent'
  BY <1>1, <1>2, <1>3
<1>8. Bounded'
  BY <1>6, <1>7, Zenon DEF Bounded
<1> QED
  BY <1>5, <1>8

(* The steps of the script leave the device alone.                           *)
LEMMA HostLeaves ==
  ASSUME Host
  PROVE  /\ g_cmd_buf' = g_cmd_buf /\ g_buff_pos' = g_buff_pos /\ mlperf' = mlperf /\ menus' = menus
         /\ g_buff_size' = g_buff_size /\ gp_buff' = gp_buff
BY DEF Host, Enter, ReadEntered, Wake, ReadName, SendLoad, ReadLoaded, SendData, SendInfer,
       ReadResults, Finish, deviceState, deviceVars, buffer

LEMMA PendingIs ==
  ASSUME NEW c, NEW r, NEW g, NEW p, NEW last, IsPending(c, r, g, p, last)
  PROVE  last \in 0..kIcInputSize
<1>1. PICK D, L, W : Pending(D, L, c, W, r, g, p) /\ W[L] = last
  BY DEF IsPending
<1>2. L \in Nat /\ W \in [0..L -> 0..kIcInputSize]
  BY <1>1 DEF Pending, Reaches
<1> QED
  BY <1>1, <1>2

(* A load is written behind the end of a line, or behind nothing.            *)
LEMMA LoadPending ==
  ASSUME Clean, pc = "next", NEW c, NEW v, IsPending(c, rx, g_cmd_buf, g_buff_pos, v)
  PROVE  IsPending(c, rx \o LoadLine, g_cmd_buf, g_buff_pos, 0)
<1>1. PICK D, L, W : Pending(D, L, c, W, rx, g_cmd_buf, g_buff_pos) /\ W[L] = v
  BY DEF IsPending
<1>2. v \in 0..kIcInputSize
  BY PendingIs, Zenon
<1>3. PICK V : Suited(LoadLine, V, v) /\ V[Len(LoadLine)] = 0
  BY <1>2, LoadSuits
<1>4. PICK r \in Seq(Tokens) : r = rx
  BY DEF Clean
<1>5. /\ L \in Nat /\ c \in 0..L /\ Len(r) = L - c /\ \A i \in 1..(L - c) : r[i] = D[c + i]
      /\ Len(g_cmd_buf) = (IF c < CmdSize THEN c ELSE CmdSize)
  BY <1>1, <1>4 DEF Pending, Queued, Kept
<1>6. Started /\ mlperf
  BY DEF Started, Clean
<1>7. L = 0 \/ D[L] = End
  <2>1. CASE r = <<>>
    <3>1. g_cmd_buf = <<>> /\ Len(r) = 0
      BY <1>4, <1>6, <2>1 DEF Clean
    <3>2. Len(g_cmd_buf) = 0
      BY <3>1
    <3> QED
      BY <1>5, <3>1, <3>2, Sizes
  <2>2. CASE r # <<>>
    <3>1. r[Len(r)] = End
      BY <1>4, <1>6, <2>2 DEF Clean
    <3>2. Len(r) >= 1
      BY <2>2
    <3>3. L - c \in 1..(L - c) /\ c + (L - c) = L
      BY <1>5, <3>2
    <3> QED
      BY <1>5, <3>1, <3>3
  <2> QED
    BY <2>1, <2>2
<1>8. IsPending(c, r \o LoadLine, g_cmd_buf, g_buff_pos, V[Len(LoadLine)])
  BY <1>1, <1>3, <1>4, <1>7, Extended, Zenon
<1> QED
  BY <1>3, <1>4, <1>8, Zenon

LEMMA DataPending ==
  ASSUME Clean, Script, pc = "sending", sent < kIcInputSize,
         NEW c, NEW v, IsPending(c, rx, g_cmd_buf, g_buff_pos, v), v <= sent
  PROVE  \E u : IsPending(c, rx \o DataLine(Chunk), g_cmd_buf, g_buff_pos, u) /\ u <= sent + Len(Chunk)
<1>1. PICK D, L, W : Pending(D, L, c, W, rx, g_cmd_buf, g_buff_pos) /\ W[L] = v
  BY DEF IsPending
<1>2. v \in 0..kIcInputSize /\ kIcInputSize \in Nat /\ sent \in Nat
  BY PendingIs, Sizes DEF Script
<1>3. PICK q \in Nat :
             /\ sent < q /\ q <= kIcInputSize /\ q - sent <= SendBytes
             /\ Chunk = SubSeq(Sample, sent + 1, q) /\ sent + Len(Chunk) = q
  BY ChunkIs
<1>4. Sample \in [1..kIcInputSize -> Bytes]
  <2>1. testcase \in 1..Len(Samples)
    BY EvalAssumption DEF Script, EvalAssumption
  <2> QED
    BY <2>1, EvalAssumption DEF Sample, EvalAssumption
<1>5. PICK n : n = q - sent
  OBVIOUS
<1>6. n \in 1..SendBytes
  BY <1>2, <1>3, <1>5, Sizes
<1>7. PICK bytes \in [1..n -> Bytes] : bytes = Chunk
  <2>1. Sample \in [1..kIcInputSize -> Int]
    BY ChunkIs
  <2>2. /\ Chunk \in [1..n -> Int] /\ \A i \in 1..n : Chunk[i] = Sample[sent + i]
    BY <1>2, <1>3, <1>5, <2>1, PartIs
  <2>3. \A i \in 1..n : sent + i \in 1..kIcInputSize
    BY <1>2, <1>3, <1>5
  <2>4. \A i \in 1..n : Chunk[i] \in Bytes
    BY <1>4, <2>2, <2>3
  <2> QED
    BY <2>2, <2>4
<1>8. v \in Nat /\ v + n <= kIcInputSize /\ v + n <= q
  BY <1>2, <1>3, <1>5
<1>9. /\ \E V : Suited(DataLine(bytes), V, v) /\ V[Len(DataLine(bytes))] = v + n
      /\ \A i \in 1..Len(DataLine(bytes)) : DataLine(bytes)[i] # Token("load")
  BY <1>6, <1>8, DataSuits
<1>10. PICK line : line = DataLine(bytes)
  OBVIOUS
<1>11. PICK V : Suited(line, V, v) /\ V[Len(line)] = v + n
  BY <1>9, <1>10
<1>12. \A i \in 1..Len(line) : line[i] # Token("load")
  BY <1>9, <1>10, Zenon
<1>13. rx \in Seq(Tokens)
  BY DEF Clean
<1>14. IsPending(c, rx \o line, g_cmd_buf, g_buff_pos, V[Len(line)])
  BY <1>1, <1>11, <1>12, <1>13, Extended, Zenon
<1> QED
  BY <1>3, <1>7, <1>8, <1>10, <1>11, <1>14, Zenon

LEMMA HostKeepsBounded ==
  ASSUME Clean, Script, Bounded, Host
  PROVE  Bounded'
<1>1. PICK c, last : /\ IsPending(c, rx, g_cmd_buf, g_buff_pos, last)
                     /\ ~mlperf => c = 0
                     /\ pc \in Loading => last <= sent
  BY DEF Bounded
<1>2. PICK r \in Seq(Tokens) : r = rx
  BY DEF Clean
<1>3. last \in 0..kIcInputSize /\ kIcInputSize \in Nat
  BY <1>1, PendingIs, Sizes, Zenon
<1>4. g_cmd_buf' = g_cmd_buf /\ g_buff_pos' = g_buff_pos /\ mlperf' = mlperf
  BY HostLeaves
<1>5. ASSUME NEW u, IsPending(c, rx', g_cmd_buf, g_buff_pos, u), pc' \in Loading => u <= sent'
      PROVE  Bounded'
  BY <1>1, <1>4, <1>5, Zenon DEF Bounded
<1>6. ASSUME NEW line, PlainLine(line), Write(line), pc' \in Loading => pc \in Loading /\ sent' = sent
      PROVE  Bounded'
  <2>1. rx' = r \o line
    BY <1>2, <1>6 DEF Write
  <2>2. IsPending(c, r, g_cmd_buf, g_buff_pos, last)
    BY <1>1, <1>2, Zenon
  <2>3. IsPending(c, r \o line, g_cmd_buf, g_buff_pos, last)
    BY <1>3, <1>6, <2>2, PlainExtends, Zenon
  <2>4. pc' \in Loading => last <= sent'
    BY <1>1, <1>6
  <2> QED
    BY <1>5, <2>1, <2>3, <2>4, Zenon
<1>7. ASSUME rx' = rx, pc' \in Loading => pc \in Loading /\ sent' = sent
      PROVE  Bounded'
  <2>1. pc' \in Loading => last <= sent'
    BY <1>1, <1>7
  <2>2. IsPending(c, rx', g_cmd_buf, g_buff_pos, last)
    BY <1>1, <1>7, Zenon
  <2> QED
    BY <1>5, <2>1, <2>2, Zenon
<1>8. CASE Enter
  <2>1. Write(EnterLine) /\ pc' = "entering"
    BY <1>8 DEF Enter, Goto
  <2> QED
    BY <1>6, <2>1, PlainLines DEF Loading
<1>9. CASE Wake
  <2>1. Write(NameLine) /\ pc' = "naming"
    BY <1>9 DEF Wake, Goto
  <2> QED
    BY <1>6, <2>1, PlainLines DEF Loading
<1>10. CASE SendInfer
  <2>1. Write(InferLine) /\ pc = "sending" /\ sent' = sent
    BY <1>10 DEF SendInfer, Goto
  <2> QED
    BY <1>6, <2>1, PlainLines DEF Loading
<1>11. CASE SendLoad
  <2>1. Write(LoadLine) /\ pc = "next" /\ sent' = 0
    BY <1>11 DEF SendLoad, Goto
  <2>2. IsPending(c, rx \o LoadLine, g_cmd_buf, g_buff_pos, 0)
    BY <1>1, <2>1, LoadPending, Zenon
  <2>3. rx' = rx \o LoadLine
    BY <2>1 DEF Write
  <2>4. pc' \in Loading => 0 <= sent'
    BY <2>1
  <2> QED
    BY <1>5, <2>2, <2>3, <2>4
<1>12. CASE SendData
  <2>1. /\ Write(DataLine(Chunk)) /\ pc = "sending" /\ sent < kIcInputSize
        /\ sent' = sent + Len(Chunk)
    BY <1>12 DEF SendData, Goto
  <2>2. last <= sent
    BY <1>1, <2>1 DEF Loading
  <2>3. PICK u : /\ IsPending(c, rx \o DataLine(Chunk), g_cmd_buf, g_buff_pos, u)
                 /\ u <= sent + Len(Chunk)
    BY <1>1, <2>1, <2>2, DataPending, Zenon
  <2>4. rx' = rx \o DataLine(Chunk)
    BY <2>1 DEF Write
  <2>5. IsPending(c, rx', g_cmd_buf, g_buff_pos, u)
    BY <2>3, <2>4, Zenon
  <2>6. u <= sent'
    BY <2>1, <2>3, Zenon
  <2> QED
    BY <1>5, <2>5, <2>6, Zenon
<1>13. CASE ReadEntered
  <2>1. rx' = rx /\ pc' = "asleep"
    BY <1>13 DEF ReadEntered, Goto
  <2> QED
    BY <1>7, <2>1 DEF Loading
<1>14. CASE ReadName
  <2>1. rx' = rx /\ pc' \in {"next", "failed"}
    BY <1>14 DEF ReadName
  <2> QED
    BY <1>7, <2>1 DEF Loading
<1>15. CASE ReadLoaded
  <2>1. rx' = rx /\ pc \in Loading /\ sent' = sent
    BY <1>15 DEF ReadLoaded, Goto, Loading
  <2> QED
    BY <1>7, <2>1
<1>16. CASE ReadResults
  <2>1. rx' = rx /\ pc' \in {"next", "failed"}
    BY <1>16 DEF ReadResults
  <2> QED
    BY <1>7, <2>1 DEF Loading
<1>17. CASE Finish
  <2>1. rx' = rx /\ pc' = "done"
    BY <1>17 DEF Finish, Goto, deviceVars
  <2> QED
    BY <1>7, <2>1 DEF Loading
<1> QED
  BY <1>8, <1>9, <1>10, <1>11, <1>12, <1>13, <1>14, <1>15, <1>16, <1>17 DEF Host

LEMMA RestartKeepsBounded ==
  ASSUME Clean, Bounded, Restart
  PROVE  Bounded'
<1>1. PICK c, last : /\ IsPending(c, rx, g_cmd_buf, g_buff_pos, last)
                     /\ ~mlperf => c = 0
  BY DEF Bounded
<1>2. PICK r \in Seq(Tokens) : r = rx
  BY DEF Clean
<1>3. PICK D, L, W : Pending(D, L, c, W, r, g_cmd_buf, g_buff_pos)
  BY <1>1, <1>2 DEF IsPending
<1>4. /\ rx' \in Cut(r) /\ pc' = "open"
      /\ g_cmd_buf' = g_cmd_buf /\ g_buff_pos' = g_buff_pos /\ mlperf' = mlperf
  BY <1>2 DEF Restart, deviceState, buffer
<1>5. StaysPending(c, rx', g_cmd_buf, g_buff_pos)
  BY <1>3, <1>4, CutPending, Zenon
<1>6. PICK v : IsPending(c, rx', g_cmd_buf, g_buff_pos, v)
  BY <1>5 DEF StaysPending
<1>7. pc' \notin Loading
  BY <1>4 DEF Loading
<1> QED
  BY <1>1, <1>4, <1>6, <1>7, Zenon DEF Bounded

LEMMA BoundedTypes ==
  ASSUME Bounded, Types, Script
  PROVE  TypeOK
<1>1. PICK c, last : IsPending(c, rx, g_cmd_buf, g_buff_pos, last)
  BY DEF Bounded
<1>2. PICK D, L, W : Pending(D, L, c, W, rx, g_cmd_buf, g_buff_pos)
  BY <1>1 DEF IsPending
<1>3. /\ L \in Nat /\ c \in 0..L /\ W \in [0..L -> 0..kIcInputSize] /\ g_buff_pos <= W[0]
      /\ Len(g_cmd_buf) = (IF c < CmdSize THEN c ELSE CmdSize)
  BY <1>2 DEF Pending, Reaches, Kept
<1>4. /\ kIcInputSize \in Nat /\ MaxDbInputSize \in Nat /\ MaxDbInputSize >= kIcInputSize
      /\ CmdSize \in Nat
  BY Sizes
<1>5. W[0] \in 0..kIcInputSize
  BY <1>3
<1>6. g_buff_pos \in 0..MaxDbInputSize
  BY <1>3, <1>4, <1>5 DEF Types
<1>7. Len(g_cmd_buf) <= CmdSize
  BY <1>3, <1>4
<1> QED
  BY <1>6, <1>7 DEF TypeOK, Types, BufferTyped, Script

LEMMA MenusKept ==
  ASSUME menus \in Seq(MenuNames), Len(menus) <= Exits, mlperf \in BOOLEAN, Device
  PROVE  menus' \in Seq(MenuNames) /\ Len(menus') <= Exits /\ mlperf' \in BOOLEAN
<1>1. Exits \in Nat /\ Exits >= 2
  BY EvalAssumption DEF EvalAssumption
<1>2. CASE Command \/ Character \/ EnterMlperf
  BY <1>2 DEF Command, Character, EnterMlperf, AtMenu
<1>3. CASE MenuExit
  <2>1. mlperf' = mlperf /\ menus' = (IF menus = <<>> THEN menus ELSE Tail(menus))
    BY <1>3 DEF MenuExit
  <2>2. PICK S : S = MenuNames
    OBVIOUS
  <2>3. PICK m \in Seq(S) : m = menus
    BY <2>2
  <2>4. m # <<>> => Tail(m) \in Seq(S) /\ Len(Tail(m)) = Len(m) - 1
    BY HeadTailProperties
  <2>5. Len(m) \in Nat /\ Len(m) <= Exits
    BY <2>3
  <2> QED
    BY <1>1, <2>1, <2>2, <2>3, <2>4, <2>5
<1>4. CASE MenuProject
  <2>1. mlperf' = mlperf /\ menus' = <<"project">>
    BY <1>4 DEF MenuProject
  <2>2. <<"project">> \in Seq(MenuNames) /\ Len(<<"project">>) = 1
    <3>1. "project" \in MenuNames
      BY DEF MenuNames
    <3> QED
      BY <3>1
  <2> QED
    BY <1>1, <2>1, <2>2
<1> QED
  BY <1>2, <1>3, <1>4 DEF Device

(* The script counts one result for every sample it has been through.        *)
LEMMA CountKept ==
  ASSUME Types, Script, Host
  PROVE  /\ pc' \in {"open", "entering", "asleep", "naming", "next", "loading", "sending",
                     "sent", "inferring", "done", "failed"}
         /\ testcase' \in 1..(Len(Samples) + 1)
         /\ \E S : results' \in Seq(S)
         /\ Len(results') = testcase' - 1
<1>1. Len(Samples) \in Nat /\ Len(results) = testcase - 1 /\ testcase \in 1..(Len(Samples) + 1)
      /\ \E S : results \in Seq(S)
  BY EvalAssumption DEF EvalAssumption, Types
<1>2. CASE ReadResults
  <2>1. pc = "inferring"
    BY <1>2 DEF ReadResults
  <2>2. testcase <= Len(Samples)
    BY <2>1 DEF Script
  <2>3. \/ /\ results' = Append(results, ResultsRead) /\ testcase' = testcase + 1 /\ pc' = "next"
        \/ UNCHANGED <<results, testcase>> /\ pc' = "failed"
    BY <1>2 DEF ReadResults
  <2>4. CASE results' = Append(results, ResultsRead) /\ testcase' = testcase + 1 /\ pc' = "next"
    <3>1. PICK S : results \in Seq(S)
      BY <1>1
    <3>2. PICK v : v = ResultsRead
      OBVIOUS
    <3>3. PICK T : T = S \cup {v}
      OBVIOUS
    <3>4. results \in Seq(T) /\ v \in T
      BY <3>1, <3>3
    <3>5. results' \in Seq(T) /\ Len(results') = Len(results) + 1
      BY <2>4, <3>2, <3>4
    <3>6. testcase' \in 1..(Len(Samples) + 1) /\ Len(results') = testcase' - 1
      BY <1>1, <2>2, <2>4, <3>5
    <3> QED
      BY <2>4, <3>5, <3>6
  <2>5. CASE UNCHANGED <<results, testcase>> /\ pc' = "failed"
    BY <1>1, <2>5
  <2> QED
    BY <2>3, <2>4, <2>5
<1>3. CASE ~ReadResults
  <2>1. testcase' = testcase /\ results' = results
    BY <1>3 DEF Host, Enter, ReadEntered, Wake, ReadName, SendLoad, ReadLoaded, SendData, SendInfer, Finish
  <2>2. pc' \in {"entering", "asleep", "naming", "next", "failed", "loading", "sending", "sent",
                 "inferring", "done"}
    BY <1>3 DEF Host, Enter, ReadEntered, Wake, ReadName, SendLoad, ReadLoaded, SendData, SendInfer,
                Finish, Goto
  <2> QED
    BY <1>1, <2>1, <2>2
<1> QED
  BY <1>2, <1>3

LEMMA TypesInit == Init => Types /\ Bounded
<1> SUFFICES ASSUME Init PROVE Types /\ Bounded
  OBVIOUS
<1>1. /\ rx = <<>> /\ g_cmd_buf = <<>> /\ g_buff_size = 0 /\ g_buff_pos = 0 /\ mlperf = FALSE
      /\ gp_buff = [a \in 0..(MaxDbInputSize - 1) |-> 0]
      /\ menus \in {<<>>, <<"project">>, <<"imgc", "models">>}
      /\ pc = "open" /\ testcase = 1 /\ results = <<>>
  BY DEF Init, DeviceInit
<1>2. kIcInputSize \in Nat /\ Exits \in Nat /\ Exits >= 2 /\ Len(Samples) \in Nat
  BY Sizes, EvalAssumption DEF EvalAssumption
<1>3. BufferTyped
  <2>1. 0 \in Bytes
    BY DEF Bytes
  <2> QED
    BY <1>1, <1>2, <2>1 DEF BufferTyped
<1>4. menus \in Seq(MenuNames) /\ Len(menus) <= Exits
  <2>1. "project" \in MenuNames /\ "imgc" \in MenuNames /\ "models" \in MenuNames
    BY DEF MenuNames
  <2>2. CASE menus = <<>>
    BY <1>2, <2>2
  <2>3. CASE menus = <<"project">>
    BY <1>2, <2>1, <2>3
  <2>4. CASE menus = <<"imgc", "models">>
    BY <1>2, <2>1, <2>4
  <2> QED
    BY <1>1, <2>2, <2>3, <2>4
<1>5. (\E S : results \in Seq(S)) /\ Len(results) = testcase - 1 /\ testcase \in 1..(Len(Samples) + 1)
  <2>1. results \in Seq({}) /\ Len(results) = 0
    BY <1>1
  <2> QED
    BY <1>1, <1>2, <2>1
<1>6. Types
  BY <1>1, <1>2, <1>3, <1>4, <1>5 DEF Types
<1>7. Bounded
  <2>1. PICK W : W = [i \in 0..0 |-> 0]
    OBVIOUS
  <2>2. W \in [0..0 -> 0..kIcInputSize] /\ W[0] = 0
    BY <1>2, <2>1
  <2>3. Reaches(<<>>, 0, W)
    BY <2>2 DEF Reaches
  <2>4. Queued(<<>>, 0, 0, rx)
    BY <1>1 DEF Queued
  <2>5. <<>> \in Seq(Tokens) /\ Len(<<>>) = 0
    OBVIOUS
  <2>6. Kept(<<>>, 0, g_cmd_buf)
    BY <1>1, <2>5, EmptyBuffer
  <2>7. Pending(<<>>, 0, 0, W, rx, g_cmd_buf, g_buff_pos)
    BY <1>1, <2>2, <2>3, <2>4, <2>6 DEF Pending
  <2>8. IsPending(0, rx, g_cmd_buf, g_buff_pos, 0)
    BY <2>2, <2>7, Zenon DEF IsPending
  <2>9. pc \notin Loading
    BY <1>1 DEF Loading
  <2> QED
    BY <2>8, <2>9, Zenon DEF Bounded
<1> QED
  BY <1>6, <1>7

LEMMA TypesKept ==
  ASSUME IInv, Types, Bounded, [Next]_vars
  PROVE  Types' /\ Bounded'
<1>1. Clean /\ Script
  BY DEF IInv
<1>2. CASE DeviceStep
  <2>1. Device /\ UNCHANGED hostVars
    BY <1>2 DEF DeviceStep
  <2>2. Bounded' /\ BufferTyped' /\ g_buff_pos' \in Nat
    BY <1>1, <1>2, DeviceKeepsBounded DEF Types
  <2>3. menus' \in Seq(MenuNames) /\ Len(menus') <= Exits /\ mlperf' \in BOOLEAN
    BY <2>1, MenusKept DEF Types
  <2> QED
    BY <2>1, <2>2, <2>3 DEF Types, hostVars
<1>3. CASE Host
  <2>1. Bounded'
    BY <1>1, <1>3, HostKeepsBounded
  <2>2. /\ g_buff_pos' = g_buff_pos /\ mlperf' = mlperf /\ menus' = menus
        /\ g_buff_size' = g_buff_size /\ gp_buff' = gp_buff
    BY <1>3, HostLeaves
  <2>3. BufferTyped'
    BY <2>2 DEF Types, BufferTyped
  <2> QED
    BY <1>1, <1>3, <2>1, <2>2, <2>3, CountKept DEF Types
<1>4. CASE Restart
  <2>1. Bounded'
    BY <1>1, <1>4, RestartKeepsBounded
  <2>2. /\ pc' = "open" /\ testcase' = 1 /\ results' = <<>>
        /\ g_buff_pos' = g_buff_pos /\ mlperf' = mlperf /\ menus' = menus
        /\ g_buff_size' = g_buff_size /\ gp_buff' = gp_buff
    BY <1>4 DEF Restart, deviceState, buffer
  <2>3. results' \in Seq({}) /\ Len(results') = testcase' - 1
    BY <2>2
  <2>4. testcase' \in 1..(Len(Samples) + 1)
    BY <2>2, EvalAssumption DEF EvalAssumption
  <2>5. BufferTyped'
    BY <2>2 DEF Types, BufferTyped
  <2> QED
    BY <2>1, <2>2, <2>3, <2>4, <2>5 DEF Types
<1>5. CASE UNCHANGED vars
  BY <1>5 DEF vars, deviceVars, hostVars, Types, BufferTyped, Bounded, IsPending, Pending
<1> QED
  BY <1>2, <1>3, <1>4, <1>5 DEF Next

(* For samples, buffers and lines of every size, and any number of restarts  *)
(* however short the sleep: no byte of a load is stored outside gp_buff, no  *)
(* line runs out of the command buffer, and the script has one result for    *)
(* every sample it has been through.                                         *)
THEOREM StaysInBuffers == Spec => []TypeOK
<1>1. Init => IInv /\ Types /\ Bounded
  BY InvInit, TypesInit
<1>2. IInv /\ Types /\ Bounded /\ [Next]_vars => (IInv /\ Types /\ Bounded)'
  BY InvKept, TypesKept
<1>3. IInv /\ Types /\ Bounded => TypeOK
  BY BoundedTypes DEF IInv
<1> QED
  BY <1>1, <1>2, <1>3, PTL DEF Spec

=============================================================================
