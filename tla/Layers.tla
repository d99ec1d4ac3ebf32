------------------------------- MODULE Layers -------------------------------
(***************************************************************************)
(* The layers of torch.nn that the networks of the model compression       *)
(* tools are built from, as functions on the shape of one sample: <<c, h,  *)
(* w>> for an image, <<n, d>> for n tokens, <<d>> for features.  Weights   *)
(* and values are left out.  Where the library raises, in a constructor or *)
(* in forward, the shape is Bad, and a layer given Bad returns Bad.        *)
(* Activations, dropout and softmax keep every shape and do not appear.    *)
(***************************************************************************)
EXTENDS Integers, Sequences, FiniteSetsExt, SequencesExt

Bad == <<>>

\* How many windows of size k, s apart, fit into n cells padded by p each side.
Windows(n, k, s, p) == (n + 2 * p - k) \div s + 1

Conv(i, o, k, s, p) == [op |-> "conv", in |-> i, out |-> o, groups |-> 1,
                        kh |-> k, kw |-> k, s |-> s, ph |-> p, pw |-> p]
ConvRect(i, o, kh, kw) == [Conv(i, o, 1, 1, 0) EXCEPT !.kh = kh, !.kw = kw,
                             !.ph = kh \div 2, !.pw = kw \div 2]
Grouped(conv, g) == [conv EXCEPT !.groups = g]
Conv1(i, o) == Conv(i, o, 1, 1, 0)
Conv3(i, o) == Conv(i, o, 3, 1, 1)
Pool(k, s, p) == [op |-> "pool", kh |-> k, kw |-> k, s |-> s, ph |-> p, pw |-> p]
Norm(c) == [op |-> "norm", in |-> c]
Linear(i, o) == [op |-> "linear", in |-> i, out |-> o]
GlobalPool == [op |-> "gap"]        \* AdaptiveAvgPool2d(1), then view(n, -1)
Flatten == [op |-> "flatten"]

IsImage(x) == Len(x) = 3

Slide(x, l, out) ==
  IF x[2] + 2 * l.ph >= l.kh /\ x[3] + 2 * l.pw >= l.kw
  THEN <<out, Windows(x[2], l.kh, l.s, l.ph), Windows(x[3], l.kw, l.s, l.pw)>>
  ELSE Bad

\* module(x): the shape the layer l returns for an input of shape x.
Apply(x, l) ==
  CASE l.op = "conv" /\ IsImage(x) /\ l.in = x[1]
       /\ l.in % l.groups = 0 /\ l.out % l.groups = 0  -> Slide(x, l, l.out)
    [] l.op = "pool" /\ IsImage(x)                     -> Slide(x, l, x[1])
    [] l.op = "norm" /\ IsImage(x) /\ l.in = x[1]      -> x
    [] l.op = "gap" /\ IsImage(x)                      -> <<x[1]>>
    [] l.op = "flatten" /\ IsImage(x)                  -> <<x[1] * x[2] * x[3]>>
    [] l.op = "linear" /\ x # Bad /\ Last(x) = l.in    -> [x EXCEPT ![Len(x)] = l.out]
    [] OTHER                                           -> Bad

\* nn.Sequential(*layers)(x)
Sequential(x, layers) == FoldLeft(Apply, x, layers)

\* x + y.  The library would also broadcast a side of 1, which no network
\* here means to do: that is Bad too.
Add(x, y) == IF x = y THEN x ELSE Bad

\* torch.cat(xs, 1)
Cat(xs) ==
  LET sides(x) == IF IsImage(x) THEN <<x[2], x[3]>> ELSE Bad
      one == sides(xs[1])
  IN IF one # Bad /\ \A i \in DOMAIN xs : sides(xs[i]) = one
     THEN <<FoldLeft(LAMBDA n, x : n + x[1], 0, xs), one[1], one[2]>>
     ELSE Bad
=============================================================================
