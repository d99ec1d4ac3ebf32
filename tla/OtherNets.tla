------------------------------ MODULE OtherNets ------------------------------
(***************************************************************************)
(* vgg.py, densenet.py, nasnet.py, and the point cloud networks of         *)
(* dgcnn.py, as in ResidualNets: blocks as functions on shapes, networks   *)
(* as sequences of modules.                                                *)
(***************************************************************************)
EXTENDS Layers

\* vgg.py

VggCfg ==
  [A |-> << <<64>>, <<128>>, <<256, 256>>, <<512, 512>>, <<512, 512>> >>,
   B |-> << <<64, 64>>, <<128, 128>>, <<256, 256>>, <<512, 512>>, <<512, 512>> >>,
   D |-> << <<64, 64>>, <<128, 128>>, <<256, 256, 256>>, <<512, 512, 512>>, <<512, 512, 512>> >>,
   E |-> << <<64, 64>>, <<128, 128>>, <<256, 256, 256, 256>>, <<512, 512, 512, 512>>,
            <<512, 512, 512, 512>> >>,
   S |-> << <<64>>, <<128>>, <<256>>, <<512>>, <<512>> >>]

\* _make_layers: one convolution for each width.
VggBlock(widths, i) ==
  [j \in DOMAIN widths |-> Conv3(IF j = 1 THEN i ELSE widths[j - 1], widths[j])]

\* The fourth pool is there for images of 64 x 64 only; h is the input's height.
VGG(cfg, classes, h) ==
  LET halve == <<Pool(2, 2, 0)>>
  IN VggBlock(cfg[1], 3) \o halve \o VggBlock(cfg[2], Last(cfg[1])) \o halve
     \o VggBlock(cfg[3], Last(cfg[2])) \o halve \o VggBlock(cfg[4], Last(cfg[3]))
     \o (IF h = 64 THEN halve ELSE <<>>)
     \o VggBlock(cfg[5], Last(cfg[4])) \o <<GlobalPool, Linear(512, classes)>>

-----------------------------------------------------------------------------
\* densenet.py

DenseBottleneck(x, i, growth_rate) ==
  Cat(<<x, Sequential(x, <<Norm(i), Conv1(i, 4 * growth_rate), Norm(4 * growth_rate),
                           Conv3(4 * growth_rate, growth_rate)>>)>>)

Transition(i, o) == <<Norm(i), Conv1(i, o), Pool(2, 2, 0)>>

DenseLayers(i, n, k) ==
  [j \in 1..n |-> [op |-> "DenseBottleneck", in |-> i + (j - 1) * k, k |-> k]]

\* inner_channels before each dense block, and before the classifier; half of
\* the channels go into the next block.
InnerChannels(nblocks, k) ==
  LET inner[b \in 1..5] ==
        IF b = 1 THEN 2 * k
        ELSE LET grown == inner[b - 1] + k * nblocks[b - 1]
             IN IF b = 5 THEN grown ELSE grown \div 2
  IN inner

DenseNet(nblocks, k, classes) ==
  LET c == InnerChannels(nblocks, k)
      features(b) == DenseLayers(c[b], nblocks[b], k)
                     \o (IF b = 4 THEN <<Norm(c[5])>>
                         ELSE Transition(c[b] + k * nblocks[b], c[b + 1]))
  IN <<Conv3(3, 2 * k)>> \o features(1) \o features(2) \o features(3) \o features(4)
     \o <<GlobalPool, Linear(c[5], classes)>>

-----------------------------------------------------------------------------
\* nasnet.py: a cell also reads the input of the cell before it, prev, which
\* is Bad (None) in the first cell.

NasSeparable(i, o, k, s, p) == <<Grouped(Conv(i, i, k, s, p), i), Conv1(i, o)>>

SeperableBranch(x, c, k, s, p) ==
  Sequential(x, NasSeparable(c, c, k, s, p) \o <<Norm(c)>>
                \o NasSeparable(c, c, k, 1, k \div 2) \o <<Norm(c)>>)

\* prev, made to fit beside x: half the channels from each of two subsampled
\* copies where the sizes differ, a projection where only the widths do.
Fit(x, prev, prev_filters, filters) ==
  IF prev = Bad THEN x
  ELSE IF x[2] # prev[2]
       THEN LET p1 == Sequential(prev, <<Pool(1, 2, 0), Conv1(prev_filters, filters \div 2)>>)
            IN Apply(Cat(<<p1, p1>>), Norm(filters))
       ELSE IF prev[1] # filters
            THEN Sequential(prev, <<Conv1(prev_filters, filters), Norm(filters)>>)
            ELSE prev

NormalCell(x, prev, x_in, prev_in, o) ==
  LET p == Fit(x, prev, prev_in, o)
      h == Sequential(x, <<Conv1(x_in, o), Norm(o)>>)
      Sep(y, k) == SeperableBranch(y, o, k, 1, k \div 2)
      Near(y) == Apply(y, Pool(3, 1, 1))
  IN Cat(<<p, Add(Sep(h, 3), h), Add(Sep(p, 3), Sep(h, 5)), Add(Near(h), h),
           Add(Near(p), Near(p)), Add(Sep(p, 5), Sep(p, 3))>>)

ReductionCell(x, prev, x_in, prev_in, o) ==
  LET p == Fit(x, prev, prev_in, o)
      h == Sequential(x, <<Conv1(x_in, o), Norm(o)>>)
      Sep(y, k) == SeperableBranch(y, o, k, 2, k \div 2)
      Halve(y) == Apply(y, Pool(3, 2, 1))
      b1 == Add(Sep(p, 7), Sep(h, 5))
      b2 == Add(Halve(h), Sep(p, 7))
      b3 == Add(Halve(h), Sep(p, 5))
  IN Cat(<<b2, b3, Add(Halve(h), SeperableBranch(b1, o, 3, 1, 1)),
           Add(Apply(b1, Pool(3, 1, 1)), b2)>>)

\* _make_layers: the widths x_filters and prev_filters before every cell; a
\* normal cell returns 6 * filters channels, a reduction cell 4 * filters.
NasNetA(repeat, reductions, filters, stemfilter, classes) ==
  LET n == repeat + 1
      cells == reductions * n + repeat
      isReduction(j) == j % n = 0
      filtersOf(j) == filters * 2^(j \div n)
      widths[j \in 1..(cells + 1)] ==
        IF j = 1 THEN [x |-> stemfilter, prev |-> stemfilter]
        ELSE [x |-> (IF isReduction(j - 1) THEN 4 ELSE 6) * filtersOf(j - 1),
              prev |-> widths[j - 1].x]
  IN <<Conv3(3, stemfilter), Norm(stemfilter)>>
     \o [j \in 1..cells |-> [op |-> IF isReduction(j) THEN "ReductionCell" ELSE "NormalCell",
                             in |-> widths[j].x, prev |-> widths[j].prev, out |-> filtersOf(j)]]
     \o <<GlobalPool, Linear(filters * 2^reductions * 6, classes)>>

-----------------------------------------------------------------------------
\* dgcnn.py.  A point cloud is <<3, n>>; a convolution of kernel 1 mixes the
\* channels of a point.

PointConv(i, o) == [op |-> "pointwise", in |-> i, out |-> o]

\* squeeze() also drops the batch dimension when it is 1, and the batch
\* normalisation that follows does not take a single vector.
Squeeze(x, batch) == IF Len(x) = 2 /\ batch # 1 THEN <<x[1]>> ELSE Bad

PointNet(classes) ==
  <<PointConv(3, 64), PointConv(64, 64), PointConv(64, 64), PointConv(64, 128),
    PointConv(128, 2048), [op |-> "squeeze"], Linear(2048, 512), Linear(512, classes)>>

\* get_graph_feature: every point beside its difference to the k nearest; then
\* a convolution and the maximum over the k.
EdgeConv(x, i, o, k) ==
  IF Len(x) = 2 /\ x[2] >= k /\ 2 * x[1] = i THEN <<o, x[2]>> ELSE Bad

\* The four features of DGCNN side by side, and both of its pools.
DgcnnFeatures(x, k) ==
  LET x1 == EdgeConv(x, 6, 64, k)
      x2 == EdgeConv(x1, 128, 64, k)
      x3 == EdgeConv(x2, 128, 128, k)
      x4 == EdgeConv(x3, 256, 256, k)
  IN IF x4 = Bad \/ x1[1] + x2[1] + x3[1] + x4[1] # 512 THEN Bad ELSE <<1024 + 1024>>

DGCNN(classes) ==
  <<[op |-> "DgcnnFeatures", k |-> 20], Linear(2 * 1024, 512), Linear(512, 256),
    Linear(256, classes)>>

-----------------------------------------------------------------------------
\* What a module of one of these networks returns for an input of shape x.
OtherForward(x, prev, batch, l) ==
  CASE l.op = "DenseBottleneck" -> DenseBottleneck(x, l.in, l.k)
    [] l.op = "NormalCell"      -> NormalCell(x, prev, l.in, l.prev, l.out)
    [] l.op = "ReductionCell"   -> ReductionCell(x, prev, l.in, l.prev, l.out)
    [] l.op = "pointwise"       -> IF Len(x) = 2 /\ x[1] = l.in THEN <<l.out, x[2]>> ELSE Bad
    [] l.op = "squeeze"         -> Squeeze(x, batch)
    [] l.op = "DgcnnFeatures"   -> DgcnnFeatures(x, l.k)
    [] OTHER                    -> Apply(x, l)
=============================================================================
