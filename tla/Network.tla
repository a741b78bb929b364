------------------------------ MODULE Network ------------------------------
(***************************************************************************)
(* Loading and running a neural network (internal/nn), and wiring it as a  *)
(* live model (modelrun.go, inference/onnx_*.go).  A tensor is its shape,  *)
(* how many values it carries, and the values only where a Reshape reads   *)
(* them as its constant operand; variances are positive.  A graph names    *)
(* tensors; "" is a name left out.                                         *)
(***************************************************************************)
EXTENDS Integers, Sequences, FiniteSets, SequencesExt, FiniteSetsExt, Functions, TLC

CONSTANTS
    Networks,       \* decoded models: [family, inits, inputs, outputs, nodes]
    Undeclared,     \* a value info without a shape, a node without an axis
    FeatureWidth, ClassWidth, SeqLen,
    MaxHops         \* how far back an output's size is looked for

VARIABLES
    network,        \* the model being loaded
    stage,          \* "parsed", "ordering", "ordered", "live", "running", "scored", "abstained",
                    \* "refused", or "unresolvable"
    weights,        \* initializers and folded constants
    unplaced, schedule,  \* nodes not yet, and already, in evaluation order
    sizes,          \* [in, out]
    tensors         \* the live values of a run; as many nodes were evaluated as it was extended

networkVars == <<network, stage, weights, unplaced, schedule, sizes, tensors>>

-----------------------------------------------------------------------------
(* Tensors *)

Tensor(shape, count, ints) == [shape |-> shape, count |-> count, ints |-> ints]
Broken == Tensor(<<>>, -1, <<>>)                 \* an error instead of a tensor
Elems(shape) == FoldLeft(LAMBDA a, d : a * d, 1, shape)
Shaped(shape) == Tensor(shape, Elems(shape), <<>>)
Or(failed, t) == IF failed THEN Broken ELSE t

\* A stored tensor: no negative dimension, a known type, as many values as the shape says; one
\* without dimensions carries what it carries.
BadTensor(o) ==
    \/ o.type \notin {"float32", "int32", "int64"}
    \/ \E i \in DOMAIN o.dims : o.dims[i] < 0
    \/ o.dims # <<>> /\ Elems(o.dims) # o.count
Materialize(o) == Tensor(o.dims, o.count, o.ints)

\* Rows and columns; leading dimensions are rows.
Matrix(t) ==
    LET rc == IF t.shape = <<>> THEN <<1, 1>>
              ELSE <<Elems(Front(t.shape)), Last(t.shape)>>
    IN IF rc[1] * rc[2] # t.count THEN <<-1, -1>> ELSE rc

Padded1(s, n) == [i \in 1..n |-> IF i > n - Len(s) THEN s[i - (n - Len(s))] ELSE 1]
BroadcastShape(a, b) ==
    LET n == Max({Len(a), Len(b)})
        p == Padded1(a, n)
        q == Padded1(b, n)
    IN [fits |-> \A i \in 1..n : p[i] = q[i] \/ p[i] = 1 \/ q[i] = 1,
        shape |-> [i \in 1..n |-> IF p[i] = 1 THEN q[i] ELSE p[i]]]

Broadcast(a, b) ==
    IF a.shape = b.shape THEN Or(a.count # b.count, Tensor(a.shape, a.count, <<>>))
    ELSE LET s == BroadcastShape(a.shape, b.shape) IN
         Or(\/ ~s.fits
            \/ Elems(s.shape) # 0 /\ (a.count < Elems(a.shape) \/ b.count < Elems(b.shape)),
            Shaped(s.shape))

-----------------------------------------------------------------------------
(* One node.  Arg is Broken for an input that is left out or not there. *)

Arg(n, i, vals) ==
    IF i \in DOMAIN n.in /\ n.in[i] # "" /\ n.in[i] \in DOMAIN vals THEN vals[n.in[i]] ELSE Broken

EvalGemm(n, vals) ==
    LET a == Matrix(Arg(n, 1, vals))
        b == Matrix(Arg(n, 2, vals))
        p == IF n.transA THEN <<a[2], a[1]>> ELSE a
        q == IF n.transB THEN <<b[2], b[1]>> ELSE b
        biased == 3 \in DOMAIN n.in /\ n.in[3] # ""
        c == Arg(n, 3, vals)
    IN Or(-1 \in Range(a) \cup Range(b) \/ p[2] # q[1],
          IF ~biased THEN Shaped(<<p[1], q[2]>>) ELSE Or(c = Broken, Broadcast(Shaped(<<p[1], q[2]>>), c)))

MatMul(a, b) ==
    IF Len(a.shape) <= 1 /\ Len(b.shape) = 2
    THEN Or(a.count # b.shape[1], Shaped(<<b.shape[2]>>))
    ELSE IF Len(a.shape) = 2 /\ Len(b.shape) \in {1, 2}
    THEN Or(a.shape[2] # b.shape[1], Shaped(<<a.shape[1]>> \o Tail(b.shape)))
    ELSE Broken

EvalBatchNorm(n, vals) ==
    LET x == Arg(n, 1, vals)
        c == Arg(n, 2, vals).count
    IN Or(c = 0 \/ (\E i \in 3..5 : Arg(n, i, vals).count # c) \/ x.count % c # 0, Tensor(x.shape, x.count, <<>>))

\* The shape, or the number of values of a tensor without one, and the axis within it.
ShapeOf(x) == IF x.shape = <<>> THEN <<x.count>> ELSE x.shape
AxisOf(n, default, shape) ==
    LET a == IF n.axis = Undeclared THEN default ELSE n.axis IN IF a < 0 THEN a + Len(shape) ELSE a

EvalFlatten(n, x) ==
    LET s == ShapeOf(x)
        a == AxisOf(n, 1, s)
    IN Or(a \notin 0..Len(s), Tensor(<<Elems(SubSeq(s, 1, a)), Elems(SubSeq(s, a + 1, Len(s)))>>, x.count, x.ints))

EvalSoftmax(n, x) ==
    LET s == ShapeOf(x)
        a == AxisOf(n, -1, s)
    IN Or(\/ a \notin 0..(Len(s) - 1)
          \/ Elems(s) # x.count
          \/ s[a + 1] = 0 /\ Elems(ReplaceAt(s, a + 1, 1)) > 0,    \* a sum over nothing
          Tensor(s, x.count, <<>>))

ReshapeUnchecked(x, operand) == Tensor(operand.ints, x.count, x.ints)
\* One dimension may be -1 (what is left), one that is 0 is the input's own.
EvalReshape(x, operand) ==
    LET asked == operand.ints
        own == {i \in DOMAIN asked : asked[i] = 0}
        left == {i \in DOMAIN asked : asked[i] = -1}
        bad == (\E i \in DOMAIN asked : asked[i] < -1) \/ (\E i \in own : i > Len(x.shape)) \/ Cardinality(left) > 1
        fixed == [i \in DOMAIN asked |-> IF i \in left THEN 1 ELSE IF i \in own THEN x.shape[i] ELSE asked[i]]
        known == Elems(fixed)
        shape == [i \in DOMAIN asked |-> IF i \in left THEN x.count \div known ELSE fixed[i]]
    IN Or(\/ bad
          \/ left # {} /\ (known <= 0 \/ x.count % known # 0)
          \/ Elems(shape) # x.count,
          Tensor(shape, x.count, x.ints))

Shapewise == {"Relu", "LeakyRelu", "Sigmoid", "Tanh"}
SupportedOps == Shapewise \cup {"Gemm", "MatMul", "Add", "BatchNormalization", "Dropout", "Identity", "Softmax", "Flatten", "Reshape"}

EvalNode(n, vals) ==
    LET x == Arg(n, 1, vals)
        y == Arg(n, 2, vals)
        binary == n.op \in {"Gemm", "MatMul", "Add", "Reshape", "BatchNormalization"}
    IN IF x = Broken \/ (binary /\ y = Broken) \/ n.out = <<>> \/ n.out[1] = "" THEN Broken
       ELSE CASE n.op = "Gemm" -> EvalGemm(n, vals)
              [] n.op = "MatMul" -> MatMul(x, y)
              [] n.op = "Add" -> Broadcast(x, y)
              [] n.op \in Shapewise -> Tensor(x.shape, x.count, <<>>)
              [] n.op \in {"Dropout", "Identity"} -> x
              [] n.op = "BatchNormalization" -> EvalBatchNorm(n, vals)
              [] n.op = "Flatten" -> EvalFlatten(n, x)
              [] n.op = "Softmax" -> EvalSoftmax(n, x)
              [] n.op = "Reshape" -> EvalReshape(x, y)

-----------------------------------------------------------------------------
(* compile: initializers, the one runtime input and output, constants, and a known op for every
   node.  Later names replace earlier ones. *)

ConstantNodes(g) == SelectSeq(g.nodes, LAMBDA n : n.op = "Constant")
Executable(g) == SelectSeq(g.nodes, LAMBDA n : n.op # "Constant")
RuntimeInputs(g) == SelectSeq(g.inputs, LAMBDA v : v.name \notin {g.inits[i].name : i \in DOMAIN g.inits})
InputName == RuntimeInputs(network)[1].name
OutputName == network.outputs[1].name

Refusable(g) ==
    \/ \E i \in DOMAIN g.inits : g.inits[i].name = "" \/ BadTensor(g.inits[i])
    \/ Len(RuntimeInputs(g)) # 1 \/ Len(g.outputs) # 1
    \/ RuntimeInputs(g)[1].name = "" \/ g.outputs[1].name = ""
    \/ \E n \in Range(ConstantNodes(g)) : Len(n.out) # 1 \/ n.out[1] = "" \/ BadTensor(n.value)
    \/ \E n \in Range(Executable(g)) : n.op \notin SupportedOps
    \/ Executable(g) = <<>>

Weights(g) ==
    LET stored == [i \in DOMAIN g.inits |-> <<g.inits[i].name, Materialize(g.inits[i])>>]
                  \o [i \in DOMAIN ConstantNodes(g) |->
                        <<ConstantNodes(g)[i].out[1], Materialize(ConstantNodes(g)[i].value)>>]
    IN [name \in {stored[i][1] : i \in DOMAIN stored} |->
           stored[Max({i \in DOMAIN stored : stored[i][1] = name})][2]]

Compile ==
    /\ stage = "parsed"
    /\ IF Refusable(network) THEN stage' = "refused" /\ UNCHANGED <<weights, unplaced>>
       ELSE stage' = "ordering" /\ weights' = Weights(network) /\ unplaced' = Executable(network)
    /\ UNCHANGED <<network, schedule, sizes, tensors>>

-----------------------------------------------------------------------------
(* topoOrder: each pass places every node whose inputs are there by then. *)

Outs(nodes) == UNION {Range(nodes[i].out) : i \in DOMAIN nodes} \ {""}
Available(placed) == {InputName} \cup DOMAIN weights \cup Outs(placed)
ReadyByFirst(n, placed) == n.in = <<>> \/ n.in[1] = "" \/ n.in[1] \in Available(placed)
Ready(n, placed) == \A i \in DOMAIN n.in : n.in[i] = "" \/ n.in[i] \in Available(placed)

PlaceReady ==
    LET pass == FoldLeft(LAMBDA acc, n : IF Ready(n, acc.placed) THEN [acc EXCEPT !.placed = Append(@, n)]
                                         ELSE [acc EXCEPT !.left = Append(@, n)],
                         [placed |-> schedule, left |-> <<>>], unplaced)
    IN /\ stage = "ordering" /\ unplaced # <<>>
       /\ IF pass.placed = schedule THEN stage' = "unresolvable" /\ UNCHANGED <<schedule, unplaced>>
          ELSE stage' = "ordering" /\ schedule' = pass.placed /\ unplaced' = pass.left
       /\ UNCHANGED <<network, weights, sizes, tensors>>

-----------------------------------------------------------------------------
(* resolveInputSize, resolveOutputSize: the declared shape with the batch pinned to one, else the
   weights of the first and of the last layer.  0 is no size. *)

Concrete(v) == IF v.shape = Undeclared THEN <<>> ELSE SelectSeq(v.shape, LAMBDA d : d > 0)

IsLayer(n) == n.op \in {"Gemm", "MatMul"} /\ Len(n.in) >= 2
              /\ n.in[2] \in DOMAIN weights /\ Len(weights[n.in[2]].shape) = 2
Turned(n) == n.op = "Gemm" /\ n.transB
LayerIn(n) == weights[n.in[2]].shape[IF Turned(n) THEN 2 ELSE 1]
LayerOutStored(n) == weights[n.in[2]].shape[2]
LayerOut(n) == weights[n.in[2]].shape[IF Turned(n) THEN 1 ELSE 2]

InputSize ==
    LET first == {i \in DOMAIN schedule : IsLayer(schedule[i]) /\ schedule[i].in[1] = InputName}
        v == RuntimeInputs(network)[1]
    IN IF Concrete(v) # <<>> THEN Elems(Concrete(v))
       ELSE IF first # {} THEN LayerIn(schedule[Min(first)]) ELSE 0

FirstNamed(names) == LET named == SelectSeq(names, LAMBDA x : x # "") IN IF named = <<>> THEN "" ELSE named[1]

RECURSIVE WidthBack(_, _)
WidthBack(name, hops) ==
    LET producers == {i \in DOMAIN schedule : name \in Range(schedule[i].out) \ {""}}
        n == schedule[Max(producers)]
    IN IF hops = 0 \/ producers = {} THEN 0
       ELSE IF n.op \in {"Gemm", "MatMul"} THEN (IF IsLayer(n) THEN LayerOut(n) ELSE 0)
       ELSE IF n.op = "Reshape" THEN 0
       ELSE WidthBack(FirstNamed(n.in), hops - 1)

OutputSize ==
    LET v == network.outputs[1] IN
    IF Concrete(v) # <<>> THEN Elems(Concrete(v)) ELSE WidthBack(OutputName, MaxHops)

ResolveSizes ==
    /\ stage = "ordering" /\ unplaced = <<>>
    /\ IF InputSize <= 0 \/ OutputSize <= 0 THEN stage' = "refused" /\ UNCHANGED sizes
       ELSE stage' = "ordered" /\ sizes' = [in |-> InputSize, out |-> OutputSize]
    /\ UNCHANGED <<network, weights, unplaced, schedule, tensors>>

-----------------------------------------------------------------------------
(* BuildLive: a family's sizes must fit, or the activation is refused. *)

ClassifierSizes == [in |-> FeatureWidth, out |-> ClassWidth]
AnomalySizes == [in |-> FeatureWidth, out |-> FeatureWidth]
SequenceSizes == [in |-> SeqLen * FeatureWidth, out |-> ClassWidth]
Wanted(family) ==
    CASE family = "flow-anomaly-v1" -> AnomalySizes
      [] family = "flow-sequence-v1" -> SequenceSizes
      [] OTHER -> ClassifierSizes

BuildLive ==
    /\ stage = "ordered"
    /\ stage' = IF sizes = Wanted(network.family) THEN "live" ELSE "refused"
    /\ UNCHANGED <<network, weights, unplaced, schedule, sizes, tensors>>

-----------------------------------------------------------------------------
(* Model.Run under Classify, ScoreAnomaly or ScoreSequence: an error anywhere and the model abstains. *)

Given == (InputName :> Tensor(<<1, sizes.in>>, sizes.in, <<>>)) @@ weights

StartRun ==
    /\ stage = "live"
    /\ stage' = "running" /\ tensors' = Given /\ unplaced' = schedule
    /\ UNCHANGED <<network, weights, schedule, sizes>>

RunNode ==
    LET n == unplaced[1]
        t == EvalNode(n, tensors)
    IN /\ stage = "running" /\ unplaced # <<>>
       /\ IF t = Broken THEN stage' = "abstained" /\ UNCHANGED tensors
          ELSE stage' = "running" /\ tensors' = (n.out[1] :> t) @@ tensors
       /\ unplaced' = Tail(unplaced)
       /\ UNCHANGED <<network, weights, schedule, sizes>>

Scores == OutputName \in DOMAIN tensors /\ tensors[OutputName].count = sizes.out

EndRun ==
    /\ stage = "running" /\ unplaced = <<>>
    /\ stage' = IF Scores THEN "scored" ELSE "abstained"
    /\ UNCHANGED <<network, weights, unplaced, schedule, sizes, tensors>>

Unread ==
    /\ stage = "parsed"
    /\ weights = <<>> /\ unplaced = <<>> /\ schedule = <<>> /\ tensors = <<>>
    /\ sizes = [in |-> 0, out |-> 0]
NetworkInit == network \in Networks /\ Unread

NetworkNext == Compile \/ PlaceReady \/ ResolveSizes \/ BuildLive \/ StartRun \/ RunNode \/ EndRun

-----------------------------------------------------------------------------
(* Properties *)

\* Every name is given once: the case in which a graph means something by itself.
NamedOnce ==
    /\ Cardinality(Outs(schedule)) = Len(FlattenSeq([i \in DOMAIN schedule |-> schedule[i].out]))
    /\ Outs(schedule) \cap ({InputName} \cup DOMAIN weights) = {}

\* n has every input from what is there before a run or from the nodes before it
Fed(n, before) == Range(n.in) \ {""} \subseteq {InputName} \cup DOMAIN weights \cup UNION {Range(before[i].out) : i \in DOMAIN before}
Orders == {p \in [DOMAIN Executable(network) -> DOMAIN Executable(network)] : IsInjective(p)}
Orderly(p) == \A k \in DOMAIN p :
    Fed(Executable(network)[p[k]], [j \in 1..(k - 1) |-> Executable(network)[p[j]]])

\* A graph is refused as a cycle or for a missing tensor exactly when no order of its nodes has
\* every input before its use; otherwise the schedule is such a one, of all nodes (topoOrder).
OrderResolves ==
    /\ stage = "unresolvable" => \A p \in Orders : ~Orderly(p)
    /\ stage = "ordered" =>
          /\ \A k \in DOMAIN schedule : Fed(schedule[k], SubSeq(schedule, 1, k - 1))
          /\ Len(schedule) = Len(Executable(network)) /\ Range(schedule) = Range(Executable(network))

\* The order the exporter lists the nodes in does not matter: every orderly run over the same
\* nodes ends as this one (Model.Run over topoOrder's result).
ListingIsIrrelevant ==
    (stage \in {"scored", "abstained"} /\ NamedOnce) =>
        \A p \in Orders : Orderly(p) =>
            LET step(vals, k) ==
                    LET t == EvalNode(Executable(network)[p[k]], vals) IN
                    IF vals = <<>> \/ t = Broken THEN <<>> ELSE (Executable(network)[p[k]].out[1] :> t) @@ vals
                ran == FoldLeft(step, Given, [k \in DOMAIN p |-> k])
            IN (stage = "scored") = (ran # <<>> /\ OutputName \in DOMAIN ran /\ ran[OutputName].count = sizes.out)

\* A tensor carries as many values as its shape says, so no op reads past the end of one it was
\* given (nn.go: "A malformed model returns an error, never a panic").
ShapesHold == \A x \in DOMAIN tensors : LET t == tensors[x] IN
    t.count >= 0 /\ (t.shape # <<>> => Elems(t.shape) = t.count)

\* Where a layer's rows stay one and no bias or sum is wider than what it is added to, the output
\* size found from the weights is the one a run gives: such a model, once active, never abstains
\* for its size (resolveOutputSize against Model.Run).
PlainLayers ==
    /\ NamedOnce
    /\ \A i \in DOMAIN schedule : LET n == schedule[i] IN
         /\ n.op # "Reshape" /\ ~n.transA /\ n.axis = Undeclared
         /\ n.op \in {"Gemm", "MatMul"} => IsLayer(n) /\ n.in[1] \notin DOMAIN weights
         /\ n.op = "Gemm" /\ Len(n.in) >= 3 => Arg(n, 3, tensors).count <= LayerOut(n)
         /\ n.op = "Add" => Arg(n, 2, tensors).count <= Arg(n, 1, tensors).count
InferredSizeIsReal ==
    (stage = "abstained" /\ unplaced = <<>> /\ PlainLayers /\ Concrete(network.outputs[1]) = <<>>) =>
        \E i \in DOMAIN schedule : EvalNode(schedule[i], tensors) = Broken

\* What Load accepts runs as the graph says, in whatever order it was listed, on tensors that are
\* as large as they claim (nn.Load, Model.Run).
NetworksRunAsDeclared == OrderResolves /\ ListingIsIrrelevant /\ ShapesHold /\ InferredSizeIsReal

=============================================================================
