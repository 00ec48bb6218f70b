----------------------------- MODULE MCFusion ------------------------------
(* Graphs for Fusion.  Node p writes tensor p; 10 is the input, 11 to 15    *)
(* are initializers, 16 is an extra output.                                *)
EXTENDS Fusion

x == 10
w == 11
v == 12

Graph(nodes, outputs, inits) ==
  [nodes |-> nodes, inputs |-> {x}, outputs |-> outputs, inits |-> inits]

Weights == [t \in 11..15 |-> <<"init", t>>]
Unloaded == [t \in 11..15 |-> Unknown]

Unary(op, T, p) == {NodeOf(op, <<t>>, <<p>>) : t \in T}
Weighted(op, T, p) == {NodeOf(op, <<t, w>>, <<p>>) : t \in T}
Biased(op, T, p) == {NodeOf(op, <<t, w, v>>, <<p>>) : t \in T}
Pairs(op, T, p) == {NodeOf(op, <<t, u>>, <<p>>) : t \in T, u \in T}
Bias(T, p) == {NodeOf("Add", <<t, v>>, <<p>>) : t \in T}
BatchNorm(T, p, outs) ==
  {NodeOf("BatchNormalization", <<t, 12, 13, 14, 15>>, outs) : t \in T}
GemmOf(t, p, attrs) == [NodeOf("Gemm", <<t, w, v>>, <<p>>) EXCEPT !.attrs = attrs]

(* Pointwise operators, products, biases, residual sums and norms.         *)
Transformers ==
  LET Step(p, T) == Unary("Relu", T, p) \cup Weighted("MatMul", T, p) \cup Bias(T, p)
                     \cup Biased("LayerNormalization", T, p)
  IN {Graph(<<a, b, c, d, e>>, outs, Weights) :
        a \in Unary("Relu", {x}, 1) \cup Weighted("MatMul", {x}, 1),
        b \in Step(2, {1}) \cup {NodeOf("Add", <<1, x>>, <<2>>)},
        c \in Step(3, {1, 2}) \cup {NodeOf(op, <<1, 2>>, <<3>>) : op \in {"Add", "Mul"}},
        d \in Step(4, {2, 3}) \cup {NodeOf(op, <<t, 3>>, <<4>>) : op \in {"Add", "Mul"}, t \in {1, 2}},
        e \in Unary("Erf", {4}, 5) \cup Biased("LayerNormalization", {3, 4}, 5) \cup Bias({4}, 5)
                \cup {NodeOf(op, <<t, 4>>, <<5>>) : op \in {"Add", "Mul"}, t \in {1, 2, 3}},
        outs \in {{5}, {2, 5}}}

(* Convolutions, batch norms and residual blocks.                          *)
Residuals ==
  {Graph(<<a, b, c, d>>, outs, inits) :
     a \in Weighted("Conv", {x}, 1) \cup Biased("Conv", {x}, 1),
     b \in Weighted("Conv", {x, 1}, 2) \cup Unary("Relu", {1}, 2)
             \cup BatchNorm({1}, 2, <<2>>) \cup BatchNorm({1}, 2, <<2, 16>>),
     c \in {NodeOf("Add", <<t, 2>>, <<3>>) : t \in {x, 1, 2}} \cup BatchNorm({2}, 3, <<3>>)
             \cup Unary("Relu", {1, 2}, 3),
     d \in Unary("Relu", {2, 3}, 4) \cup Unary("Erf", {3}, 4) \cup Weighted("Conv", {3}, 4)
             \cup {NodeOf("Add", <<2, 3>>, <<4>>)},
     outs \in {{4}, {3, 4}, {1, 4}},
     inits \in {Weights, Unloaded}}

(* Flatten, Gemm with its attributes, Relu, and a reader beside them.      *)
Perceptrons ==
  {Graph(<<NodeOf("Flatten", <<x>>, <<1>>), GemmOf(s, 2, attrs), c, d>>, outs, inits) :
     s \in {x, 1}, attrs \in SUBSET {"alpha", "beta", "transA", "transB"},
     c \in Unary("Relu", {1, 2}, 3) \cup {GemmOf(2, 3, {})},
     d \in Unary("Relu", {3}, 4) \cup Biased("LayerNormalization", {3}, 4)
             \cup {NodeOf("Add", <<t, 3>>, <<4>>) : t \in {1, 2}},
     outs \in {{4}, {1, 4}, {2, 4}},
     inits \in {Weights, Unloaded}}

(* Pool and softmax, and a chain that is longer than a group may be.       *)
Others4 ==
  {Graph(<<NodeOf(o[1], <<x>>, <<1>>), NodeOf(o[2], <<1>>, <<2>>), c, d>>, outs, Weights) :
     o \in {<<"GlobalAveragePool", "Flatten">>, <<"Softmax", "Dropout">>},
     c \in {GemmOf(2, 3, {})} \cup Unary("Relu", {1, 2}, 3),
     d \in Unary("Relu", {3}, 4) \cup {NodeOf("Mul", <<2, 3>>, <<4>>)},
     outs \in {{4}, {1, 4}}}

Chains ==
  {Graph([p \in 1..7 |-> NodeOf(IF p = k THEN "Sqrt" ELSE "Relu",
                                <<IF p = 1 THEN x ELSE p - 1>>, <<p>>)], {7}, Weights) :
     k \in 1..7}

AllGraphs == Transformers \cup Residuals \cup Perceptrons \cup Others4 \cup Chains
=============================================================================
