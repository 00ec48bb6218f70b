--------------------------- MODULE MCInferWorker ---------------------------
(* Instances of InferWorker: a model that fits on the device and one whose  *)
(* weights have to be streamed, inputs shorter than the first probe,        *)
(* between the probes and longer than both, and batch sizes below and above *)
(* what memory allows.                                                     *)
EXTENDS InferWorker, TLC

Ask(m, i, d, b) == [onnx |-> m, input |-> i, output |-> d, batch |-> b]

MixedTasks ==
  {Ask("small", "long", "out", 3), Ask("small", "single", "out2", 2),
   Ask("big", "long", "out", 0), Ask("big", "short", "out", 2)}

InputSamples == ("single" :> 1) @@ ("short" :> 3) @@ ("long" :> 6)
ModelUnits == ("small" :> 1) @@ ("big" :> 40)
=============================================================================
