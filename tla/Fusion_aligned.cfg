CONSTANT Graphs <- Transformers

SPECIFICATION Spec

INVARIANT FusionAligned
