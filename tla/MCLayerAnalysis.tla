-------------------------- MODULE MCLayerAnalysis --------------------------
\* LayerAnalysis with layers and handlers as model values, which are symmetric,
\* and the sets of endpoints the runs call.
EXTENDS LayerAnalysis, TLC

Symmetry == Permutations(Layers) \cup Permutations(Handlers)

AllButEdit == LayerEndpoints \cup RequestEndpoints

EditAndSpecs == {"edit", "finalizeSpec", "provideTestCases"}
=============================================================================
