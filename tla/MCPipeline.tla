------------------------------ MODULE MCPipeline ------------------------------
\* Model checking of Pipeline: the workers are interchangeable.
EXTENDS Pipeline, TLC

Symmetry == Permutations(Workers)
===============================================================================
