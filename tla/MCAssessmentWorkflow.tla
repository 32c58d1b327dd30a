------------------------ MODULE MCAssessmentWorkflow ------------------------
\* AssessmentWorkflow with three rows, as model values, which are symmetric.
EXTENDS AssessmentWorkflow, TLC

Symmetry == Permutations(Layers)
=============================================================================
