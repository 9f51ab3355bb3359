-------------------------- MODULE MCNormalization --------------------------
EXTENDS NormalizationRuns

\* The second configuration has profiles for more records than the first.
MCNormProfiled == <<{"x"}, {"x", "y"}>>
=============================================================================
