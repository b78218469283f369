------------------------- MODULE MCThreadMaintenance -------------------------
\* Streams are interchangeable: no action or property tells them apart.
EXTENDS ThreadMaintenance, TLC

Interchangeable == Permutations(Streams)
=============================================================================
