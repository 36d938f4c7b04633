-------------------------- MODULE MCOrderReconciler --------------------------
\* Instances of OrderReconciler for TLC.
EXTENDS OrderReconciler, TLC
Symmetry == Permutations(Orders)
=============================================================================
