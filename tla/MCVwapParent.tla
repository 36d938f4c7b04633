---------------------------- MODULE MCVwapParent ----------------------------
\* Instances of VwapParent for TLC.
EXTENDS VwapParent, TLC

\* Two lots, then one, where there is a second slice.
FrontLoaded == [s \in Slice |-> IF s = 1 THEN 2 ELSE 1]
=============================================================================
