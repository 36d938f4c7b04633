-------------------------- MODULE MCQuoteExecutor --------------------------
\* The bid side.  Everything happens to a plain quote; a ladder has an id more than
\* its levels, or fills; a pause that crossed a refresh is followed by a resume.
EXTENDS QuoteExecutor
Setup(mode, S, take, live, events, followed) ==
  [mode |-> mode, wants |-> [bid |-> S, ask |-> {0}], take |-> take, live |-> live,
   events |-> events, followed |-> followed]
MCSetups ==
  {Setup("make", {0, 2}, TRUE, 2, {"fill"}, {}),
   Setup("make", {1, 2}, FALSE, 2, {"fill"}, {}),
   Setup("make", {2}, FALSE, 2, {"fill", "partial", "pause", "mass", "flatten"}, {}),
   Setup("chase", {2}, FALSE, 2, {"fill"}, {}),
   Setup("climb", {1, 2}, FALSE, 2, {"fill"}, {}),
   Setup("make", {2}, FALSE, 2, {"pause"}, {"control"}),
   Setup("climb", {2}, FALSE, 2, {"pause"}, {"control"}),
   Setup("ladder", {1, 2}, FALSE, 3, {}, {}),
   Setup("ladder", {1, 2}, FALSE, 2, {"fill"}, {}),
   Setup("climb_multi", {1, 2}, FALSE, 3, {}, {})}
=============================================================================
