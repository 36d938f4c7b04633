--------------------------- MODULE MCSubmitGuard ---------------------------
\* Two coroutines submit children through the guard.
EXTENDS SubmitGuard
=============================================================================
