------------------------- MODULE MCStrategyLedger -------------------------
\* A strategy that goes by its leg (sma_crossover) and one that looks at the venue too.
EXTENDS StrategyLedger
=============================================================================
