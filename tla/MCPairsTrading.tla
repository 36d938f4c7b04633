-------------------------- MODULE MCPairsTrading --------------------------
\* One pair.
EXTENDS PairsTrading
=============================================================================
