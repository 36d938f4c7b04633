----------------------------- MODULE MCMarketFeed -----------------------------
\* One symbol, events of one or more updates, a queue that can be full.
EXTENDS MarketFreshness
=============================================================================
