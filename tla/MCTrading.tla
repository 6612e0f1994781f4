------------------------------ MODULE MCTrading ------------------------------
\* Trading in a pool of 60 and 200, with a wallet of one of its tokens and its liquidity.
EXTENDS Trading

MCRefs == {<<First, 1>>, <<Liq, 1>>}
MCPools == {[a \in Pair |-> IF a = First THEN 60 ELSE 200]}
==============================================================================
