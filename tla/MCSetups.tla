------------------------------ MODULE MCSetups ------------------------------
\* Setups for two clients and every pair of scripts, on a handful of ledgers.
EXTENDS Setups

CONSTANTS c1, c2

MCGranted == [c \in Clients |-> IF c = c1 THEN <<4, 5, 6, 7, 8>> ELSE <<9, 10, 11, 12, 13>>]

MCScripts ==
  {"fivePools", "aPool", "poolIfMissing", "feeClear", "feeAdd", "poolRewards", "tokenRewards",
   "customPool", "thirdParty", "addNative", "addThirdParty", "unspentNew", "unspentGiven",
   "giveTokens", "burnAll", "join", "joinFew", "delegators", "addStaked", "collator", "mint", "enable",
   "council", "maintenance", "vote", "close", "veto"}

\* no pool yet
Empty ==
  [done |-> {}, free |-> (<<Sudo, Native>> :> 10000), active |-> <<>>, active3 |-> <<>>,
   vesting |-> <<>>, unspent |-> <<>>, bonded |-> <<>>, pools |-> <<>>,
   promoted |-> {}, stakable |-> {Native}, schedules |-> {}, next |-> 14,
   fee |-> [amount |-> "small", threshold |-> 1, listed |-> FALSE],
   members |-> {}, ayes |-> <<>>, maintenance |-> FALSE]

\* a pool of a native tokens and b others, half of it of Bob and of Eve each,
\* and Eve has n of the other token
Pooled(a, b, n) ==
  [Empty EXCEPT !.pools = (GivenPool :> [res |-> (Native :> a @@ Given :> b), total |-> a]),
                !.free = @ @@ (<<Bob, GivenPool>> :> a \div 2) @@ (<<Eve, GivenPool>> :> a \div 2)
                           @@ (<<Eve, Given>> :> n)]

Earning == [Pooled(20, 60, 1000) EXCEPT
              !.done = {"tge", "issuance"}, !.promoted = {GivenPool}, !.stakable = {Native, GivenPool},
              !.schedules = {<<GivenPool, Given>>}, !.fee.listed = TRUE]

MCChain ==
  { Empty,
    [Empty EXCEPT !.fee = NoFee, !.members = {Bob, Eve}, !.ayes = (Motion :> {Bob})],
    [Pooled(100, 100, 1000) EXCEPT !.fee.amount = "large", !.members = {Bob}, !.ayes = (Motion :> {})],
    [Earning EXCEPT !.members = {Bob}, !.ayes = (Motion :> {Bob}), !.maintenance = TRUE],
    [Earning EXCEPT !.pools[GivenPool].total = 40, !.free = @ @@ (<<Eve, Native>> :> 100)],
    [Pooled(300, 100, 0) EXCEPT !.done = {"tge"}, !.promoted = {GivenPool}, !.stakable = {Native, GivenPool}],
    Pooled(4, 4, 0) }
=============================================================================
