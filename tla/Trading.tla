------------------------------ MODULE Trading ------------------------------
(***************************************************************************)
(* A test that trades in a pool and compares its wallet with the prices it *)
(* has computed itself: class User of User.ts and the prices of tx.ts.     *)
(* The test adds the assets it watches, refreshes their amounts, computes  *)
(* a price, trades, refreshes again and compares.  Others trade in the     *)
(* same pool, and a refresh may be called and not awaited.                 *)
(***************************************************************************)
EXTENDS PoolMath, Sequences, FiniteSets

CONSTANTS
  Pools,      \* reserves that the pool may be created with
  Funds,      \* what the user has of each token of the pool
  Amounts,    \* what the test trades
  OthersAmounts,
  Refs,       \* the BN objects, as <<asset, number>>
  MaxIn,      \* maxExpected of buyAssets
  MaxTrades,  \* bound: trades of the test
  MaxOthers   \* bound: trades of the others

First == 1
Second == 2
Liq == 3
Assets == {First, Second, Liq}
Pair == {First, Second}

ASSUME TradingAssumption ==
  /\ Pools \subseteq [Pair -> Nat \ {0}]
  /\ Funds \in Nat /\ MaxIn \in Nat
  /\ Amounts \subseteq Nat \ {0} /\ OthersAmounts \subseteq Nat \ {0}
  /\ Refs \subseteq Assets \X Nat
  /\ MaxTrades \in Nat /\ MaxOthers \in Nat

VARIABLES
  reserve,    \* chain: of the pool, per token of the pair
  total,      \* chain: issuance of the liquidity token
  balance,    \* chain: of the user, per asset
  assets,     \* User.assets: the references with amountBefore and amountAfter
  flights,    \* the calls of refreshAmounts that wait for balances
  pc,         \* where the test is
  quote,      \* the price that it has computed
  supply,     \* the issuance that the quote is computed with
  diffs,      \* the answer of getWalletDifferences
  trades,     \* history: how often the test, and the others, have traded
  expected,   \* history: the sum of the quotes that the test has traded on
  raced,      \* history: it traded, or added an asset, beside a refresh
  late,       \* history: it has added an asset since it called refreshAmounts
  overtaken   \* history: others traded between its quote and its trade

chain == <<reserve, total, balance>>
history == <<trades, expected, raced, late, overtaken>>
vars == <<chain, assets, flights, pc, quote, supply, diffs, history>>

NoAmount == -1   \* an amount that is undefined or has no reserved and frozen
Slots == {"awaited", "forgotten"}
Idle == [side |-> "none", currencies |-> <<>>, values |-> <<>>]
Zero == [a \in Assets |-> 0]
NoQuote == [kind |-> "none", delta |-> Zero]
Other(t) == IF t = First THEN Second ELSE First

\* createPoolToAsset has given the user all the liquidity of the pool
Init ==
  /\ reserve \in Pools
  /\ total = LiqAssetAmount(reserve[First], reserve[Second])
  /\ balance = [a \in Assets |-> IF a = Liq THEN total ELSE Funds]
  /\ assets = <<>>
  /\ flights = [s \in Slots |-> Idle]
  /\ pc = "setup"
  /\ quote = NoQuote
  /\ supply = 0
  /\ diffs = {}
  /\ trades = [own |-> 0, others |-> 0]
  /\ expected = Zero
  /\ raced = FALSE /\ late = FALSE /\ overtaken = FALSE

-----------------------------------------------------------------------------
\* the wallet of the user

InFlight(slot) == flights[slot] # Idle
Ended == pc \in {"done", "thrown", "failed"}

\* mutant: the asset is added without a look at the others
AddAssetAgain(ref) ==
  /\ pc \in {"setup", "trading"}
  /\ assets' = Append(assets, [ref |-> ref, before |-> NoAmount, after |-> NoAmount])
  /\ raced' = (raced \/ InFlight("forgotten"))
  /\ late' = TRUE
  /\ UNCHANGED <<chain, flights, pc, quote, supply, diffs, trades, expected, overtaken>>

\* addAsset: assets are found by the identity of their BN, not by its value
AddAsset(ref) ==
  /\ pc \in {"setup", "trading"}
  /\ \A i \in DOMAIN assets : assets[i].ref # ref
  /\ assets' = Append(assets, [ref |-> ref, before |-> NoAmount, after |-> NoAmount])
  /\ raced' = (raced \/ InFlight("forgotten"))
  /\ late' = TRUE
  /\ UNCHANGED <<chain, flights, pc, quote, supply, diffs, trades, expected, overtaken>>

\* refreshAmounts takes the currencies and asks for the first balance
RefreshAmounts(slot, side) ==
  /\ ~InFlight(slot)
  /\ flights' = [flights EXCEPT ![slot] =
       [side |-> side, currencies |-> [i \in DOMAIN assets |-> assets[i].ref[1]],
        values |-> <<>>]]

RefreshBefore(slot) ==
  /\ pc = "setup"
  /\ RefreshAmounts(slot, "before")
  /\ pc' = IF slot = "awaited" THEN "before" ELSE pc
  /\ late' = FALSE
  /\ UNCHANGED <<chain, assets, quote, supply, diffs, trades, expected, raced, overtaken>>

RefreshAfter ==
  /\ pc = "trading"
  /\ RefreshAmounts("awaited", "after")
  /\ pc' = "after"
  /\ UNCHANGED <<chain, assets, quote, supply, diffs, history>>

\* mutant: the answers are kept in the order they come in
GetUserAssetsAtOnce(slot) ==
  LET f == flights[slot] IN
  /\ ~Ended
  /\ Len(f.values) < Len(f.currencies)
  /\ \E i \in DOMAIN f.currencies :
       flights' = [flights EXCEPT ![slot].values = Append(@, balance[f.currencies[i]])]
  /\ UNCHANGED <<chain, assets, pc, quote, supply, diffs, history>>

\* getUserAssets reads one balance after the other
GetUserAssets(slot) ==
  LET f == flights[slot] IN
  /\ ~Ended
  /\ Len(f.values) < Len(f.currencies)
  /\ flights' = [flights EXCEPT ![slot].values =
                   Append(@, balance[f.currencies[Len(f.values) + 1]])]
  /\ UNCHANGED <<chain, assets, pc, quote, supply, diffs, history>>

\* assetValues[index], for every asset that there is by now
Assigned(f, i) ==
  LET value == IF i <= Len(f.values) THEN f.values[i] ELSE NoAmount IN
  IF f.side = "before" THEN [assets[i] EXCEPT !.before = value]
                       ELSE [assets[i] EXCEPT !.after = value]

RefreshReturns(slot) ==
  LET f == flights[slot] IN
  /\ ~Ended /\ f # Idle
  /\ Len(f.values) = Len(f.currencies)
  /\ assets' = [i \in DOMAIN assets |-> Assigned(f, i)]
  /\ flights' = [flights EXCEPT ![slot] = Idle]
  /\ pc' = IF slot = "forgotten" THEN pc
           ELSE IF pc = "before" THEN "setup" ELSE "compare"
  /\ UNCHANGED <<chain, quote, supply, diffs, history>>

\* getWalletDifferences, for the free part; an amount without parts throws
GetWalletDifferences ==
  /\ pc = "compare"
  /\ IF \E i \in DOMAIN assets : NoAmount \in {assets[i].before, assets[i].after}
     THEN pc' = "thrown" /\ UNCHANGED diffs
     ELSE /\ pc' = "done"
          /\ diffs' = {<<assets[i].ref, assets[i].after - assets[i].before>> :
                         i \in {j \in DOMAIN assets : assets[j].after # assets[j].before}}
  /\ UNCHANGED <<chain, assets, flights, quote, supply, history>>

-----------------------------------------------------------------------------
\* prices and trades

\* what a trade changes for its user, by the reserves r and the issuance n
Delta(kind, t, x, r, n) ==
  CASE kind = "sell" -> [Zero EXCEPT ![t] = -x, ![Other(t)] = SellPrice(r[t], r[Other(t)], x)]
    [] kind = "buy"  -> [Zero EXCEPT ![t] = -BuyPrice(r[t], r[Other(t)], x), ![Other(t)] = x]
    [] kind = "mint" -> [Zero EXCEPT ![t] = -x, ![Other(t)] = -MintSecond(r[t], r[Other(t)], x),
                                     ![Liq] = MintShare(r[t], n, x)]
    [] kind = "burn" -> [a \in Assets |-> IF a = Liq THEN -x ELSE BurnShare(r[a], n, x)]

\* the price divides by zero
PriceThrows(kind, t, x, r, n) ==
  \/ kind = "buy" /\ r[Other(t)] = x
  \/ kind = "mint" /\ r[t] = 0
  \/ kind = "burn" /\ n = 0

Begin ==
  /\ pc = "setup"
  /\ pc' = "trading"
  /\ UNCHANGED <<chain, assets, flights, quote, supply, diffs, history>>

\* the price of liquidity awaits the issuance before it asks for the reserves
GetAssetSupply ==
  /\ pc = "trading" /\ trades.own < MaxTrades
  /\ pc' = "supply"
  /\ supply' = total
  /\ UNCHANGED <<chain, assets, flights, quote, diffs, history>>

\* getBalanceOfPool and the price of a trade of x of the token t
GetPrice(kind, t, x) ==
  /\ IF kind \in {"sell", "buy"} THEN pc = "trading" /\ trades.own < MaxTrades
                                 ELSE pc = "supply"
  /\ IF PriceThrows(kind, t, x, reserve, supply)
     THEN pc' = "failed" /\ UNCHANGED quote
     ELSE /\ pc' = "priced"
          /\ quote' = [kind |-> kind, t |-> t, x |-> x,
                       delta |-> Delta(kind, t, x, reserve, supply)]
  /\ UNCHANGED <<chain, assets, flights, supply, diffs, history>>

\* external: the pool pays what Delta says, and the two fees of a swap leave it
FeesOf(kind, t, d) == IF kind \in {"sell", "buy"} THEN 2 * TreasuryFee(-d[t]) ELSE 0

ReserveAfter(kind, t, d) ==
  [a \in Pair |-> reserve[a] - d[a] - IF a = t THEN FeesOf(kind, t, d) ELSE 0]

\* external: the pallet refuses to trade in a pool that is not there, to buy all
\* there is and what leaves too little for the fees
Accepted(kind, t, x, d) ==
  /\ total > 0 /\ ~PriceThrows(kind, t, x, reserve, total)
  /\ kind = "buy" => x < reserve[Other(t)]
  /\ \A a \in Pair : ReserveAfter(kind, t, d)[a] >= 0

\* buyAssets, sellAssets and mintLiquidity assert the answer; burnLiquidity of
\* tx.ts leaves that to the test, and some tests go on after a refusal
AfterRefusal(kind) == IF kind = "burn" THEN {"failed", "trading"} ELSE {"failed"}

Trade ==
  LET d == Delta(quote.kind, quote.t, quote.x, reserve, total) IN
  /\ pc = "priced"
  /\ IF /\ Accepted(quote.kind, quote.t, quote.x, d)
        /\ \A a \in Assets : balance[a] + d[a] >= 0
        /\ quote.kind = "buy" => -d[quote.t] <= MaxIn
     THEN /\ reserve' = ReserveAfter(quote.kind, quote.t, d)
          /\ total' = total + d[Liq]
          /\ balance' = [a \in Assets |-> balance[a] + d[a]]
          /\ expected' = [a \in Assets |-> expected[a] + quote.delta[a]]
          /\ trades' = [trades EXCEPT !.own = @ + 1]
          /\ raced' = (raced \/ InFlight("forgotten"))
          /\ pc' = "trading"
     ELSE /\ pc' \in AfterRefusal(quote.kind)
          /\ UNCHANGED <<chain, expected, trades, raced>>
  /\ quote' = NoQuote
  /\ supply' = 0
  /\ UNCHANGED <<assets, flights, diffs, late, overtaken>>

\* external: another user trades in the pool
OthersTrade(kind, t, x) ==
  LET d == Delta(kind, t, x, reserve, total) IN
  /\ trades.others < MaxOthers
  /\ pc \in {"trading", "supply", "priced"}
  /\ Accepted(kind, t, x, d)
  /\ reserve' = ReserveAfter(kind, t, d)
  /\ total' = total + d[Liq]
  /\ trades' = [trades EXCEPT !.others = @ + 1]
  /\ overtaken' = (overtaken \/ pc # "trading")
  /\ UNCHANGED <<balance, assets, flights, pc, quote, supply, diffs, expected, raced, late>>

Finished == Ended /\ UNCHANGED vars

Next ==
  \/ \E ref \in Refs : AddAsset(ref)
  \/ \E slot \in Slots : RefreshBefore(slot) \/ GetUserAssets(slot) \/ RefreshReturns(slot)
  \/ RefreshAfter \/ GetWalletDifferences
  \/ Begin \/ GetAssetSupply \/ Trade
  \/ \E kind \in {"sell", "buy", "mint"}, t \in Pair, x \in Amounts : GetPrice(kind, t, x)
  \/ \E x \in Amounts : GetPrice("burn", First, x)
  \/ \E kind \in {"sell", "mint"}, t \in Pair, x \in OthersAmounts : OthersTrade(kind, t, x)
  \/ Finished

Spec == Init /\ [][Next]_vars

-----------------------------------------------------------------------------
\* The state is type correct: an asset object is in the wallet at most once, no
\* trade overdraws the user or the pool.
TypeOK ==
  /\ reserve \in [Pair -> Nat] /\ total \in Nat
  /\ balance \in [Assets -> Nat]
  /\ \A i \in DOMAIN assets :
       /\ assets[i].ref \in Refs
       /\ assets[i].before >= NoAmount /\ assets[i].after >= NoAmount
       /\ \A j \in 1 .. i - 1 : assets[j].ref # assets[i].ref
  /\ \A s \in Slots : Len(flights[s].values) <= Len(flights[s].currencies)
  /\ pc \in {"setup", "before", "trading", "supply", "priced", "after", "compare",
             "done", "thrown", "failed"}
  /\ expected \in [Assets -> Int]

\* While the pool exists and holds both tokens, a price that nobody has overtaken
\* never favours the user.  The reserves that a swap leaves, with its fees, have
\* at least the product of those it found,
\* and the price of a purchase is positive exactly if the pool has more than is
\* bought.  Liquidity that is burnt as soon as it is minted returns no more than
\* it took, and what is burnt leaves no less to every other share.
PriceFavoursPool ==
  LET r == reserve
      d == quote.delta
      product(q) == q[First] * q[Second]
      after == [a \in Pair |-> r[a] - d[a]] IN
  pc = "priced" /\ ~overtaken /\ total > 0 /\ (\A a \in Pair : r[a] > 0) =>
    CASE quote.kind = "sell" -> product(after) >= product(r) /\ after[Other(quote.t)] >= 0
      [] quote.kind = "buy" ->
           /\ d[quote.t] < 0 <=> quote.x < r[Other(quote.t)]
           /\ d[quote.t] < 0 => product(after) >= product(r)
      [] quote.kind = "mint" ->
           \A a \in Pair : BurnShare(after[a], total + d[Liq], d[Liq]) <= -d[a]
      [] quote.kind = "burn" ->
           \A a \in Pair : after[a] * total >= r[a] * (total - quote.x)

\* What getWalletDifferences reports is the sum of the prices of the trades that
\* the test has made, for every object of an asset it has added, unless others traded
\* between a price and its trade or the test went on beside a refresh; it throws
\* only for an asset added since the last refresh, or if a refresh still runs.
DifferencesAreTheTrades ==
  /\ pc = "done" /\ ~raced /\ ~overtaken =>
       diffs = {<<assets[i].ref, expected[assets[i].ref[1]]>> :
                  i \in {j \in DOMAIN assets : expected[assets[j].ref[1]] # 0}}
  /\ pc = "thrown" => late \/ raced \/ InFlight("forgotten")
=============================================================================
