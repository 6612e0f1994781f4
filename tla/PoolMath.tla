------------------------------ MODULE PoolMath ------------------------------
(***************************************************************************)
(* The prices that the tests compute beside the node, of tx.ts and         *)
(* utils.ts, on whole numbers without a limit, as BN has them.  rin and    *)
(* rout are the reserves of the token that is sold and that is bought.     *)
(* A quotient by zero throws: its operator has no meaning there.           *)
(***************************************************************************)
EXTENDS Integers

\* calculate_sell_price_local
SellPrice(rin, rout, x) == (x * 997 * rout) \div (rin * 1000 + x * 997)

\* calculate_sell_price_local_no_fee
SellPriceNoFee(rin, rout, x) == (x * 1000 * rout) \div (rin * 1000 + x * 1000)

\* BN's div truncates towards zero
Quotient(n, d) == IF d > 0 THEN n \div d ELSE -(n \div (-d))

\* mutant: the quotient is not rounded up
BuyPriceRoundedDown(rin, rout, y) == Quotient(rin * y * 1000, (rout - y) * 997)

\* calculate_buy_price_local
BuyPrice(rin, rout, y) == Quotient(rin * y * 1000, (rout - y) * 997) + 1

\* calculate_buy_price_local_no_fee
BuyPriceNoFee(rin, rout, y) == Quotient(rin * y * 1000, (rout - y) * 1000) + 1

\* calcuate_mint_liquidity_price_local: what it takes of the second token ...
MintSecond(r1, r2, x) == (x * r2) \div r1 + 1

\* ... and the liquidity that it mints
MintShare(r1, total, x) == (x * total) \div r1

\* calcuate_burn_liquidity_price_local, of one of the two tokens
BurnShare(r, total, l) == (r * l) \div total

\* calculateLiqAssetAmount
LiqAssetAmount(a, b) == (a + b) \div 2

\* calculateFees: treasury and treasuryBurn are alike
TreasuryFee(x) == (x * 5) \div 10000 + 1
=============================================================================
