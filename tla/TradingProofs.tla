---------------------------- MODULE TradingProofs ----------------------------
(***************************************************************************)
(* Proofs about Trading, for pools, funds, amounts and wallets of any size *)
(* and any number of trades: the algebra of the local prices, what trades  *)
(* keep, and what a wallet reports.                                        *)
(***************************************************************************)
EXTENDS Trading, SequenceTheorems, TLAPS

-----------------------------------------------------------------------------
(***************************************************************************)
(* The formulas: what the local prices promise for reserves and amounts of *)
(* any size, without any state.                                            *)
(***************************************************************************)

\* Arithmetic.

\* The quotient of the division: n lies between two multiples of d.
LEMMA DivBounds ==
  ASSUME NEW n \in Int, NEW d \in Int, d > 0
  PROVE  /\ n \div d \in Int
         /\ (n \div d) * d <= n
         /\ n < (n \div d + 1) * d
  OBVIOUS

\* Multiplying by a number that is not negative keeps an order.
LEMMA MulMono ==
  ASSUME NEW a \in Int, NEW b \in Int, NEW c \in Int, a <= b, c >= 0
  PROVE  a * c <= b * c
  OBVIOUS

\* A positive factor of both sides may be dropped.
LEMMA MulCancel ==
  ASSUME NEW a \in Int, NEW b \in Int, NEW c \in Int, c > 0, a * c <= b * c
  PROVE  a <= b
  OBVIOUS

\* The same of a strict order.
LEMMA MulCancelStrict ==
  ASSUME NEW a \in Int, NEW b \in Int, NEW c \in Int, c > 0, a * c < b * c
  PROVE  a < b
  OBVIOUS

\* A quotient is at most what its numerator is a multiple of.
LEMMA DivAtMost ==
  ASSUME NEW n \in Int, NEW d \in Int, d > 0, NEW q \in Int, n <= q * d
  PROVE  n \div d <= q
<1>1. n \div d \in Int /\ (n \div d) * d <= n
  BY DivBounds
<1>2. (n \div d) * d <= q * d
  BY <1>1
<1> QED
  BY <1>1, <1>2, MulCancel

-----------------------------------------------------------------------------
\* prices

\* What a sale pays is not negative and leaves the pool its tokens, and the
\* reserves have at least the product of those before.
LEMMA SellKeepsProduct ==
  ASSUME NEW rin \in Nat, NEW rout \in Nat, NEW x \in Nat, x > 0
  PROVE  /\ SellPrice(rin, rout, x) \in Nat
         /\ SellPrice(rin, rout, x) <= rout
         /\ (rin + x) * (rout - SellPrice(rin, rout, x)) >= rin * rout
<1> DEFINE d == rin * 1000 + x * 997
           n == x * 997 * rout
           p == SellPrice(rin, rout, x)
<1>1. d \in Int /\ d > 0 /\ n \in Nat
  OBVIOUS
<1>2. p = n \div d
  BY DEF SellPrice
<1>3. p \in Nat /\ p * d <= n
  <2>1. p \in Int /\ p * d <= n /\ n < (p + 1) * d
    BY <1>1, <1>2, DivBounds
  <2>2. 0 * d < (p + 1) * d
    BY <2>1, <1>1
  <2> HIDE DEF d, n, p
  <2>3. 0 < p + 1
    BY <2>1, <2>2, <1>1, MulCancelStrict
  <2> QED
    BY <2>1, <2>3
<1>4. p * (rin + x) <= x * rout
  <2>1. p * d = (p * rin) * 1000 + (p * x) * 997
    BY <1>3
  <2>2. n = (x * rout) * 997
    OBVIOUS
  <2>3. p * rin \in Nat /\ p * x \in Nat /\ x * rout \in Nat
    BY <1>3
  <2>4. p * (rin + x) = p * rin + p * x
    BY <1>3
  <2> QED
    BY <1>3, <2>1, <2>2, <2>3, <2>4
<1>5. p <= rout
  <2>1. p * x <= rout * x
    BY <1>3, <1>4
  <2> QED
    BY <1>3, <2>1, MulCancel
<1>6. (rin + x) * (rout - p) = rin * rout + (x * rout - p * (rin + x))
  BY <1>3
<1> QED
  BY <1>3, <1>4, <1>5, <1>6

\* A purchase of less than there is has a positive price, and the reserves have
\* at least the product of those before.
LEMMA BuyKeepsProduct ==
  ASSUME NEW rin \in Nat, NEW rout \in Nat, NEW y \in Nat, y < rout
  PROVE  /\ BuyPrice(rin, rout, y) \in Nat
         /\ BuyPrice(rin, rout, y) > 0
         /\ (rin + BuyPrice(rin, rout, y)) * (rout - y) >= rin * rout
<1> DEFINE d == (rout - y) * 997
           n == rin * y * 1000
           q == n \div d
           p == BuyPrice(rin, rout, y)
<1>1. d \in Int /\ d > 0 /\ n \in Nat
  OBVIOUS
<1>2. p = q + 1
  BY <1>1 DEF BuyPrice, Quotient
<1>3. q \in Nat /\ n < p * d
  <2>1. q \in Int /\ n < (q + 1) * d
    BY <1>1, DivBounds
  <2>2. 0 * d < (q + 1) * d
    BY <2>1, <1>1
  <2>3. p = q + 1
    BY <1>2
  <2> HIDE DEF d, n, q, p
  <2>4. 0 < q + 1
    BY <2>1, <2>2, <1>1, MulCancelStrict
  <2> QED
    BY <2>1, <2>3, <2>4
<1>4. rin * y <= p * (rout - y)
  <2>1. p * d = (p * (rout - y)) * 997
    BY <1>2, <1>3
  <2>2. n = (rin * y) * 1000
    OBVIOUS
  <2>3. rin * y \in Nat /\ p * (rout - y) \in Nat
    BY <1>2, <1>3
  <2> QED
    BY <1>3, <2>1, <2>2, <2>3
<1>5. (rin + p) * (rout - y) = rin * rout + (p * (rout - y) - rin * y)
  BY <1>2, <1>3
<1> QED
  BY <1>2, <1>3, <1>4, <1>5

\* A purchase of more than there is has a price that is not positive: the
\* formula is negative where the chain refuses.
LEMMA BuyBeyondReserve ==
  ASSUME NEW rin \in Nat, NEW rout \in Nat, NEW y \in Nat, rin > 0, y > rout
  PROVE  /\ BuyPrice(rin, rout, y) \in Int
         /\ BuyPrice(rin, rout, y) <= 0
<1> DEFINE d == (y - rout) * 997
           n == rin * y * 1000
           q == n \div d
<1>1. d \in Int /\ d > 0 /\ n \in Nat /\ (rout - y) * 997 = -d
  OBVIOUS
<1>2. BuyPrice(rin, rout, y) = -q + 1
  BY <1>1 DEF BuyPrice, Quotient
<1>3. q \in Int /\ n < (q + 1) * d
  BY <1>1, DivBounds
<1>4. d <= n
  <2>1. rin * y >= y
    BY MulMono
  <2> QED
    BY <2>1
<1>5. 1 * d < (q + 1) * d
  BY <1>1, <1>3, <1>4
<1> HIDE DEF d, n, q
<1>6. 1 < q + 1
  BY <1>1, <1>3, <1>5, MulCancelStrict
<1> QED
  BY <1>2, <1>3, <1>6

\* The price of a sale with fee is at most the price without.
LEMMA FeeCosts ==
  ASSUME NEW rin \in Nat, NEW rout \in Nat, NEW x \in Nat, x > 0
  PROVE  SellPrice(rin, rout, x) <= SellPriceNoFee(rin, rout, x)
<1> DEFINE p == SellPrice(rin, rout, x)
           q == SellPriceNoFee(rin, rout, x)
           n == x * 997 * rout
           d == rin * 1000 + x * 997
           m == x * 1000 * rout
           e == rin * 1000 + x * 1000
<1>1. d \in Int /\ d > 0 /\ n \in Int /\ e \in Int /\ e > 0 /\ m \in Int
  OBVIOUS
<1>2. p \in Int /\ p * d <= n
  BY <1>1, DivBounds DEF SellPrice
<1>3. q \in Int /\ m < (q + 1) * e
  BY <1>1, DivBounds DEF SellPriceNoFee
<1>4. p \in Nat /\ p * x <= x * rout
  <2>1. p \in Nat /\ p <= rout
    BY SellKeepsProduct
  <2> QED
    BY <2>1
<1>5. p * e <= m
  <2>1. p * e = p * d + (p * x) * 3
    BY <1>2
  <2>2. m = n + (x * rout) * 3
    OBVIOUS
  <2>3. p * x \in Int /\ x * rout \in Int
    BY <1>2
  <2> QED
    BY <1>1, <1>2, <1>4, <2>1, <2>2, <2>3
<1>6. p * e < (q + 1) * e
  BY <1>1, <1>2, <1>3, <1>5
<1> HIDE DEF p, q, n, d, m, e
<1>7. p < q + 1
  BY <1>1, <1>2, <1>3, <1>6, MulCancelStrict
<1> QED
  BY <1>2, <1>3, <1>7 DEF p, q

-----------------------------------------------------------------------------
\* liquidity

\* Liquidity takes more than its part of the second token and is at most the
\* part of the first that is given for it.
LEMMA MintBounds ==
  ASSUME NEW r1 \in Nat, NEW r2 \in Nat, NEW issued \in Nat, NEW x \in Nat, r1 > 0
  PROVE  /\ MintSecond(r1, r2, x) \in Nat
         /\ MintSecond(r1, r2, x) * r1 > x * r2
         /\ MintShare(r1, issued, x) \in Nat
         /\ MintShare(r1, issued, x) * r1 <= x * issued
<1>1. \A n \in Nat : n \div r1 \in Nat /\ (n \div r1) * r1 <= n /\ n < (n \div r1 + 1) * r1
  <2> SUFFICES ASSUME NEW n \in Nat
               PROVE  n \div r1 \in Nat /\ (n \div r1) * r1 <= n /\ n < (n \div r1 + 1) * r1
    OBVIOUS
  <2>1. n \div r1 \in Int /\ (n \div r1) * r1 <= n /\ n < (n \div r1 + 1) * r1
    BY DivBounds
  <2>2. 0 * r1 < (n \div r1 + 1) * r1
    BY <2>1
  <2> QED
    BY <2>1, <2>2, MulCancelStrict
<1>2. x * r2 \in Nat /\ x * issued \in Nat
  OBVIOUS
<1> QED
  BY <1>1, <1>2 DEF MintSecond, MintShare

\* Liquidity that is burnt as soon as it is minted returns no more of the first
\* token than it took ...
LEMMA MintThenBurnFirst ==
  ASSUME NEW r1 \in Nat, NEW issued \in Nat, NEW x \in Nat, r1 > 0, issued > 0
  PROVE  LET s == MintShare(r1, issued, x) IN BurnShare(r1 + x, issued + s, s) <= x
<1> DEFINE s == MintShare(r1, issued, x)
<1>1. s \in Nat /\ s * r1 <= x * issued
  BY MintBounds
<1> HIDE DEF s
<1>2. (r1 + x) * s <= x * (issued + s)
  <2>1. (r1 + x) * s = s * r1 + x * s /\ x * (issued + s) = x * issued + x * s
    BY <1>1
  <2> QED
    BY <1>1, <2>1
<1>3. ((r1 + x) * s) \div (issued + s) <= x
  BY <1>1, <1>2, DivAtMost
<1> QED
  BY <1>3 DEF BurnShare, s

\* ... and no more of the second.
LEMMA MintThenBurnSecond ==
  ASSUME NEW r1 \in Nat, NEW r2 \in Nat, NEW issued \in Nat, NEW x \in Nat, r1 > 0, issued > 0
  PROVE  LET s == MintShare(r1, issued, x)
             m == MintSecond(r1, r2, x) IN
         BurnShare(r2 + m, issued + s, s) <= m
<1> DEFINE s == MintShare(r1, issued, x)
           m == MintSecond(r1, r2, x)
<1>1. s \in Nat /\ s * r1 <= x * issued /\ m \in Nat /\ x * r2 < m * r1
  BY MintBounds
<1> HIDE DEF s, m
<1>2. r2 * s <= m * issued
  <2>1. (s * r1) * r2 <= (x * issued) * r2
    BY <1>1, MulMono
  <2>2. (x * r2) * issued <= (m * r1) * issued
    BY <1>1, MulMono
  <2>3. (r2 * s) * r1 <= (m * issued) * r1
    BY <1>1, <2>1, <2>2
  <2> QED
    BY <1>1, <2>3, MulCancel
<1>3. (r2 + m) * s <= m * (issued + s)
  <2>1. (r2 + m) * s = r2 * s + m * s /\ m * (issued + s) = m * issued + m * s
    BY <1>1
  <2> QED
    BY <1>1, <1>2, <2>1
<1>4. ((r2 + m) * s) \div (issued + s) <= m
  BY <1>1, <1>3, DivAtMost
<1> QED
  BY <1>4 DEF BurnShare, s, m

\* What is burnt leaves no less to every other share.
LEMMA BurnLeavesShares ==
  ASSUME NEW r \in Nat, NEW issued \in Nat, NEW l \in Nat, issued > 0
  PROVE  /\ BurnShare(r, issued, l) \in Nat
         /\ (r - BurnShare(r, issued, l)) * issued >= r * (issued - l)
<1> DEFINE p == BurnShare(r, issued, l)
<1>1. r * l \in Nat
  OBVIOUS
<1>2. p \in Int /\ p * issued <= r * l /\ r * l < (p + 1) * issued
  <2>1. p = (r * l) \div issued
    BY DEF BurnShare
  <2> HIDE DEF p
  <2> QED
    BY <1>1, <2>1, DivBounds
<1>3. 0 * issued < (p + 1) * issued
  BY <1>1, <1>2
<1> HIDE DEF p
<1>4. 0 < p + 1
  BY <1>2, <1>3, MulCancelStrict
<1>5. (r - p) * issued = r * issued - p * issued /\ r * (issued - l) = r * issued - r * l
  BY <1>2
<1> QED
  BY <1>1, <1>2, <1>4, <1>5 DEF p
-----------------------------------------------------------------------------
(***************************************************************************)
(* The pool, the user and the wallet: no trade overdraws anybody, and a    *)
(* price that nobody has overtaken never favours the user.                 *)
(***************************************************************************)

Amount == {NoAmount} \cup Nat
AssetObject == [ref : Refs, before : Amount, after : Amount]
Flight == [side : {"none", "before", "after"}, currencies : Seq(Assets), values : Seq(Nat)]
IsTrade(kind, t, x) ==
  kind \in {"sell", "buy", "mint", "burn"} /\ t \in Pair /\ x \in Nat \ {0}

\* The liquidity of the user is part of what there is.
ChainSane ==
  /\ reserve \in [Pair -> Nat] /\ total \in Nat
  /\ balance \in [Assets -> Nat] /\ balance[Liq] <= total
  /\ expected \in [Assets -> Int]

WalletSane ==
  /\ assets \in Seq(AssetObject)
  /\ \A i \in 1 .. Len(assets) : \A j \in 1 .. i - 1 : assets[j].ref # assets[i].ref

FlightsSane ==
  /\ flights \in [Slots -> Flight]
  /\ \A s \in Slots : Len(flights[s].values) <= Len(flights[s].currencies)

\* A quote is a price that the formulas give, by what the chain has unless it
\* was overtaken.
QuoteSane ==
  /\ pc \in {"setup", "before", "trading", "supply", "priced", "after", "compare",
             "done", "thrown", "failed"}
  /\ supply \in Nat
  /\ pc = "supply" /\ ~overtaken => supply = total
  /\ pc = "priced" =>
       /\ IsTrade(quote.kind, quote.t, quote.x)
       /\ quote.delta \in [Assets -> Int]
       /\ ~overtaken =>
            /\ ~PriceThrows(quote.kind, quote.t, quote.x, reserve, total)
            /\ quote.delta = Delta(quote.kind, quote.t, quote.x, reserve, total)

IInv == ChainSane /\ WalletSane /\ FlightsSane /\ QuoteSane

-----------------------------------------------------------------------------
\* what a trade changes

\* The buy price is a whole number unless the whole reserve is bought.
LEMMA BuyPriceInt ==
  ASSUME NEW rin \in Nat, NEW rout \in Nat, NEW y \in Nat, rout # y
  PROVE  BuyPrice(rin, rout, y) \in Int
<1>1. CASE y < rout
  BY <1>1, BuyKeepsProduct
<1>2. CASE y > rout
  <2> DEFINE d == (y - rout) * 997
             n == rin * y * 1000
  <2>1. d \in Int /\ d > 0 /\ n \in Nat /\ (rout - y) * 997 = -d
    BY <1>2
  <2>2. n \div d \in Int
    BY <2>1, DivBounds
  <2> QED
    BY <2>1, <2>2 DEF BuyPrice, Quotient
<1> QED
  BY <1>1, <1>2

\* The changes asset by asset, and that they are whole numbers.
LEMMA DeltaOfSell ==
  ASSUME NEW t \in Pair, NEW x \in Nat \ {0}, NEW r \in [Pair -> Nat], NEW n \in Nat
  PROVE  LET d == Delta("sell", t, x, r, n) IN
         /\ d \in [Assets -> Int]
         /\ d[t] = -x /\ d[Other(t)] = SellPrice(r[t], r[Other(t)], x) /\ d[Liq] = 0
<1>1. Other(t) \in Pair /\ Other(t) # t
  BY DEF Other, Pair, First, Second
<1>2. SellPrice(r[t], r[Other(t)], x) \in Nat
  BY <1>1, SellKeepsProduct
<1>3. Zero \in [Assets -> Int] /\ Zero[Liq] = 0
  BY DEF Zero, Assets
<1> QED
  BY <1>1, <1>2, <1>3 DEF Delta, Pair, Assets, First, Second, Liq

\* A buy: the bought asset goes up by the amount, the sold one down by the price.
LEMMA DeltaOfBuy ==
  ASSUME NEW t \in Pair, NEW x \in Nat \ {0}, NEW r \in [Pair -> Nat], NEW n \in Nat,
         r[Other(t)] # x
  PROVE  LET d == Delta("buy", t, x, r, n) IN
         /\ d \in [Assets -> Int]
         /\ d[t] = -BuyPrice(r[t], r[Other(t)], x) /\ d[Other(t)] = x /\ d[Liq] = 0
<1>1. Other(t) \in Pair /\ Other(t) # t
  BY DEF Other, Pair, First, Second
<1>2. BuyPrice(r[t], r[Other(t)], x) \in Int
  BY <1>1, BuyPriceInt
<1>3. Zero \in [Assets -> Int] /\ Zero[Liq] = 0
  BY DEF Zero, Assets
<1> QED
  BY <1>1, <1>2, <1>3 DEF Delta, Pair, Assets, First, Second, Liq

\* A mint of liquidity: both assets go down, the share goes up.
LEMMA DeltaOfMint ==
  ASSUME NEW t \in Pair, NEW x \in Nat \ {0}, NEW r \in [Pair -> Nat], NEW n \in Nat,
         r[t] # 0
  PROVE  LET d == Delta("mint", t, x, r, n) IN
         /\ d \in [Assets -> Int]
         /\ d[t] = -x /\ d[Other(t)] = -MintSecond(r[t], r[Other(t)], x)
         /\ d[Liq] = MintShare(r[t], n, x) /\ d[Liq] >= 0
<1>1. Other(t) \in Pair /\ Other(t) # t
  BY DEF Other, Pair, First, Second
<1>2. MintSecond(r[t], r[Other(t)], x) \in Nat /\ MintShare(r[t], n, x) \in Nat
  <2>1. r[t] \in Nat /\ r[t] > 0 /\ r[Other(t)] \in Nat
    BY <1>1
  <2> QED
    BY <2>1, MintBounds
<1>3. Zero \in [Assets -> Int] /\ Zero[Liq] = 0
  BY DEF Zero, Assets
<1> QED
  BY <1>1, <1>2, <1>3 DEF Delta, Pair, Assets, First, Second, Liq

\* A burn of liquidity: the share goes down, both assets go up.
LEMMA DeltaOfBurn ==
  ASSUME NEW t \in Pair, NEW x \in Nat \ {0}, NEW r \in [Pair -> Nat], NEW n \in Nat,
         n # 0
  PROVE  LET d == Delta("burn", t, x, r, n) IN
         /\ d \in [Assets -> Int]
         /\ \A a \in Pair : d[a] = BurnShare(r[a], n, x)
         /\ d[Liq] = -x
<1>1. \A a \in Pair : BurnShare(r[a], n, x) \in Nat
  BY BurnLeavesShares
<1> QED
  BY <1>1 DEF Delta, Pair, Assets, First, Second, Liq

\* In one lemma, what the invariant needs of a trade that does not throw.
LEMMA DeltaType ==
  ASSUME NEW kind, NEW t, NEW x, IsTrade(kind, t, x),
         NEW r \in [Pair -> Nat], NEW n \in Nat, ~PriceThrows(kind, t, x, r, n)
  PROVE  /\ Delta(kind, t, x, r, n) \in [Assets -> Int]
         /\ kind # "burn" => Delta(kind, t, x, r, n)[Liq] >= 0
<1> t \in Pair /\ x \in Nat \ {0}
  BY DEF IsTrade
<1>1. CASE kind = "sell"
  BY <1>1, DeltaOfSell
<1>2. CASE kind = "buy"
  BY <1>2, DeltaOfBuy DEF PriceThrows
<1>3. CASE kind = "mint"
  BY <1>3, DeltaOfMint DEF PriceThrows
<1>4. CASE kind = "burn"
  BY <1>4, DeltaOfBurn DEF PriceThrows
<1> QED
  BY <1>1, <1>2, <1>3, <1>4 DEF IsTrade

\* What an accepted trade leaves the pool is a whole number of tokens.
LEMMA ReservesStayWhole ==
  ASSUME ChainSane, NEW kind, NEW t, NEW x, IsTrade(kind, t, x),
         Accepted(kind, t, x, Delta(kind, t, x, reserve, total))
  PROVE  ReserveAfter(kind, t, Delta(kind, t, x, reserve, total)) \in [Pair -> Nat]
<1> DEFINE d == Delta(kind, t, x, reserve, total)
<1>1. d \in [Assets -> Int] /\ t \in Pair
  BY DeltaType DEF ChainSane, Accepted, IsTrade
<1> HIDE DEF d
<1>2. FeesOf(kind, t, d) \in Int
  <2>1. -d[t] \in Int
    BY <1>1 DEF Pair, Assets
  <2>2. \A z \in Int : TreasuryFee(z) \in Int
    BY DivBounds DEF TreasuryFee
  <2> QED
    BY <2>1, <2>2 DEF FeesOf
<1>3. \A a \in Pair : ReserveAfter(kind, t, d)[a] \in Int
  BY <1>1, <1>2 DEF ReserveAfter, ChainSane, Pair, Assets
<1>4. \A a \in Pair : ReserveAfter(kind, t, d)[a] >= 0
  BY DEF Accepted, d
<1> QED
  BY <1>3, <1>4 DEF ReserveAfter, d

-----------------------------------------------------------------------------
\* the invariant

\* The user comes with nothing asked and nothing held in flight.
LEMMA InitInv == Init => IInv
<1> SUFFICES ASSUME Init PROVE IInv
  OBVIOUS
<1> USE TradingAssumption DEF Init
<1>1. ChainSane
  <2>1. reserve \in [Pair -> Nat \ {0}]
    OBVIOUS
  <2>2. total \in Nat
    BY <2>1, DivBounds DEF LiqAssetAmount, Pair
  <2> QED
    BY <2>1, <2>2 DEF ChainSane, Zero, Assets, Liq
<1>2. WalletSane
  BY DEF WalletSane
<1>3. FlightsSane
  BY DEF FlightsSane, Idle, Flight, Slots
<1>4. QuoteSane
  BY DEF QuoteSane
<1> QED
  BY <1>1, <1>2, <1>3, <1>4 DEF IInv

\* What neither the chain nor the price is part of leaves both sane.
LEMMA Frame ==
  ASSUME IInv, UNCHANGED <<chain, expected, supply, quote, total, overtaken>>,
         pc' \in {"setup", "before", "trading", "after", "compare", "done", "thrown", "failed"}
         \/ pc' = pc
  PROVE  ChainSane' /\ QuoteSane'
<1>1. ChainSane'
  BY DEF IInv, ChainSane, chain
<1>2. QuoteSane'
  <2>1. UNCHANGED <<reserve, total, quote, overtaken, supply>>
    BY DEF chain
  <2>2. CASE pc' = pc
    BY <2>1, <2>2 DEF IInv, QuoteSane
  <2>3. CASE pc' # pc
    BY <2>1, <2>3 DEF IInv, QuoteSane
  <2> QED
    BY <2>2, <2>3
<1> QED
  BY <1>1, <1>2

\* An added asset is one of the chain's.
LEMMA AddAssetInv ==
  ASSUME IInv, NEW ref \in Refs, AddAsset(ref)
  PROVE  IInv'
<1>1. ChainSane' /\ QuoteSane'
  BY Frame DEF AddAsset, chain
<1>2. WalletSane'
  <2>1. [ref |-> ref, before |-> NoAmount, after |-> NoAmount] \in AssetObject
    BY DEF AssetObject, Amount
  <2> QED
    BY <2>1 DEF AddAsset, IInv, WalletSane
<1>3. FlightsSane'
  BY DEF AddAsset, IInv, FlightsSane
<1> QED
  BY <1>1, <1>2, <1>3 DEF IInv

\* A refresh that begins remembers the assets of the wallet.
LEMMA RefreshInv ==
  ASSUME IInv, NEW slot \in Slots, NEW side \in {"before", "after"}, RefreshAmounts(slot, side)
  PROVE  FlightsSane'
<1> DEFINE currencies == [i \in DOMAIN assets |-> assets[i].ref[1]]
<1>1. currencies \in Seq(Assets)
  <2>1. assets \in Seq(AssetObject)
    BY DEF IInv, WalletSane
  <2>2. \A i \in DOMAIN assets : assets[i].ref[1] \in Assets
    <3> SUFFICES ASSUME NEW i \in DOMAIN assets PROVE assets[i].ref[1] \in Assets
      OBVIOUS
    <3>1. assets[i] \in AssetObject
      BY <2>1
    <3>2. assets[i].ref \in Assets \X Nat
      BY <3>1, TradingAssumption DEF AssetObject
    <3> QED
      BY <3>2
  <2> QED
    BY <2>1, <2>2
<1>2. [side |-> side, currencies |-> currencies, values |-> <<>>] \in Flight
  BY <1>1 DEF Flight
<1>3. Len(<<>>) <= Len(currencies)
  BY <1>1
<1> HIDE DEF currencies
<1>4. flights' = [flights EXCEPT ![slot] = [side |-> side, currencies |-> currencies, values |-> <<>>]]
  BY DEF RefreshAmounts, currencies
<1> QED
  BY <1>2, <1>3, <1>4 DEF IInv, FlightsSane

\* The awaited refresh of the amounts before.
LEMMA RefreshBeforeInv ==
  ASSUME IInv, NEW slot \in Slots, RefreshBefore(slot)
  PROVE  IInv'
<1>1. ChainSane' /\ QuoteSane'
  BY Frame DEF RefreshBefore, chain
<1>2. FlightsSane'
  BY RefreshInv DEF RefreshBefore
<1>3. WalletSane'
  BY DEF RefreshBefore, IInv, WalletSane
<1> QED
  BY <1>1, <1>2, <1>3 DEF IInv

\* The awaited refresh of the amounts after.
LEMMA RefreshAfterInv ==
  ASSUME IInv, RefreshAfter
  PROVE  IInv'
<1>1. ChainSane' /\ QuoteSane'
  BY Frame DEF RefreshAfter, chain, history
<1>2. FlightsSane'
  BY RefreshInv DEF RefreshAfter, Slots
<1>3. WalletSane'
  BY DEF RefreshAfter, IInv, WalletSane
<1> QED
  BY <1>1, <1>2, <1>3 DEF IInv

\* One balance is read from the chain, which is sane.
LEMMA GetUserAssetsInv ==
  ASSUME IInv, NEW slot \in Slots, GetUserAssets(slot)
  PROVE  IInv'
<1>1. ChainSane' /\ QuoteSane'
  BY Frame DEF GetUserAssets, chain, history
<1>2. FlightsSane'
  <2> DEFINE f == flights[slot]
             v == balance[f.currencies[Len(f.values) + 1]]
  <2>1. f \in Flight /\ Len(f.values) < Len(f.currencies)
    BY DEF GetUserAssets, IInv, FlightsSane
  <2>2. f.values \in Seq(Nat) /\ f.currencies \in Seq(Assets)
    BY <2>1 DEF Flight
  <2>3. Len(f.values) + 1 \in 1 .. Len(f.currencies)
    BY <2>1, <2>2
  <2>4. f.currencies[Len(f.values) + 1] \in Assets
    BY <2>2, <2>3
  <2>5. v \in Nat
    BY <2>4 DEF IInv, ChainSane
  <2>6. flights' = [flights EXCEPT ![slot] = [f EXCEPT !.values = Append(f.values, v)]]
    BY <2>1 DEF GetUserAssets, IInv, FlightsSane, Flight
  <2> HIDE DEF v
  <2>7. Append(f.values, v) \in Seq(Nat) /\ Len(Append(f.values, v)) = Len(f.values) + 1
    BY <2>2, <2>5
  <2>8. [f EXCEPT !.values = Append(f.values, v)] \in Flight
    BY <2>1, <2>7 DEF Flight
  <2> QED
    BY <2>1, <2>2, <2>6, <2>7, <2>8 DEF IInv, FlightsSane, Flight
<1>3. WalletSane'
  BY DEF GetUserAssets, IInv, WalletSane
<1> QED
  BY <1>1, <1>2, <1>3 DEF IInv

\* The answers become the amounts of the wallet.
LEMMA RefreshReturnsInv ==
  ASSUME IInv, NEW slot \in Slots, RefreshReturns(slot)
  PROVE  IInv'
<1>1. ChainSane' /\ QuoteSane'
  BY Frame DEF RefreshReturns, chain, history
<1>2. FlightsSane'
  <2>1. Idle \in Flight /\ Len(Idle.values) <= Len(Idle.currencies)
    BY DEF Idle, Flight
  <2> QED
    BY <2>1 DEF RefreshReturns, IInv, FlightsSane
<1>3. WalletSane'
  <2> DEFINE f == flights[slot]
  <2>1. f.values \in Seq(Nat)
    BY DEF IInv, FlightsSane, Flight
  <2>2. \A i \in DOMAIN assets : Assigned(f, i) \in AssetObject /\ Assigned(f, i).ref = assets[i].ref
    <3> SUFFICES ASSUME NEW i \in DOMAIN assets
                 PROVE  Assigned(f, i) \in AssetObject /\ Assigned(f, i).ref = assets[i].ref
      OBVIOUS
    <3> DEFINE value == IF i <= Len(f.values) THEN f.values[i] ELSE NoAmount
    <3>1. i \in Nat /\ i >= 1 /\ assets[i] \in AssetObject
      BY DEF IInv, WalletSane
    <3>2. value \in Amount
      BY <2>1, <3>1 DEF Amount
    <3> HIDE DEF value
    <3>3. Assigned(f, i) = IF f.side = "before" THEN [assets[i] EXCEPT !.before = value]
                                               ELSE [assets[i] EXCEPT !.after = value]
      BY DEF Assigned, value
    <3> QED
      BY <3>1, <3>2, <3>3 DEF AssetObject
  <2>3. assets' = [i \in DOMAIN assets |-> Assigned(f, i)]
    BY DEF RefreshReturns
  <2>4. assets' \in Seq(AssetObject) /\ Len(assets') = Len(assets)
    BY <2>2, <2>3 DEF IInv, WalletSane
  <2> QED
    BY <2>2, <2>3, <2>4 DEF IInv, WalletSane
<1> QED
  BY <1>1, <1>2, <1>3 DEF IInv

\* The comparison writes the differences only.
LEMMA CompareInv ==
  ASSUME IInv, GetWalletDifferences
  PROVE  IInv'
<1>1. ChainSane' /\ QuoteSane'
  BY Frame DEF GetWalletDifferences, chain, history
<1>2. FlightsSane' /\ WalletSane'
  BY DEF GetWalletDifferences, IInv, FlightsSane, WalletSane
<1> QED
  BY <1>1, <1>2 DEF IInv

\* A quote that begins has read nothing yet.
LEMMA BeginInv ==
  ASSUME IInv, Begin
  PROVE  IInv'
<1>1. ChainSane' /\ QuoteSane'
  BY Frame DEF Begin, chain, history
<1>2. FlightsSane' /\ WalletSane'
  BY DEF Begin, IInv, FlightsSane, WalletSane
<1> QED
  BY <1>1, <1>2 DEF IInv

\* The supply read is that of the chain.
LEMMA GetAssetSupplyInv ==
  ASSUME IInv, GetAssetSupply
  PROVE  IInv'
<1>1. ChainSane' /\ FlightsSane' /\ WalletSane'
  BY DEF GetAssetSupply, chain, history, IInv, ChainSane, FlightsSane, WalletSane
<1>2. QuoteSane'
  BY DEF GetAssetSupply, chain, history, IInv, ChainSane, QuoteSane
<1> QED
  BY <1>1, <1>2 DEF IInv

\* The price is computed from what was read.
LEMMA GetPriceInv ==
  ASSUME IInv, NEW kind, NEW t, NEW x, IsTrade(kind, t, x), GetPrice(kind, t, x)
  PROVE  IInv'
<1>1. ChainSane' /\ FlightsSane' /\ WalletSane'
  BY DEF GetPrice, chain, history, IInv, ChainSane, FlightsSane, WalletSane
<1>2. QuoteSane'
  <2>1. supply \in Nat /\ supply' = supply /\ reserve \in [Pair -> Nat] /\ total \in Nat
    BY DEF GetPrice, IInv, ChainSane, QuoteSane
  <2>2. CASE PriceThrows(kind, t, x, reserve, supply)
    BY <2>1, <2>2 DEF GetPrice, QuoteSane
  <2>3. CASE ~PriceThrows(kind, t, x, reserve, supply)
    <3> DEFINE d == Delta(kind, t, x, reserve, supply)
    <3>1. d \in [Assets -> Int]
      BY <2>1, <2>3, DeltaType
    <3>2. pc' = "priced" /\ quote' = [kind |-> kind, t |-> t, x |-> x, delta |-> d]
      BY <2>3 DEF GetPrice
    <3>3. UNCHANGED <<reserve, total, overtaken>>
      BY DEF GetPrice, chain, history
    <3>4. ASSUME ~overtaken
          PROVE  ~PriceThrows(kind, t, x, reserve, total) /\ d = Delta(kind, t, x, reserve, total)
      <4>1. CASE kind \in {"sell", "buy"}
        BY <2>3, <4>1 DEF PriceThrows, Delta
      <4>2. CASE kind \in {"mint", "burn"}
        <5>1. supply = total
          BY <3>4, <4>2 DEF GetPrice, IInv, QuoteSane
        <5> QED
          BY <5>1, <2>3
      <4> QED
        BY <4>1, <4>2 DEF IsTrade
    <3> HIDE DEF d
    <3>5. /\ quote'.kind = kind /\ quote'.t = t /\ quote'.x = x /\ quote'.delta = d
      BY <3>2
    <3>6. ~overtaken' =>
            /\ ~PriceThrows(kind, t, x, reserve, total)'
            /\ d = Delta(kind, t, x, reserve', total')
      BY <3>3, <3>4 DEF PriceThrows
    <3> QED
      BY <2>1, <3>1, <3>2, <3>3, <3>4, <3>5 DEF QuoteSane, IsTrade
  <2> QED
    BY <2>2, <2>3
<1> QED
  BY <1>1, <1>2 DEF IInv

\* An own trade that the chain accepts overdraws nobody.
LEMMA TradeInv ==
  ASSUME IInv, Trade
  PROVE  IInv'
<1> DEFINE kind == quote.kind
           t == quote.t
           x == quote.x
           d == Delta(kind, t, x, reserve, total)
<1>1. IsTrade(kind, t, x) /\ quote.delta \in [Assets -> Int] /\ supply' = 0
  BY DEF Trade, IInv, QuoteSane
<1>2. FlightsSane' /\ WalletSane'
  BY DEF Trade, IInv, FlightsSane, WalletSane
<1>3. pc' \in {"trading", "failed"}
  BY DEF Trade, AfterRefusal
<1>4. QuoteSane'
  BY <1>1, <1>3 DEF QuoteSane
<1>5. ChainSane'
  <2>1. CASE UNCHANGED <<chain, expected>>
    BY <2>1 DEF IInv, ChainSane, chain
  <2>2. CASE ~UNCHANGED <<chain, expected>>
    <3>1. /\ Accepted(kind, t, x, d)
          /\ \A a \in Assets : balance[a] + d[a] >= 0
          /\ reserve' = ReserveAfter(kind, t, d)
          /\ total' = total + d[Liq]
          /\ balance' = [a \in Assets |-> balance[a] + d[a]]
          /\ expected' = [a \in Assets |-> expected[a] + quote.delta[a]]
      BY <2>2 DEF Trade
    <3>2. d \in [Assets -> Int]
      BY <1>1, <3>1, DeltaType DEF Accepted, IInv, ChainSane
    <3>3. reserve' \in [Pair -> Nat]
      BY <1>1, <3>1, ReservesStayWhole DEF IInv
    <3> HIDE DEF d, kind, t, x
    <3>4. balance' \in [Assets -> Nat]
      BY <3>1, <3>2 DEF IInv, ChainSane
    <3>5. expected' \in [Assets -> Int]
      BY <1>1, <3>1 DEF IInv, ChainSane
    <3>6. Liq \in Assets
      BY DEF Assets
    <3>7. total' \in Nat /\ balance'[Liq] <= total'
      BY <3>1, <3>2, <3>4, <3>6 DEF IInv, ChainSane
    <3> QED
      BY <3>3, <3>4, <3>5, <3>7 DEF ChainSane
  <2> QED
    BY <2>1, <2>2
<1> QED
  BY <1>2, <1>4, <1>5 DEF IInv

\* A trade of others moves the pool and keeps it sane.
LEMMA OthersTradeInv ==
  ASSUME IInv, NEW kind \in {"sell", "mint"}, NEW t \in Pair, NEW x \in OthersAmounts,
         OthersTrade(kind, t, x)
  PROVE  IInv'
<1> DEFINE d == Delta(kind, t, x, reserve, total)
<1>1. IsTrade(kind, t, x)
  BY TradingAssumption DEF IsTrade
<1>2. FlightsSane' /\ WalletSane'
  BY DEF OthersTrade, IInv, FlightsSane, WalletSane
<1>3. ChainSane'
  <2>1. Accepted(kind, t, x, d)
    BY DEF OthersTrade
  <2>2. d \in [Assets -> Int] /\ d[Liq] >= 0
    BY <1>1, <2>1, DeltaType DEF Accepted, IInv, ChainSane
  <2>3. reserve' \in [Pair -> Nat]
    BY <1>1, <2>1, ReservesStayWhole DEF OthersTrade, IInv
  <2>4. total' = total + d[Liq] /\ UNCHANGED <<balance, expected>>
    BY DEF OthersTrade
  <2> HIDE DEF d
  <2> QED
    BY <2>2, <2>3, <2>4 DEF IInv, ChainSane, Assets, Liq
<1>4. QuoteSane'
  <2>1. UNCHANGED <<pc, quote, supply>> /\ (pc # "trading" => overtaken')
    BY DEF OthersTrade
  <2> QED
    BY <2>1 DEF IInv, QuoteSane
<1> QED
  BY <1>2, <1>3, <1>4 DEF IInv

\* Nothing happens.
LEMMA StutterInv ==
  ASSUME IInv, UNCHANGED vars
  PROVE  IInv'
<1>1. ChainSane' /\ QuoteSane'
  BY Frame DEF vars, chain, history
<1>2. FlightsSane' /\ WalletSane'
  BY DEF vars, IInv, FlightsSane, WalletSane
<1> QED
  BY <1>1, <1>2 DEF IInv

\* Every step keeps the invariant: one lemma per action.
LEMMA StepInv == IInv /\ [Next]_vars => IInv'
<1> SUFFICES ASSUME IInv, [Next]_vars PROVE IInv'
  OBVIOUS
<1>1. ASSUME NEW ref \in Refs, AddAsset(ref) PROVE IInv'
  BY <1>1, AddAssetInv
<1>2. ASSUME NEW slot \in Slots, RefreshBefore(slot) \/ GetUserAssets(slot) \/ RefreshReturns(slot)
      PROVE IInv'
  BY <1>2, RefreshBeforeInv, GetUserAssetsInv, RefreshReturnsInv
<1>3. CASE RefreshAfter \/ GetWalletDifferences \/ Begin \/ GetAssetSupply \/ Trade
  BY <1>3, RefreshAfterInv, CompareInv, BeginInv, GetAssetSupplyInv, TradeInv
<1>4. ASSUME NEW kind \in {"sell", "buy", "mint"}, NEW t \in Pair, NEW x \in Amounts, GetPrice(kind, t, x)
      PROVE IInv'
  BY <1>4, GetPriceInv, TradingAssumption DEF IsTrade
<1>5. ASSUME NEW x \in Amounts, GetPrice("burn", First, x)
      PROVE IInv'
  BY <1>5, GetPriceInv, TradingAssumption DEF IsTrade, Pair
<1>6. ASSUME NEW kind \in {"sell", "mint"}, NEW t \in Pair, NEW x \in OthersAmounts, OthersTrade(kind, t, x)
      PROVE IInv'
  BY <1>6, OthersTradeInv
<1>7. CASE Finished \/ UNCHANGED vars
  BY <1>7, StutterInv DEF Finished
<1> QED
  BY <1>1, <1>2, <1>3, <1>4, <1>5, <1>6, <1>7 DEF Next

\* The invariant holds always.
LEMMA InvAlways == Spec => []IInv
  BY InitInv, StepInv, PTL DEF Spec

-----------------------------------------------------------------------------
\* The invariant contains the type invariant.
LEMMA TypeFromInv == IInv => TypeOK
<1> SUFFICES ASSUME IInv PROVE TypeOK
  OBVIOUS
<1>1. \A i \in DOMAIN assets :
       /\ assets[i].ref \in Refs
       /\ assets[i].before >= NoAmount /\ assets[i].after >= NoAmount
       /\ \A j \in 1 .. i - 1 : assets[j].ref # assets[i].ref
  <2> SUFFICES ASSUME NEW i \in DOMAIN assets
               PROVE  /\ assets[i].ref \in Refs
                      /\ assets[i].before >= NoAmount /\ assets[i].after >= NoAmount
                      /\ \A j \in 1 .. i - 1 : assets[j].ref # assets[i].ref
    OBVIOUS
  <2>1. i \in 1 .. Len(assets) /\ assets[i] \in AssetObject
    BY DEF IInv, WalletSane
  <2>2. \A z \in Amount : z >= NoAmount
    BY DEF Amount, NoAmount
  <2> QED
    BY <2>1, <2>2 DEF IInv, WalletSane, AssetObject
<1> QED
  BY <1>1 DEF IInv, ChainSane, FlightsSane, QuoteSane, TypeOK

\* The state is type correct, whatever is in the wallet and however many trades
\* there are: no trade overdraws the user or the pool (User.ts:81-225).
THEOREM TypeCorrect == Spec => []TypeOK
  BY InvAlways, TypeFromInv, PTL

\* The invariant, and the algebra of PoolMathProofs, give the property.
LEMMA FavourFromInv == IInv => PriceFavoursPool
<1> SUFFICES ASSUME IInv, pc = "priced", ~overtaken, total > 0, \A a \in Pair : reserve[a] > 0
             PROVE  PriceFavoursPool
  BY DEF PriceFavoursPool
<1> DEFINE r == reserve
           t == quote.t
           u == Other(quote.t)
           x == quote.x
           d == quote.delta
<1>1. /\ IsTrade(quote.kind, t, x) /\ t \in Pair /\ x \in Nat \ {0}
      /\ ~PriceThrows(quote.kind, t, x, r, total)
      /\ d = Delta(quote.kind, t, x, r, total)
  BY DEF IInv, QuoteSane, IsTrade
<1>2. r \in [Pair -> Nat] /\ total \in Nat /\ r[t] > 0 /\ r[u] > 0 /\ r[t] \in Nat /\ r[u] \in Nat
      /\ u \in Pair /\ u # t /\ u = Other(t)
  BY <1>1 DEF IInv, ChainSane, Other, Pair, First, Second
<1>3. \A q \in [Pair -> Int] : q[First] * q[Second] = q[t] * q[u]
  BY <1>1 DEF Other, Pair, First, Second
<1>4. \A a \in Pair : a = t \/ a = u
  BY <1>1 DEF Other, Pair, First, Second
<1>5. Pair \subseteq Assets
  BY DEF Pair, Assets
<1> DEFINE after == [a \in Pair |-> r[a] - d[a]]
<1>0. PriceFavoursPool <=>
        CASE quote.kind = "sell" -> after[First] * after[Second] >= r[First] * r[Second] /\ after[u] >= 0
          [] quote.kind = "buy" ->
               /\ d[t] < 0 <=> x < r[u]
               /\ d[t] < 0 => after[First] * after[Second] >= r[First] * r[Second]
          [] quote.kind = "mint" ->
               \A a \in Pair : BurnShare(after[a], total + d[Liq], d[Liq]) <= -d[a]
          [] quote.kind = "burn" ->
               \A a \in Pair : after[a] * total >= r[a] * (total - x)
  BY DEF PriceFavoursPool
<1> HIDE DEF r, t, u, x, d
<1>6. CASE quote.kind = "sell"
  <2>1. d \in [Assets -> Int] /\ d[t] = -x /\ d[u] = SellPrice(r[t], r[u], x)
    BY <1>1, <1>2, <1>6, DeltaOfSell
  <2>2. d[u] \in Nat /\ d[u] <= r[u] /\ (r[t] + x) * (r[u] - d[u]) >= r[t] * r[u]
    <3>1. /\ SellPrice(r[t], r[u], x) \in Nat
          /\ SellPrice(r[t], r[u], x) <= r[u]
          /\ (r[t] + x) * (r[u] - SellPrice(r[t], r[u], x)) >= r[t] * r[u]
      <4>1. x \in Nat /\ x > 0 /\ r[t] \in Nat /\ r[u] \in Nat
        BY <1>1, <1>2
      <4> QED
        BY <4>1, SellKeepsProduct
    <3> QED
      BY <2>1, <3>1
  <2>3. after \in [Pair -> Int] /\ after[t] = r[t] + x /\ after[u] = r[u] - d[u]
    BY <1>1, <1>2, <1>5, <2>1
  <2>4. after[u] >= 0 /\ after[First] * after[Second] >= r[First] * r[Second]
    BY <1>2, <1>3, <2>2, <2>3
  <2> QED
    BY <1>0, <1>6, <2>4
<1>7. CASE quote.kind = "buy"
  <2>1. r[u] # x
    BY <1>1, <1>2, <1>7 DEF PriceThrows
  <2>2. d \in [Assets -> Int] /\ d[t] = -BuyPrice(r[t], r[u], x) /\ d[u] = x
    BY <1>1, <1>2, <1>7, <2>1, DeltaOfBuy
  <2>3. ASSUME x < r[u]
        PROVE  d[t] < 0 /\ after[First] * after[Second] >= r[First] * r[Second]
    <3>1. /\ -d[t] \in Nat /\ -d[t] > 0
          /\ (r[t] + -d[t]) * (r[u] - x) >= r[t] * r[u]
      <4>1. /\ BuyPrice(r[t], r[u], x) \in Nat /\ BuyPrice(r[t], r[u], x) > 0
            /\ (r[t] + BuyPrice(r[t], r[u], x)) * (r[u] - x) >= r[t] * r[u]
        BY <1>1, <1>2, <2>3, BuyKeepsProduct
      <4>2. -d[t] = BuyPrice(r[t], r[u], x)
        BY <2>2, <4>1
      <4> QED
        BY <4>1, <4>2
    <3>2. after \in [Pair -> Int] /\ after[t] = r[t] + -d[t] /\ after[u] = r[u] - x
      BY <1>1, <1>2, <1>5, <2>2
    <3> QED
      BY <1>1, <1>2, <1>3, <1>5, <2>2, <3>1, <3>2
  <2>4. ASSUME ~(x < r[u])
        PROVE  ~(d[t] < 0)
    BY <1>1, <1>2, <1>5, <2>1, <2>2, <2>4, BuyBeyondReserve
  <2> QED
    BY <1>0, <1>7, <2>3, <2>4
<1>8. CASE quote.kind = "mint"
  <2>1. /\ d \in [Assets -> Int] /\ d[t] = -x /\ d[u] = -MintSecond(r[t], r[u], x)
        /\ d[Liq] = MintShare(r[t], total, x)
    BY <1>1, <1>2, <1>8, DeltaOfMint
  <2>2. MintSecond(r[t], r[u], x) \in Nat
    BY <1>1, <1>2, MintBounds
  <2>3. after[t] = r[t] + x /\ after[u] = r[u] + MintSecond(r[t], r[u], x)
    BY <1>1, <1>2, <2>1, <2>2
  <2>4. BurnShare(after[t], total + d[Liq], d[Liq]) <= -d[t]
    BY <1>1, <1>2, <2>1, <2>3, MintThenBurnFirst
  <2>5. BurnShare(after[u], total + d[Liq], d[Liq]) <= -d[u]
    BY <1>1, <1>2, <2>1, <2>2, <2>3, MintThenBurnSecond
  <2> QED
    BY <1>0, <1>4, <1>8, <2>4, <2>5
<1>9. CASE quote.kind = "burn"
  <2>1. \A a \in Pair : d[a] = BurnShare(r[a], total, x)
    BY <1>1, <1>2, <1>9, DeltaOfBurn
  <2>2. \A a \in Pair : (r[a] - BurnShare(r[a], total, x)) * total >= r[a] * (total - x)
    BY <1>1, <1>2, BurnLeavesShares
  <2> QED
    BY <1>0, <1>1, <1>2, <1>5, <1>9, <2>1, <2>2
<1> QED
  BY <1>1, <1>6, <1>7, <1>8, <1>9 DEF IsTrade

\* No price that nobody has overtaken favours the user, for reserves and amounts
\* of any size (tx.ts:49-148).
THEOREM PricesFavourPool == Spec => []PriceFavoursPool
  BY InvAlways, FavourFromInv, PTL
-----------------------------------------------------------------------------
(***************************************************************************)
(* The differences that a wallet reports are the prices that were paid.    *)
(* Beside a refresh nothing is traded and no asset is added, or raced is   *)
(* set; so an answer is still right when it is assigned, and belongs to    *)
(* the asset it is assigned to.                                            *)
(***************************************************************************)

AssetOf(i) == assets[i].ref[1]

\* A refresh of the amounts before runs only while nothing has been traded, and
\* the test is where its awaited refresh is.
InPlace ==
  /\ pc \in {"setup", "before"} => \A a \in Assets : expected[a] = 0
  /\ \A s \in Slots : flights[s].side = "before" /\ ~raced => \A a \in Assets : expected[a] = 0
  /\ flights["awaited"] # Idle => pc \in {"before", "after"} /\ flights["awaited"].side = pc
  /\ flights["forgotten"].side # "after"

\* A refresh asks for the assets there are, and has the balances there are.
Answers ==
  ~raced => \A s \in Slots : flights[s] # Idle =>
    /\ Len(flights[s].currencies) = Len(assets)
    /\ \A k \in 1 .. Len(assets) : flights[s].currencies[k] = AssetOf(k)
    /\ \A k \in 1 .. Len(flights[s].values) : flights[s].values[k] = balance[AssetOf(k)]

\* An amount before is the balance without the trades.
Before ==
  ~raced /\ ~overtaken =>
    \A i \in 1 .. Len(assets) :
      assets[i].before # NoAmount => assets[i].before = balance[AssetOf(i)] - expected[AssetOf(i)]

\* When the wallet is compared the amounts after are the balances.
After ==
  pc = "compare" /\ ~raced =>
    \A i \in 1 .. Len(assets) : assets[i].after = balance[AssetOf(i)]

\* An asset that was there for a refresh has its amount.
Known ==
  ~late /\ ~raced /\ (\A s \in Slots : flights[s].side # "before") =>
    \A i \in 1 .. Len(assets) : assets[i].before # NoAmount

WInv == InPlace /\ Answers /\ Before /\ After /\ Known

-----------------------------------------------------------------------------
\* Assets of the wallet are assets of the chain.
LEMMA AssetOfType ==
  ASSUME IInv, NEW i \in 1 .. Len(assets)
  PROVE  AssetOf(i) \in Assets /\ assets[i] \in AssetObject
<1>1. assets[i] \in AssetObject
  BY DEF IInv, WalletSane
<1>2. assets[i].ref \in Assets \X Nat
  BY <1>1, TradingAssumption DEF AssetObject
<1> QED
  BY <1>1, <1>2 DEF AssetOf

\* Steps that touch neither the wallet nor the refreshes nor the balance.
LEMMA Aside ==
  ASSUME IInv, WInv, UNCHANGED <<assets, flights, balance, expected, raced, late>>,
         overtaken => overtaken',
         \/ pc' = pc
         \/ pc \notin {"before", "after"} /\ pc' \notin {"setup", "before", "compare"}
  PROVE  WInv'
<1>1. InPlace'
  BY DEF WInv, InPlace, Idle
<1>2. Answers'
  BY DEF WInv, Answers, AssetOf
<1>3. Before'
  BY DEF WInv, Before, AssetOf
<1>4. After'
  BY DEF WInv, After, AssetOf
<1>5. Known'
  BY DEF WInv, Known
<1> QED
  BY <1>1, <1>2, <1>3, <1>4, <1>5 DEF WInv

\* There is nothing to report before the comparison.
LEMMA NotYet ==
  ASSUME pc \notin {"done", "thrown"}
  PROVE  DifferencesAreTheTrades
  BY DEF DifferencesAreTheTrades

\* The wallet is empty and no refresh runs.
LEMMA WInit == Init => WInv /\ DifferencesAreTheTrades
<1> SUFFICES ASSUME Init PROVE WInv /\ DifferencesAreTheTrades
  OBVIOUS
<1>1. /\ Len(assets) = 0 /\ pc = "setup" /\ \A a \in Assets : expected[a] = 0
      /\ flights["awaited"] = Idle /\ flights["forgotten"] = Idle
      /\ \A s \in Slots : flights[s] = Idle
  BY DEF Init, Slots, Zero
<1>2. InPlace
  BY <1>1 DEF InPlace, Idle
<1>3. Answers /\ Before /\ After /\ Known
  BY <1>1 DEF Answers, Before, After, Known
<1> QED
  BY <1>1, <1>2, <1>3, NotYet DEF WInv

\* A new asset has no amounts yet; it is late, and a refresh that runs is raced.
LEMMA AddAssetW ==
  ASSUME IInv, WInv, NEW ref \in Refs, AddAsset(ref)
  PROVE  WInv' /\ DifferencesAreTheTrades'
<1> DEFINE new == [ref |-> ref, before |-> NoAmount, after |-> NoAmount]
<1>1. /\ pc \in {"setup", "trading"} /\ pc' = pc /\ late' /\ assets' = Append(assets, new)
      /\ UNCHANGED <<flights, balance, expected, overtaken>>
      /\ ~raced' => ~raced /\ flights["forgotten"] = Idle
  BY DEF AddAsset, chain, InFlight
<1>2. /\ Len(assets') = Len(assets) + 1
      /\ \A i \in 1 .. Len(assets) : assets'[i] = assets[i]
      /\ assets'[Len(assets) + 1] = new
  BY <1>1 DEF IInv, WalletSane
<1>3. InPlace'
  BY <1>1 DEF WInv, InPlace, Idle
<1>4. Answers'
  <2>1. flights["awaited"] = Idle
    BY <1>1 DEF WInv, InPlace
  <2> QED
    BY <1>1, <2>1 DEF Answers, Slots, Idle
<1>5. Before'
  <2> SUFFICES ASSUME ~raced', ~overtaken', NEW i \in 1 .. Len(assets'), assets'[i].before # NoAmount
               PROVE  assets'[i].before = (balance[AssetOf(i)] - expected[AssetOf(i)])'
    BY DEF Before
  <2>1. Len(assets) \in Nat
    BY DEF IInv, WalletSane
  <2>2. i \in 1 .. Len(assets) /\ assets'[i] = assets[i]
    BY <1>2, <2>1
  <2> QED
    BY <1>1, <2>2 DEF WInv, Before, AssetOf
<1>6. After' /\ Known'
  BY <1>1 DEF After, Known
<1> QED
  BY <1>1, <1>3, <1>4, <1>5, <1>6, NotYet DEF WInv, DifferencesAreTheTrades

\* A refresh that begins asks for the assets of this moment.
LEMMA BeginsW ==
  ASSUME IInv, WInv, NEW slot \in Slots, NEW side \in {"before", "after"}, RefreshAmounts(slot, side),
         UNCHANGED <<assets, balance, raced>>
  PROVE  /\ Answers'
         /\ flights'[slot].side = side
         /\ \A s \in Slots \ {slot} : flights'[s] = flights[s]
<1> DEFINE f == [side |-> side, currencies |-> [i \in DOMAIN assets |-> assets[i].ref[1]], values |-> <<>>]
<1>1. flights' = [flights EXCEPT ![slot] = f] /\ flights \in [Slots -> Flight]
  BY DEF RefreshAmounts, IInv, FlightsSane
<1>2. flights'[slot] = f /\ \A s \in Slots \ {slot} : flights'[s] = flights[s]
  BY <1>1
<1>3. /\ Len(f.currencies) = Len(assets) /\ Len(f.values) = 0
      /\ \A k \in 1 .. Len(assets) : f.currencies[k] = AssetOf(k)
  BY DEF IInv, WalletSane, AssetOf
<1> HIDE DEF f
<1>4. Answers'
  <2> SUFFICES ASSUME ~raced', NEW s \in Slots, flights'[s] # Idle
               PROVE  /\ Len(flights'[s].currencies) = Len(assets')
                      /\ \A k \in 1 .. Len(assets') : flights'[s].currencies[k] = AssetOf(k)'
                      /\ \A k \in 1 .. Len(flights'[s].values) : flights'[s].values[k] = balance'[AssetOf(k)']
    BY DEF Answers, Idle
  <2>1. CASE s = slot
    BY <1>2, <1>3, <2>1 DEF AssetOf
  <2>2. CASE s # slot
    BY <1>2, <2>2 DEF WInv, Answers, AssetOf
  <2> QED
    BY <2>1, <2>2
<1> QED
  BY <1>2, <1>4 DEF f

\* The awaited refresh before the trades begins.
LEMMA RefreshBeforeW ==
  ASSUME IInv, WInv, NEW slot \in Slots, RefreshBefore(slot)
  PROVE  WInv' /\ DifferencesAreTheTrades'
<1>1. /\ pc = "setup" /\ pc' = (IF slot = "awaited" THEN "before" ELSE pc)
      /\ RefreshAmounts(slot, "before")
      /\ UNCHANGED <<assets, balance, expected, raced, overtaken>>
  BY DEF RefreshBefore, chain
<1>2. /\ Answers'
      /\ flights'[slot].side = "before"
      /\ \A s \in Slots \ {slot} : flights'[s] = flights[s]
  BY <1>1, BeginsW
<1>3. \A a \in Assets : expected[a] = 0
  BY <1>1 DEF WInv, InPlace
<1>4. InPlace'
  BY <1>1, <1>2, <1>3 DEF WInv, InPlace, Slots, Idle
<1>5. Before' /\ After' /\ Known'
  BY <1>1, <1>2 DEF WInv, Before, After, Known, AssetOf
<1> QED
  BY <1>1, <1>2, <1>4, <1>5, NotYet DEF WInv, DifferencesAreTheTrades

\* The awaited refresh after the trades begins.
LEMMA RefreshAfterW ==
  ASSUME IInv, WInv, RefreshAfter
  PROVE  WInv' /\ DifferencesAreTheTrades'
<1>1. /\ pc = "trading" /\ pc' = "after" /\ RefreshAmounts("awaited", "after")
      /\ flights["awaited"] = Idle
      /\ UNCHANGED <<assets, balance, expected, raced, late, overtaken>>
  BY DEF RefreshAfter, RefreshAmounts, InFlight, chain, history
<1>2. /\ Answers'
      /\ flights'["awaited"].side = "after"
      /\ flights'["forgotten"] = flights["forgotten"]
  BY <1>1, BeginsW DEF Slots
<1>3. InPlace'
  BY <1>1, <1>2 DEF WInv, InPlace, Slots, Idle
<1>4. Before' /\ After'
  BY <1>1 DEF WInv, Before, After, AssetOf
<1>5. Known'
  BY <1>1, <1>2 DEF WInv, Known, Slots, Idle
<1> QED
  BY <1>1, <1>2, <1>3, <1>4, <1>5, NotYet DEF WInv, DifferencesAreTheTrades

\* A balance is read: it is that of the asset whose turn it is.
LEMMA GetUserAssetsW ==
  ASSUME IInv, WInv, NEW slot \in Slots, GetUserAssets(slot)
  PROVE  WInv' /\ DifferencesAreTheTrades'
<1> DEFINE f == flights[slot]
           v == balance[f.currencies[Len(f.values) + 1]]
           g == [f EXCEPT !.values = Append(f.values, v)]
<1>1. /\ pc' = pc /\ pc \notin {"done", "thrown"} /\ Len(f.values) < Len(f.currencies)
      /\ UNCHANGED <<assets, balance, expected, raced, late, overtaken>>
  BY DEF GetUserAssets, Ended, chain, history
<1>2. f \in Flight /\ f.values \in Seq(Nat) /\ f.currencies \in Seq(Assets)
  BY DEF IInv, FlightsSane, Flight
<1>3. f # Idle
  BY <1>1 DEF Idle
<1>4. flights' = [flights EXCEPT ![slot] = g] /\ flights \in [Slots -> Flight]
  BY <1>2 DEF GetUserAssets, IInv, FlightsSane, Flight
<1>5. flights'[slot] = g /\ \A s \in Slots \ {slot} : flights'[s] = flights[s]
  BY <1>4
<1>6. g.side = f.side /\ g.currencies = f.currencies /\ g.values = Append(f.values, v)
  BY <1>2 DEF Flight
<1> HIDE DEF g, v
<1>7. InPlace'
  BY <1>1, <1>3, <1>5, <1>6 DEF WInv, InPlace, Slots, Idle
<1>8. Answers'
  <2> SUFFICES ASSUME ~raced', NEW s \in Slots, flights'[s] # Idle
               PROVE  /\ Len(flights'[s].currencies) = Len(assets')
                      /\ \A k \in 1 .. Len(assets') : flights'[s].currencies[k] = AssetOf(k)'
                      /\ \A k \in 1 .. Len(flights'[s].values) : flights'[s].values[k] = balance'[AssetOf(k)']
    BY DEF Answers, Idle
  <2>1. CASE s # slot
    BY <1>1, <1>5, <2>1 DEF WInv, Answers, AssetOf
  <2>2. CASE s = slot
    <3>1. /\ Len(f.currencies) = Len(assets)
          /\ \A k \in 1 .. Len(assets) : f.currencies[k] = AssetOf(k)
          /\ \A k \in 1 .. Len(f.values) : f.values[k] = balance[AssetOf(k)]
      BY <1>1, <1>3 DEF WInv, Answers
    <3>2. Len(f.values) + 1 \in 1 .. Len(assets)
      BY <1>1, <1>2, <3>1
    <3>3. v = balance[AssetOf(Len(f.values) + 1)]
      BY <3>1, <3>2 DEF v
    <3>4. /\ Len(g.values) = Len(f.values) + 1
          /\ \A k \in 1 .. Len(f.values) : g.values[k] = f.values[k]
          /\ g.values[Len(f.values) + 1] = v
      BY <1>2, <1>6
    <3>5. \A k \in 1 .. Len(g.values) : g.values[k] = balance[AssetOf(k)]
      <4> SUFFICES ASSUME NEW k \in 1 .. Len(g.values) PROVE g.values[k] = balance[AssetOf(k)]
        OBVIOUS
      <4>1. Len(f.values) \in Nat
        BY <1>2
      <4>2. k \in 1 .. Len(f.values) \/ k = Len(f.values) + 1
        BY <3>4, <4>1
      <4> QED
        BY <3>1, <3>3, <3>4, <4>2
    <3> QED
      BY <1>1, <1>5, <1>6, <2>2, <3>1, <3>5 DEF AssetOf
  <2> QED
    BY <2>1, <2>2
<1>9. Before' /\ After'
  BY <1>1 DEF WInv, Before, After, AssetOf
<1>10. Known'
  BY <1>1, <1>5, <1>6 DEF WInv, Known
<1> QED
  BY <1>1, <1>7, <1>8, <1>9, <1>10, NotYet DEF WInv, DifferencesAreTheTrades

\* All answers are there and are assigned to the assets they are for.
LEMMA RefreshReturnsW ==
  ASSUME IInv, WInv, NEW slot \in Slots, RefreshReturns(slot)
  PROVE  WInv' /\ DifferencesAreTheTrades'
<1> DEFINE f == flights[slot]
<1>1. /\ pc \notin {"done", "thrown"} /\ f # Idle /\ Len(f.values) = Len(f.currencies)
      /\ assets' = [i \in DOMAIN assets |-> Assigned(f, i)]
      /\ flights' = [flights EXCEPT ![slot] = Idle]
      /\ pc' = (IF slot = "forgotten" THEN pc ELSE IF pc = "before" THEN "setup" ELSE "compare")
      /\ UNCHANGED <<balance, expected, raced, late, overtaken>>
  BY DEF RefreshReturns, Ended, chain, history
<1>2. f \in Flight /\ f.values \in Seq(Nat) /\ f.side \in {"none", "before", "after"}
  BY DEF IInv, FlightsSane, Flight
<1>3. flights'[slot] = Idle /\ \A s \in Slots \ {slot} : flights'[s] = flights[s]
  BY <1>1 DEF IInv, FlightsSane
<1>4. Len(assets') = Len(assets) /\ Len(assets) \in Nat
  BY <1>1 DEF IInv, WalletSane
<1>5. \A i \in 1 .. Len(assets) : assets'[i] = Assigned(f, i)
  BY <1>1 DEF IInv, WalletSane
<1>6. \A i \in 1 .. Len(assets) :
        /\ assets'[i].ref = assets[i].ref
        /\ i <= Len(f.values) /\ f.side = "before" =>
             assets'[i].before = f.values[i] /\ assets'[i].after = assets[i].after
        /\ i <= Len(f.values) /\ f.side # "before" =>
             assets'[i].after = f.values[i] /\ assets'[i].before = assets[i].before
  <2> SUFFICES ASSUME NEW i \in 1 .. Len(assets)
               PROVE  /\ assets'[i].ref = assets[i].ref
                      /\ i <= Len(f.values) /\ f.side = "before" =>
                           assets'[i].before = f.values[i] /\ assets'[i].after = assets[i].after
                      /\ i <= Len(f.values) /\ f.side # "before" =>
                           assets'[i].after = f.values[i] /\ assets'[i].before = assets[i].before
    OBVIOUS
  <2>1. assets[i] \in AssetObject
    BY AssetOfType
  <2> QED
    BY <1>5, <2>1 DEF Assigned, AssetObject
<1>7. \A i \in 1 .. Len(assets) : AssetOf(i)' = AssetOf(i)
  BY <1>6 DEF AssetOf
<1>8. ASSUME ~raced
      PROVE  /\ Len(f.values) = Len(assets)
             /\ \A i \in 1 .. Len(assets) : f.values[i] = balance[AssetOf(i)] /\ f.values[i] \in Nat
  BY <1>1, <1>2, <1>8 DEF WInv, Answers
<1>9. Idle.side = "none"
  BY DEF Idle
<1>10. slot = "awaited" => pc \in {"before", "after"} /\ f.side = pc
  BY <1>1 DEF WInv, InPlace
<1>11. slot = "forgotten" => f.side # "after"
  BY DEF WInv, InPlace
<1>12. slot = "awaited" \/ slot = "forgotten"
  BY DEF Slots
<1> HIDE DEF f
<1>13. InPlace'
  <2>1. flights'["awaited"] # Idle => slot = "forgotten" /\ flights'["awaited"] = flights["awaited"]
    BY <1>3, <1>12 DEF Slots
  <2>2. flights'["forgotten"].side # "after"
    BY <1>3, <1>9, <1>12 DEF WInv, InPlace, Slots
  <2>3. \A s \in Slots : flights'[s].side = "before" => flights'[s] = flights[s]
    BY <1>3, <1>9
  <2>4. pc' \in {"setup", "before"} => pc \in {"setup", "before"}
    BY <1>1, <1>12
  <2>5. Idle' = Idle
    BY DEF Idle
  <2> QED
    BY <1>1, <2>1, <2>2, <2>3, <2>4, <2>5 DEF WInv, InPlace
<1>14. Answers'
  <2> SUFFICES ASSUME ~raced, NEW s \in Slots, flights'[s] # Idle
               PROVE  /\ Len(flights'[s].currencies) = Len(assets)
                      /\ \A k \in 1 .. Len(assets) : flights'[s].currencies[k] = AssetOf(k)'
                      /\ \A k \in 1 .. Len(flights'[s].values) : flights'[s].values[k] = balance[AssetOf(k)']
    BY <1>1, <1>4 DEF Answers, Idle
  <2>1. flights'[s] = flights[s] /\ flights[s] # Idle
    BY <1>3
  <2>2. /\ Len(flights[s].currencies) = Len(assets)
        /\ \A k \in 1 .. Len(assets) : flights[s].currencies[k] = AssetOf(k)
        /\ \A k \in 1 .. Len(flights[s].values) : flights[s].values[k] = balance[AssetOf(k)]
    BY <2>1 DEF WInv, Answers
  <2>3. 1 .. Len(flights[s].values) \subseteq 1 .. Len(assets)
    <3>1. Len(flights[s].values) <= Len(flights[s].currencies)
      BY DEF IInv, FlightsSane
    <3>2. Len(flights[s].values) \in Nat
      BY DEF IInv, FlightsSane, Flight
    <3> QED
      BY <1>4, <2>2, <3>1, <3>2
  <2> QED
    BY <1>7, <2>1, <2>2, <2>3
<1>15. Before'
  <2> SUFFICES ASSUME ~raced, ~overtaken, NEW i \in 1 .. Len(assets), assets'[i].before # NoAmount
               PROVE  assets'[i].before = balance[AssetOf(i)] - expected[AssetOf(i)]
    BY <1>1, <1>4, <1>7 DEF Before, NoAmount
  <2>1. AssetOf(i) \in Assets
    BY AssetOfType
  <2>2. balance[AssetOf(i)] \in Nat
    BY <2>1 DEF IInv, ChainSane
  <2>3. CASE f.side = "before"
    <3>1. expected[AssetOf(i)] = 0
      BY <2>1, <2>3 DEF WInv, InPlace, f
    <3> QED
      BY <1>6, <1>8, <2>2, <2>3, <3>1
  <2>4. CASE f.side # "before"
    BY <1>6, <1>8, <2>4 DEF WInv, Before
  <2> QED
    BY <2>3, <2>4
<1>16. After'
  <2> SUFFICES ASSUME pc' = "compare", ~raced, NEW i \in 1 .. Len(assets)
               PROVE  assets'[i].after = balance[AssetOf(i)]
    BY <1>1, <1>4, <1>7 DEF After
  <2>1. CASE slot = "awaited"
    <3>1. f.side # "before"
      BY <1>1, <1>10, <2>1
    <3> QED
      BY <1>6, <1>8, <3>1
  <2>2. CASE slot = "forgotten"
    <3>1. pc = "compare" /\ (f.side = "before" \/ f.side = "none")
      BY <1>1, <1>2, <1>11, <2>2
    <3> QED
      BY <1>6, <1>8, <3>1 DEF WInv, After
  <2> QED
    BY <1>12, <2>1, <2>2
<1>17. Known'
  <2> SUFFICES ASSUME ~late, ~raced, \A s \in Slots : flights'[s].side # "before",
                      NEW i \in 1 .. Len(assets)
               PROVE  assets'[i].before # NoAmount
    BY <1>1, <1>4 DEF Known, NoAmount
  <2>1. CASE f.side = "before"
    BY <1>6, <1>8, <2>1 DEF NoAmount
  <2>2. CASE f.side # "before"
    <3>1. \A s \in Slots : flights[s].side # "before"
      BY <1>3, <2>2 DEF f
    <3> QED
      BY <1>6, <1>8, <2>2, <3>1 DEF WInv, Known
  <2> QED
    BY <2>1, <2>2
<1> QED
  BY <1>1, <1>13, <1>14, <1>15, <1>16, <1>17 DEF WInv, DifferencesAreTheTrades

\* The comparison: after minus before is what the trades were expected to make.
LEMMA CompareW ==
  ASSUME IInv, WInv, GetWalletDifferences
  PROVE  WInv' /\ DifferencesAreTheTrades'
<1>1. /\ pc = "compare" /\ pc' \in {"thrown", "done"}
      /\ UNCHANGED <<assets, flights, balance, expected, raced, late, overtaken>>
  BY DEF GetWalletDifferences, chain, history
<1>2. WInv'
  <2>1. overtaken' = overtaken
    BY <1>1
  <2>2. InPlace'
    BY <1>1 DEF WInv, InPlace, Idle
  <2>3. Answers' /\ Before' /\ After' /\ Known'
    BY <1>1 DEF WInv, Answers, Before, After, Known, AssetOf, Idle
  <2> QED
    BY <2>2, <2>3 DEF WInv
<1>3. \A i \in 1 .. Len(assets) : AssetOf(i) \in Assets /\ balance[AssetOf(i)] \in Nat /\ expected[AssetOf(i)] \in Int
  BY AssetOfType DEF IInv, ChainSane
<1>4. DOMAIN assets = 1 .. Len(assets)
  BY DEF IInv, WalletSane
<1>5. ASSUME pc' = "done", ~raced, ~overtaken
      PROVE  diffs' = {<<assets[i].ref, expected[AssetOf(i)]>> :
                         i \in {j \in DOMAIN assets : expected[AssetOf(j)] # 0}}
  <2>1. /\ \A i \in DOMAIN assets : assets[i].before # NoAmount
        /\ diffs' = {<<assets[i].ref, assets[i].after - assets[i].before>> :
                       i \in {j \in DOMAIN assets : assets[j].after # assets[j].before}}
    BY <1>5 DEF GetWalletDifferences
  <2>2. \A i \in DOMAIN assets :
          /\ assets[i].after = balance[AssetOf(i)]
          /\ assets[i].before = balance[AssetOf(i)] - expected[AssetOf(i)]
    BY <1>1, <1>4, <1>5, <2>1 DEF WInv, Before, After
  <2>3. \A i \in DOMAIN assets :
          /\ assets[i].after - assets[i].before = expected[AssetOf(i)]
          /\ assets[i].after # assets[i].before <=> expected[AssetOf(i)] # 0
    BY <1>3, <1>4, <2>2
  <2> QED
    BY <2>1, <2>3
<1>6. ASSUME pc' = "thrown", ~late, ~raced, flights["forgotten"] = Idle
      PROVE  FALSE
  <2>1. PICK i \in 1 .. Len(assets) : NoAmount \in {assets[i].before, assets[i].after}
    BY <1>4, <1>6 DEF GetWalletDifferences
  <2>2. assets[i].after # NoAmount
    BY <1>1, <1>3, <1>6 DEF WInv, After, NoAmount
  <2>3. flights["awaited"] = Idle
    BY <1>1 DEF WInv, InPlace
  <2>4. \A s \in Slots : flights[s].side # "before"
    BY <1>6, <2>3 DEF Slots, Idle
  <2>5. assets[i].before # NoAmount
    BY <1>6, <2>4 DEF WInv, Known
  <2> QED
    BY <2>1, <2>2, <2>5
<1>7. DifferencesAreTheTrades'
  <2>1. (pc = "done" /\ ~raced /\ ~overtaken =>
           diffs = {<<assets[i].ref, expected[AssetOf(i)]>> :
                      i \in {j \in DOMAIN assets : expected[AssetOf(j)] # 0}})'
    BY <1>1, <1>5 DEF AssetOf
  <2>2. (pc = "thrown" => late \/ raced \/ InFlight("forgotten"))'
    BY <1>1, <1>6 DEF InFlight, Idle
  <2> QED
    BY <2>1, <2>2 DEF DifferencesAreTheTrades, AssetOf
<1> QED
  BY <1>2, <1>7

\* A trade moves the balance by its price, if nobody has overtaken it.
LEMMA TradeW ==
  ASSUME IInv, WInv, Trade
  PROVE  WInv' /\ DifferencesAreTheTrades'
<1>1. /\ pc = "priced" /\ pc' \in {"trading", "failed"}
      /\ UNCHANGED <<assets, flights, late, overtaken>>
  BY DEF Trade, AfterRefusal
<1>2. CASE UNCHANGED <<balance, expected, raced>>
  <2>1. InPlace'
    BY <1>1, <1>2 DEF WInv, InPlace, Idle
  <2>2. Answers' /\ Before' /\ After' /\ Known'
    BY <1>1, <1>2 DEF WInv, Answers, Before, After, Known, AssetOf, Idle
  <2> QED
    BY <1>1, <2>1, <2>2, NotYet DEF WInv, DifferencesAreTheTrades
<1>3. CASE ~UNCHANGED <<balance, expected, raced>>
  <2> DEFINE d == Delta(quote.kind, quote.t, quote.x, reserve, total)
  <2>1. /\ balance' = [a \in Assets |-> balance[a] + d[a]]
        /\ expected' = [a \in Assets |-> expected[a] + quote.delta[a]]
        /\ raced' = (raced \/ flights["forgotten"] # Idle)
    BY <1>3 DEF Trade, InFlight, chain
  <2>2. quote.delta \in [Assets -> Int] /\ (~overtaken => quote.delta = d)
    BY <1>1 DEF IInv, QuoteSane
  <2> HIDE DEF d
  <2>3. flights["awaited"] = Idle
    BY <1>1 DEF WInv, InPlace
  <2>4. ~raced' => ~raced /\ \A s \in Slots : flights[s] = Idle
    BY <2>1, <2>3 DEF Slots
  <2>5. Idle.side = "none" /\ Idle' = Idle
    BY DEF Idle
  <2>6. InPlace'
    BY <1>1, <2>3, <2>4, <2>5 DEF WInv, InPlace
  <2>7. Answers' /\ After'
    BY <1>1, <2>4, <2>5 DEF Answers, After
  <2>8. Known'
    BY <1>1, <2>4 DEF WInv, Known
  <2>9. Before'
    <3> SUFFICES ASSUME ~raced', ~overtaken, NEW i \in 1 .. Len(assets), assets[i].before # NoAmount
                 PROVE  assets[i].before = balance'[AssetOf(i)] - expected'[AssetOf(i)]
      BY <1>1 DEF Before, AssetOf, NoAmount
    <3>1. AssetOf(i) \in Assets
      BY AssetOfType
    <3>2. balance[AssetOf(i)] \in Nat /\ expected[AssetOf(i)] \in Int /\ quote.delta[AssetOf(i)] \in Int
      BY <2>2, <3>1 DEF IInv, ChainSane
    <3>3. /\ balance'[AssetOf(i)] = balance[AssetOf(i)] + quote.delta[AssetOf(i)]
          /\ expected'[AssetOf(i)] = expected[AssetOf(i)] + quote.delta[AssetOf(i)]
      BY <2>1, <2>2, <3>1
    <3>4. assets[i].before = balance[AssetOf(i)] - expected[AssetOf(i)]
      BY <2>4 DEF WInv, Before
    <3> QED
      BY <3>2, <3>3, <3>4
  <2> QED
    BY <1>1, <2>6, <2>7, <2>8, <2>9, NotYet DEF WInv, DifferencesAreTheTrades
<1> QED
  BY <1>2, <1>3

\* Prices, the trades of others and waiting leave the wallet alone.
LEMMA OtherStepsW ==
  ASSUME IInv, WInv,
         \/ Begin \/ GetAssetSupply
         \/ \E kind, t, x : GetPrice(kind, t, x) \/ OthersTrade(kind, t, x)
  PROVE  WInv' /\ DifferencesAreTheTrades'
<1>1. CASE Begin \/ GetAssetSupply
  <2>1. /\ UNCHANGED <<assets, flights, balance, expected, raced, late, overtaken>>
        /\ pc \notin {"before", "after"} /\ pc' \in {"trading", "supply"}
    BY <1>1 DEF Begin, GetAssetSupply, chain, history
  <2> QED
    BY <2>1, Aside, NotYet DEF DifferencesAreTheTrades
<1>2. ASSUME NEW kind, NEW t, NEW x, GetPrice(kind, t, x)
      PROVE  WInv' /\ DifferencesAreTheTrades'
  <2>1. /\ UNCHANGED <<assets, flights, balance, expected, raced, late, overtaken>>
        /\ pc \notin {"before", "after"} /\ pc' \in {"failed", "priced"}
    BY <1>2 DEF GetPrice, chain, history
  <2> QED
    BY <2>1, Aside DEF DifferencesAreTheTrades
<1>3. ASSUME NEW kind, NEW t, NEW x, OthersTrade(kind, t, x)
      PROVE  WInv' /\ DifferencesAreTheTrades'
  <2>1. /\ UNCHANGED <<pc, assets, flights, balance, expected, raced, late>>
        /\ (overtaken => overtaken') /\ pc \in {"trading", "supply", "priced"}
    BY <1>3 DEF OthersTrade
  <2> QED
    BY <2>1, Aside DEF DifferencesAreTheTrades
<1> QED
  BY <1>1, <1>2, <1>3

\* Nothing happens.
LEMMA StutterW ==
  ASSUME IInv, WInv, DifferencesAreTheTrades, UNCHANGED vars
  PROVE  WInv' /\ DifferencesAreTheTrades'
<1>1. UNCHANGED <<pc, assets, flights, balance, expected, raced, late, overtaken, diffs>>
  BY DEF vars, chain, history
<1>2. WInv'
  BY <1>1, Aside
<1>3. DifferencesAreTheTrades'
  BY <1>1 DEF DifferencesAreTheTrades, InFlight, Idle
<1> QED
  BY <1>2, <1>3

\* Every step keeps the invariant and the property.
LEMMA WStep == IInv /\ WInv /\ DifferencesAreTheTrades /\ [Next]_vars => WInv' /\ DifferencesAreTheTrades'
<1> SUFFICES ASSUME IInv, WInv, DifferencesAreTheTrades, [Next]_vars
             PROVE  WInv' /\ DifferencesAreTheTrades'
  OBVIOUS
<1>1. ASSUME NEW ref \in Refs, AddAsset(ref) PROVE WInv' /\ DifferencesAreTheTrades'
  BY <1>1, AddAssetW
<1>2. ASSUME NEW slot \in Slots, RefreshBefore(slot) \/ GetUserAssets(slot) \/ RefreshReturns(slot)
      PROVE  WInv' /\ DifferencesAreTheTrades'
  BY <1>2, RefreshBeforeW, GetUserAssetsW, RefreshReturnsW
<1>3. CASE RefreshAfter \/ GetWalletDifferences \/ Trade
  BY <1>3, RefreshAfterW, CompareW, TradeW
<1>4. CASE Begin \/ GetAssetSupply \/ \E kind, t, x : GetPrice(kind, t, x) \/ OthersTrade(kind, t, x)
  BY <1>4, OtherStepsW
<1>5. CASE Finished \/ UNCHANGED vars
  BY <1>5, StutterW DEF Finished
<1> QED
  BY <1>1, <1>2, <1>3, <1>4, <1>5 DEF Next

\* The differences that getWalletDifferences reports are the sum of the prices,
\* for every asset object of a wallet of any size and after any number of
\* trades, unless the test was overtaken or did not wait; and it throws only for
\* an asset that no awaited refresh has seen (User.ts:81-147).
THEOREM WalletReportsTrades == Spec => []DifferencesAreTheTrades
<1>1. Init => WInv /\ DifferencesAreTheTrades
  BY WInit
<1>2. IInv /\ WInv /\ DifferencesAreTheTrades /\ [Next]_vars => WInv' /\ DifferencesAreTheTrades'
  BY WStep
<1> QED
  BY <1>1, <1>2, InvAlways, PTL DEF Spec
=============================================================================
