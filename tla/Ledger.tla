------------------------------- MODULE Ledger -------------------------------
(***************************************************************************)
(* The part of the chain that the set-ups of the tests write to, as a      *)
(* record and the calls that change it: tokens, pools, promoted pools and  *)
(* their rewards, vesting, staking bonds, the fee lock and the council.    *)
(* The pallets are external: a call is modelled by what the set-ups expect *)
(* of it.  Amounts are small numbers in the order of the real ones.        *)
(*                                                                         *)
(* A call that is wrapped in sudo.sudo or sudo.sudoAs may fail and the     *)
(* batch goes on as if it had not; a bare call that fails stops the batch. *)
(***************************************************************************)
EXTENDS Integers, Sequences, SequencesExt, FiniteSetsExt

Native == 0    \* MGA_ASSET_ID
NoPool == -1   \* what getLiquidityAssetId returns when there is none

MinBond == 4   \* parachainStaking.minCandidateStk, minDelegation

\* sparse functions to the naturals
Held(f, k) == IF k \in DOMAIN f THEN f[k] ELSE 0
Plus(f, k, n) == [x \in DOMAIN f \cup {k} |-> IF x = k THEN Held(f, k) + n ELSE f[x]]

\* the amounts that f holds under the keys in K, coin by coin
Coins(f, K) == UNION {{k} \X (1..f[k]) : k \in K}

PoolsOf(ch, a, b) == {l \in DOMAIN ch.pools : DOMAIN ch.pools[l].res = {a, b}}
LiqId(ch, a, b) == IF PoolsOf(ch, a, b) = {} THEN NoPool
                   ELSE CHOOSE l \in PoolsOf(ch, a, b) : TRUE
OtherToken(ch, l) == CHOOSE t \in DOMAIN ch.pools[l].res : t # Native

\* what the second token of a pool costs a provider of n of the first, and the
\* liquidity he gets; what the chain asks for n native tokens
Second(p, a, b, n) == (n * p.res[b]) \div p.res[a] + 1
Minted(p, a, n) == (n * p.total) \div p.res[a]
BuyPrice(p, t, n) == IF n >= p.res[Native] THEN 0
                     ELSE (p.res[t] * n * 1000) \div ((p.res[Native] - n) * 997) + 1

\* the value in native tokens of n liquidity tokens
Valued(ch, l, n) == IF l \notin DOMAIN ch.pools THEN n
                    ELSE (n * ch.pools[l].res[Native]) \div ch.pools[l].total

CanEarn(ch, u, l) == /\ {"tge", "issuance"} \subseteq ch.done /\ l \in ch.promoted
                     /\ Held(ch.active, <<u, l>>) > 0
CanEarn3(ch, u, l, t) == <<l, t>> \in ch.schedules /\ Held(ch.active3, <<u, l, t>>) > 0

\* reserved for something else than native rewards, which burning does not undo
Locked(ch, u, l) ==
  Held(ch.bonded, <<u, l>>) + Held(ch.unspent, <<u, l>>)
  + Cardinality(Coins(ch.active3, {k \in DOMAIN ch.active3 : k[1] = u /\ k[2] = l}))
Burnable(ch, u, l) == Held(ch.free, <<u, l>>) + Held(ch.active, <<u, l>>)
IsBonded(ch, u) == \E k \in DOMAIN ch.bonded : k[1] = u

-----------------------------------------------------------------------------
\* Calls.

Tge == [op |-> "tge"]
Issuance == [op |-> "issuance"]
Mint(t, u, n) == [op |-> "mint", t |-> t, u |-> u, n |-> n]
Create(u, n) == [op |-> "create", u |-> u, n |-> n]
CreatePool(u, a, n, b, m) == [op |-> "createPool", u |-> u, a |-> a, n |-> n, b |-> b, m |-> m]
MintLiquidity(u, a, b, n, max) == [op |-> "mintLiquidity", u |-> u, a |-> a, b |-> b, n |-> n, max |-> max]
BurnLiquidity(u, l, n) == [op |-> "burnLiquidity", u |-> u, l |-> l, n |-> n]
Promote(l) == [op |-> "promote", l |-> l]
Activate(u, l, n) == [op |-> "activate", u |-> u, l |-> l, n |-> n]
RewardPool(u, a, b, t, n) == [op |-> "rewardPool", u |-> u, a |-> a, b |-> b, t |-> t, n |-> n]
Activate3(u, l, n, t) == [op |-> "activate3", u |-> u, l |-> l, n |-> n, t |-> t]
Vest(from, u, n) == [op |-> "vest", from |-> from, u |-> u, n |-> n]
MintVested(u, b, n, max) == [op |-> "mintVested", u |-> u, b |-> b, n |-> n, max |-> max]
ReserveVested(u, l) == [op |-> "reserveVested", u |-> u, l |-> l]
AddStaking(l) == [op |-> "addStaking", l |-> l]
\* joinCandidates or delegate, with tokens that are free or activated
Bond(u, l, n, from) == [op |-> "bond", u |-> u, l |-> l, n |-> n, from |-> from]
SetFee(fee) == [op |-> "setFee", fee |-> fee]
SetMembers(S) == [op |-> "setMembers", members |-> S]
Switch(on) == [op |-> "switch", on |-> on]   \* of the maintenance mode
Propose(u, h, n) == [op |-> "propose", u |-> u, h |-> h, threshold |-> n]
Vote(u, h) == [op |-> "vote", u |-> u, h |-> h]
Close(h) == [op |-> "close", h |-> h]
Veto(h) == [op |-> "veto", h |-> h]

Has(ch, u, t, n) == Held(ch.free, <<u, t>>) >= n

\* a provider has both tokens, and the second costs no more than he allows
Provides(ch, u, a, b, n, max) ==
  \E l \in PoolsOf(ch, a, b) : LET second == Second(ch.pools[l], a, b, n) IN
    n > 0 /\ second <= max /\ Has(ch, u, b, second)

Fits(ch, x) ==
  CASE x.op \in {"tge", "issuance"} -> x.op \notin ch.done
    [] x.op = "mint"          -> x.t \in 0..(ch.next - 1)
    [] x.op = "createPool"    -> /\ x.a # x.b /\ x.n > 0 /\ x.m > 0
                                 /\ PoolsOf(ch, x.a, x.b) = {}
                                 /\ Has(ch, x.u, x.a, x.n) /\ Has(ch, x.u, x.b, x.m)
    [] x.op = "mintLiquidity" -> /\ Provides(ch, x.u, x.a, x.b, x.n, x.max)
                                 /\ Has(ch, x.u, x.a, x.n)
    [] x.op = "burnLiquidity" -> /\ x.l \in DOMAIN ch.pools /\ x.n > 0
                                 /\ Burnable(ch, x.u, x.l) >= x.n
    [] x.op = "activate"      -> x.l \in ch.promoted /\ x.n > 0 /\ Has(ch, x.u, x.l, x.n)
    [] x.op = "rewardPool"    -> PoolsOf(ch, x.a, x.b) # {} /\ Has(ch, x.u, x.t, x.n)
    [] x.op = "activate3"     -> <<x.l, x.t>> \in ch.schedules /\ Has(ch, x.u, x.l, x.n)
    [] x.op = "vest"          -> Has(ch, x.from, Native, x.n)
    [] x.op = "mintVested"    -> /\ Provides(ch, x.u, Native, x.b, x.n, x.max)
                                 /\ Held(ch.vesting, <<x.u, Native>>) >= x.n
    [] x.op = "reserveVested" -> Held(ch.vesting, <<x.u, x.l>>) > 0
    [] x.op = "bond"          -> /\ ~ IsBonded(ch, x.u) /\ x.l \in ch.stakable
                                 /\ Held(ch[x.from], <<x.u, x.l>>) >= x.n
                                 /\ Valued(ch, x.l, x.n) >= MinBond
    [] x.op = "switch"        -> ch.maintenance # x.on
    [] x.op = "propose"       -> x.u \in ch.members /\ x.h \notin DOMAIN ch.ayes
    [] x.op = "vote"          -> x.u \in ch.members /\ x.h \in DOMAIN ch.ayes /\ x.u \notin ch.ayes[x.h]
    [] x.op = "close"         -> x.h \in DOMAIN ch.ayes /\ ch.ayes[x.h] = ch.members
    [] x.op = "veto"          -> x.h \in DOMAIN ch.ayes
    [] OTHER                  -> TRUE

Pay(f, u, t, n) == Plus(f, <<u, t>>, -n)
Without(f, k) == [x \in DOMAIN f \ {k} |-> f[x]]

\* the reserves move by n of a, m of b, and the liquidity by l
Moved(ch, liq, a, n, b, m, l) ==
  [ch.pools EXCEPT ![liq].res[a] = @ + n, ![liq].res[b] = @ + m, ![liq].total = @ + l]

\* more liquidity of pool l, if it is one, and no more behind it
Diluted(pools, l, n) ==
  IF l \in DOMAIN pools THEN [pools EXCEPT ![l].total = @ + n] ELSE pools

\* liquidity in a promoted pool is activated at once
Provide(ch, x) ==
  LET liq == LiqId(ch, x.a, x.b)
      second == Second(ch.pools[liq], x.a, x.b, x.n)
      minted == Minted(ch.pools[liq], x.a, x.n)
      paid == [ch EXCEPT !.free = Pay(Pay(@, x.u, x.a, x.n), x.u, x.b, second),
                         !.pools = Moved(ch, liq, x.a, x.n, x.b, second, minted)]
  IN  IF liq \in ch.promoted THEN [paid EXCEPT !.active = Plus(@, <<x.u, liq>>, minted)]
      ELSE [paid EXCEPT !.free = Plus(@, <<x.u, liq>>, minted)]

\* the free tokens are burnt first, the last liquidity takes the pool with it
Burn(ch, x) ==
  LET p == ch.pools[x.l]
      fromFree == IF x.n <= Held(ch.free, <<x.u, x.l>>) THEN x.n ELSE Held(ch.free, <<x.u, x.l>>)
      share(t) == (x.n * p.res[t]) \div p.total
      a == Native  b == OtherToken(ch, x.l)
      got == Plus(Plus(Pay(ch.free, x.u, x.l, fromFree), <<x.u, a>>, share(a)), <<x.u, b>>, share(b))
  IN  [ch EXCEPT !.free = got, !.active = Plus(@, <<x.u, x.l>>, fromFree - x.n),
                 !.pools = IF x.n = p.total THEN Without(@, x.l)
                           ELSE Moved(ch, x.l, a, -share(a), b, -share(b), -x.n)]

After(ch, x) ==
  CASE x.op \in {"tge", "issuance"} -> [ch EXCEPT !.done = @ \cup {x.op}]
    [] x.op = "mint"          -> [ch EXCEPT !.free = Plus(@, <<x.u, x.t>>, x.n),
                                            !.pools = Diluted(@, x.t, x.n)]
    [] x.op = "create"        -> [ch EXCEPT !.free = Plus(@, <<x.u, ch.next>>, x.n), !.next = @ + 1]
    [] x.op = "createPool"    ->
         [ch EXCEPT !.free = Plus(Pay(Pay(@, x.u, x.a, x.n), x.u, x.b, x.m), <<x.u, ch.next>>, (x.n + x.m) \div 2),
                    !.pools = [l \in DOMAIN @ \cup {ch.next} |->
                                 IF l # ch.next THEN @[l]
                                 ELSE [res |-> [t \in {x.a, x.b} |-> IF t = x.a THEN x.n ELSE x.m],
                                       total |-> (x.n + x.m) \div 2]],
                    !.next = @ + 1]
    [] x.op = "mintLiquidity" -> Provide(ch, x)
    [] x.op = "burnLiquidity" -> Burn(ch, x)
    [] x.op = "promote"       -> [ch EXCEPT !.promoted = @ \cup {x.l}]
    [] x.op = "activate"      -> [ch EXCEPT !.free = Pay(@, x.u, x.l, x.n), !.active = Plus(@, <<x.u, x.l>>, x.n)]
    [] x.op = "rewardPool"    -> [ch EXCEPT !.free = Pay(@, x.u, x.t, x.n),
                                            !.schedules = @ \cup {<<LiqId(ch, x.a, x.b), x.t>>}]
    [] x.op = "activate3"     -> [ch EXCEPT !.free = Pay(@, x.u, x.l, x.n), !.active3 = Plus(@, <<x.u, x.l, x.t>>, x.n)]
    [] x.op = "vest"          -> [ch EXCEPT !.free = Pay(@, x.from, Native, x.n), !.vesting = Plus(@, <<x.u, Native>>, x.n)]
    [] x.op = "mintVested"    ->
         LET liq == LiqId(ch, Native, x.b)  second == Second(ch.pools[liq], Native, x.b, x.n)
             minted == Minted(ch.pools[liq], Native, x.n)
         IN [ch EXCEPT !.free = Pay(@, x.u, x.b, second),
                       !.vesting = Plus(Pay(@, x.u, Native, x.n), <<x.u, liq>>, minted),
                       !.pools = Moved(ch, liq, Native, x.n, x.b, second, minted)]
    [] x.op = "reserveVested" -> [ch EXCEPT !.vesting = Plus(@, <<x.u, x.l>>, -Held(@, <<x.u, x.l>>)),
                                            !.unspent = Plus(@, <<x.u, x.l>>, Held(ch.vesting, <<x.u, x.l>>))]
    [] x.op = "addStaking"    -> [ch EXCEPT !.stakable = @ \cup {x.l}]
    [] x.op = "bond"          -> [ch EXCEPT ![x.from] = Pay(@, x.u, x.l, x.n),
                                            !.bonded = Plus(@, <<x.u, x.l>>, x.n)]
    [] x.op = "setFee"        -> [ch EXCEPT !.fee = x.fee]
    [] x.op = "setMembers"    -> [ch EXCEPT !.members = x.members,
                                            !.ayes = [h \in DOMAIN @ |-> @[h] \cap x.members]]
    [] x.op = "switch"        -> [ch EXCEPT !.maintenance = x.on]
    [] x.op = "propose"       -> [ch EXCEPT !.ayes = [h \in DOMAIN @ \cup {x.h} |->
                                                        IF h = x.h THEN {} ELSE @[h]]]
    [] x.op = "vote"          -> [ch EXCEPT !.ayes[x.h] = @ \cup {x.u}]
    [] x.op \in {"close", "veto"} -> [ch EXCEPT !.ayes = Without(@, x.h)]

-----------------------------------------------------------------------------
\* Batches.

\* a wrapped call that fails changes nothing and stops nothing
Applied(ch, x) == IF Fits(ch, x) THEN After(ch, x) ELSE ch

\* the ledgers before, between and after the calls of a batch
Ledgers(ch, calls) ==
  LET led[i \in 0..Len(calls)] == IF i = 0 THEN ch ELSE Applied(led[i - 1], calls[i])
  IN  led

Wrapped(ch, calls) == Ledgers(ch, calls)[Len(calls)]

\* mutant: nobody looks whether the batch failed
RunsAllUnchecked(ch, calls) == TRUE

\* bare calls can run one after the other
RunsAll(ch, calls) == \A i \in DOMAIN calls : Fits(Ledgers(ch, calls)[i - 1], calls[i])
=============================================================================
