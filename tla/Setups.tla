------------------------------- MODULE Setups -------------------------------
(***************************************************************************)
(* The functions that set a chain up for a test or at the command line:    *)
(* setup.ts, createPoolIfMissing (tx.ts), feeLockHelper.ts, Council.ts and *)
(* setupsOnTheGo.ts.  Each is a script: it reads the chain, sends a batch, *)
(* reads again.  Clients run theirs at the same time, every read and every *)
(* transaction is a step, and hardly anybody looks at the result of a      *)
(* wrapped call of a batch, so that a script can end without having done   *)
(* what it is for.                                                         *)
(*                                                                         *)
(* A client runs one script.  The six default users are two: Bob, who      *)
(* creates the pools, and Eve, for whose rewards the set-ups wait.         *)
(***************************************************************************)
EXTENDS Ledger, FiniteSets, TLC

CONSTANTS
  Clients,   \* tests and command lines
  Scripts,   \* the scripts they run
  Chain,     \* the ledgers they find
  Granted,   \* what getTokenIds(5) gives a client when the pool is not dry
  MaxDry,    \* bound: how many of the five may be undefined
  Amount     \* Assets.DEFAULT_AMOUNT, minCandidateStk * 1000: even

ASSUME SetupAssumption ==
  /\ \A c \in Clients : /\ Granted[c] \in Seq(Nat \ {Native}) /\ Len(Granted[c]) = 5
                         /\ \A i, j \in 1..5 : Granted[c][i] = Granted[c][j] => i = j
  /\ Amount \in Nat /\ Amount > 0 /\ Amount % 10 = 0
  /\ MaxDry \in 0..5

\* users and motions are pairs: <<who, which of his>>
Sudo == <<"sudo", 0>>
Bob == <<"bob", 0>>
Eve == <<"eve", 0>>
DefaultUsers == <<Bob, Eve>>
Given == 1        \* tokens of the pool that is there from the start: Native and 1,
GivenPool == 2    \* and its liquidity token
Wanted == 3       \* the token that createPoolIfMissing wants a pool for
Lots == 20        \* 100000 times an amount
Joining == MinBond + 1   \* amountToJoin

-----------------------------------------------------------------------------
\* What the ledgers have in common that the set-ups find and leave.

Naturals(f) == \A k \in DOMAIN f : f[k] \in Nat

\* two tokens share one pool at most, which is not empty
PoolsSound(pools, next) ==
  /\ next \in Nat /\ next > Wanted
  /\ \A l \in DOMAIN pools :
       /\ l \in 0..(next - 1)
       /\ DOMAIN pools[l] = {"res", "total"}
       /\ pools[l].total \in Nat \ {0}
       /\ \E a, b \in 0..(next - 1) : a # b /\ DOMAIN pools[l].res = {a, b}
       /\ \A t \in DOMAIN pools[l].res : pools[l].res[t] \in Nat \ {0}
  /\ \A k, l \in DOMAIN pools : DOMAIN pools[k].res = DOMAIN pools[l].res => k = l
  /\ GivenPool \in DOMAIN pools => DOMAIN pools[GivenPool].res = {Native, Given}

\* the tokens of the given pool that can be burnt, and what stands behind them
GivenCoins(f) == Coins(f, {k \in DOMAIN f : k[2] = GivenPool})

Backed(free, active, pools) ==
  /\ IsFiniteSet(GivenCoins(free)) /\ IsFiniteSet(GivenCoins(active))
  /\ GivenPool \in DOMAIN pools =>
       Cardinality(GivenCoins(free)) + Cardinality(GivenCoins(active))
         <= pools[GivenPool].total

CouncilSound(members, ayes) ==
  IsFiniteSet(members) /\ \A h \in DOMAIN ayes : ayes[h] \subseteq members

LedgerFields == {"done", "free", "active", "active3", "vesting", "unspent", "bonded", "pools",
                 "promoted", "stakable", "schedules", "next", "fee", "members", "ayes", "maintenance"}

Sound(ch) ==
  /\ DOMAIN ch = LedgerFields
  /\ Naturals(ch.free) /\ Naturals(ch.active) /\ Naturals(ch.active3)
  /\ Naturals(ch.vesting) /\ Naturals(ch.unspent) /\ Naturals(ch.bonded)
  /\ IsFiniteSet(Coins(ch.active3, DOMAIN ch.active3))
  /\ PoolsSound(ch.pools, ch.next)
  /\ Backed(ch.free, ch.active, ch.pools)
  /\ CouncilSound(ch.members, ch.ayes)
  /\ ch.done \subseteq {"tge", "issuance"}

\* the tokens of the IPC server have been issued
ASSUME ChainAssumption ==
  \A ch \in Chain : Sound(ch) /\ \A c \in Clients, i \in 1..5 : Granted[c][i] < ch.next

-----------------------------------------------------------------------------
VARIABLES
  chain,    \* the ledger
  script,   \* what each client runs
  pc,       \* the number of its next step
  loc,      \* what it has read: tokens, the liquidity token, others
  others,   \* the kinds of calls that other clients have made since it began
  outcome   \* "running", "met" or "missed" its aim, or "threw"

vars == <<chain, script, pc, loc, others, outcome>>

Nothing == [ids |-> <<>>, liq |-> NoPool, read |-> 0]

Init ==
  /\ chain \in Chain
  /\ script \in [Clients -> Scripts]
  /\ pc = [c \in Clients |-> 0]
  /\ loc = [c \in Clients |-> Nothing]
  /\ others = [c \in Clients |-> {}]
  /\ outcome = [c \in Clients |-> "running"]

-----------------------------------------------------------------------------
\* Steps.

At(c, s, k) == script[c] = s /\ pc[c] = k /\ outcome[c] = "running"

Goto(c, k) == pc' = [pc EXCEPT ![c] = k] /\ UNCHANGED <<script, outcome>>
Return(c, aim) == /\ outcome' = [outcome EXCEPT ![c] = IF aim THEN "met" ELSE "missed"]
                  /\ UNCHANGED <<script, pc>>
Throw(c) == /\ outcome' = [outcome EXCEPT ![c] = "threw"]
            /\ UNCHANGED <<script, pc>>

Learn(c, field, v) == loc' = [loc EXCEPT ![c][field] = v]

\* a mint of liquidity tokens dilutes the pool
Kind(x) == IF x.op = "mint" /\ x.t = GivenPool THEN "dilute" ELSE x.op

\* a client that has begun is told of the calls of others
Tell(c, calls) ==
  others' = [d \in Clients |-> IF d # c /\ pc[d] > 0 /\ outcome[d] = "running"
                               THEN others[d] \cup {Kind(calls[i]) : i \in DOMAIN calls} ELSE others[d]]

Look == UNCHANGED <<chain, others>>

\* batchAsSudoFinalized of wrapped calls
Send(c, calls) == chain' = Wrapped(chain, calls) /\ Tell(c, calls)

SendBoth(c, calls, bare) ==
  chain' = Wrapped(Wrapped(chain, calls), bare) /\ Tell(c, calls \o bare)

\* batchAsSudoFinalized (utility.batchAll) of wrapped calls and then bare ones
SendAll(c, calls, bare) ==
  IF RunsAll(Wrapped(chain, calls), bare)
  THEN SendBoth(c, calls, bare)
  ELSE Look

\* sudoBatch (utility.batch): what comes before the bare call that fails remains
SendUntil(c, calls, bare) ==
  IF RunsAll(Wrapped(chain, calls), bare) THEN SendBoth(c, calls, bare) ELSE Send(c, calls)

MintAll(t, users, n) == [i \in DOMAIN users |-> Mint(t, users[i], n)]

\* mutant: one user short
ProvisionsButLast(liq, n, max) ==
  [i \in 1..(Len(DefaultUsers) - 1) |-> MintLiquidity(DefaultUsers[i], Native, liq, n, max)]

Provisions(liq, n, max) ==
  [i \in DOMAIN DefaultUsers |-> MintLiquidity(DefaultUsers[i], Native, liq, n, max)]

\* mutant: the next id read after the transaction
IssueReadAfter(c, u, n) ==
  /\ Learn(c, "ids", Append(loc[c].ids, chain.next + 1))
  /\ Send(c, <<Create(u, n)>>)

\* sudoIssueAsset: the id comes with the event of the transaction
Issue(c, u, n) ==
  /\ Learn(c, "ids", Append(loc[c].ids, chain.next))
  /\ Send(c, <<Create(u, n)>>)

Id(c) == loc[c].ids[1]
Fresh(c, i) == <<c, i>>   \* a user that the script makes up

ReadLiquidity(c, a, b) == Learn(c, "liq", LiqId(chain, a, b)) /\ Look

-----------------------------------------------------------------------------
\* setup.ts

Undefined(dry, ids) == [i \in 1..5 |-> IF i \in dry THEN Native ELSE ids[i]]

\* new BN(undefined) is 0, and so is what the codec makes of undefined
Next5(ids, i) == IF i = 5 THEN Native ELSE ids[i + 1]

Setup5PoolsChained(c) ==
  /\ At(c, "fivePools", 0)
  /\ \E dry \in {D \in SUBSET (1..5) : Cardinality(D) <= MaxDry} :
       LET ids == Undefined(dry, Granted[c])
           half == Amount \div 2
           mints == MintAll(ids[1], <<Sudo>>, Amount) \o MintAll(ids[2], <<Sudo>>, Amount)
                    \o MintAll(ids[3], <<Sudo>>, Amount) \o MintAll(ids[4], <<Sudo>>, Amount)
                    \o MintAll(ids[5], <<Sudo>>, Amount) \o MintAll(Native, <<Fresh(c, 1)>>, Amount)
                    \o MintAll(ids[1], <<Fresh(c, 1)>>, Amount) \o MintAll(ids[5], <<Fresh(c, 1)>>, Amount)
           pools == [i \in 1..5 |-> CreatePool(Sudo, ids[i], half, Next5(ids, i), half)]
       IN /\ SendAll(c, mints, pools)
          /\ Learn(c, "ids", ids)
          /\ IF RunsAll(Wrapped(chain, mints), pools) THEN Return(c, TRUE) ELSE Throw(c)

SetupAPoolForUsers(c) ==
  /\ At(c, "aPool", 0)
  /\ \E dry \in {D \in SUBSET (1..2) : Cardinality(D) <= MaxDry} :
       LET ids == Undefined(dry, Granted[c])
           mints == <<Mint(ids[1], Sudo, Amount), Mint(ids[2], Sudo, Amount),
                      Mint(Native, Fresh(c, 1), Amount), Mint(ids[1], Fresh(c, 1), Amount)>>
           pool == <<CreatePool(Sudo, ids[1], Amount \div 2, ids[2], Amount \div 2)>>
       IN /\ SendAll(c, mints, pool)
          /\ Learn(c, "ids", SubSeq(ids, 1, 2))
          /\ IF RunsAll(Wrapped(chain, mints), pool) THEN Return(c, TRUE) ELSE Throw(c)

-----------------------------------------------------------------------------
\* tx.ts: createPoolIfMissing.  read is 1 when the pool is to be promoted.

MissingPool(c) ==
  /\ At(c, "poolIfMissing", 0)
  /\ Look
  /\ IF PoolsOf(chain, Native, Wanted) # {}
     THEN Return(c, TRUE) /\ UNCHANGED loc
     ELSE \E promoted \in 0..1 : Learn(c, "read", promoted) /\ Goto(c, 1)

\* mutant: batchAll instead of batch
CreateMissingPoolAtomically(c) ==
  LET mints == <<Mint(Native, Sudo, Amount), Mint(Wanted, Sudo, Amount), Mint(Native, Sudo, Amount)>>
      pool == <<CreatePool(Sudo, Native, Amount \div 2, Wanted, Amount \div 2)>>
  IN  /\ At(c, "poolIfMissing", 1)
      /\ SendAll(c, mints, pool) /\ UNCHANGED loc
      /\ IF RunsAll(Wrapped(chain, mints), pool) THEN Goto(c, 2) ELSE Throw(c)

CreateMissingPool(c) ==
  /\ At(c, "poolIfMissing", 1)
  /\ SendUntil(c, <<Mint(Native, Sudo, Amount), Mint(Wanted, Sudo, Amount), Mint(Native, Sudo, Amount)>>,
                  <<CreatePool(Sudo, Native, Amount \div 2, Wanted, Amount \div 2)>>)
  /\ Goto(c, 2) /\ UNCHANGED loc

ReadMissingPool(c) ==
  /\ At(c, "poolIfMissing", 2)
  /\ ReadLiquidity(c, Native, Wanted)
  /\ IF loc[c].read = 1 THEN Goto(c, 3) ELSE Return(c, PoolsOf(chain, Native, Wanted) # {})

\* the codec refuses a negative id
PromoteMissingPool(c) ==
  /\ At(c, "poolIfMissing", 3)
  /\ UNCHANGED loc
  /\ IF loc[c].liq = NoPool THEN Throw(c) /\ Look
     ELSE Send(c, <<Promote(loc[c].liq)>>) /\ Return(c, PoolsOf(chain', Native, Wanted) \subseteq chain'.promoted)

CreatePoolIfMissing(c) ==
  MissingPool(c) \/ CreateMissingPool(c) \/ ReadMissingPool(c) \/ PromoteMissingPool(c)

-----------------------------------------------------------------------------
\* feeLockHelper.ts.  Both take a threshold, and write back what they read
\* of the rest.

Threshold == 2
NoFee == [amount |-> "none", threshold |-> 0, listed |-> FALSE]

Cleared(fee) == ~ fee.listed /\ fee.threshold >= Threshold
Added(fee) == fee.listed /\ fee.threshold >= Threshold

ReadFee(c, s, done) ==
  /\ At(c, s, 0)
  /\ Look
  /\ CASE chain.fee = NoFee   -> Throw(c) /\ UNCHANGED loc
       [] done    -> Return(c, TRUE) /\ UNCHANGED loc
       [] OTHER               -> Learn(c, "read", chain.fee) /\ Goto(c, 1)

\* an amount beyond 2^53 comes as a hexadecimal string, which new BN refuses
WriteFee(c, s, listed) ==
  /\ At(c, s, 1)
  /\ UNCHANGED loc
  /\ IF ~ listed /\ loc[c].read.amount = "large" THEN Throw(c) /\ Look
     ELSE /\ Send(c, <<SetFee([loc[c].read EXCEPT !.threshold = Threshold, !.listed = listed])>>)
          /\ Goto(c, 2)

FeeWritten(c, s, done) == At(c, s, 2) /\ Look /\ UNCHANGED loc /\ Return(c, done)

ClearMgaFromWhitelisted(c) ==
  \/ ReadFee(c, "feeClear", Cleared(chain.fee))
  \/ WriteFee(c, "feeClear", FALSE)
  \/ FeeWritten(c, "feeClear", Cleared(chain.fee))

AddMgaToWhitelisted(c) ==
  \/ ReadFee(c, "feeAdd", Added(chain.fee))
  \/ WriteFee(c, "feeAdd", TRUE)
  \/ FeeWritten(c, "feeAdd", Added(chain.fee))

-----------------------------------------------------------------------------
\* setupsOnTheGo.ts: pools and tokens with rewards.

\* setupPoolWithRewardsForDefaultUsers, up to the wait for rewards
RewardPoolSteps(c, s) ==
  \/ /\ At(c, s, 0)
     /\ Issue(c, Sudo, Amount) /\ Goto(c, 1)
  \/ /\ At(c, s, 1)
     /\ Send(c, <<Tge, Issuance>> \o MintAll(Id(c), DefaultUsers, Amount) \o MintAll(Native, DefaultUsers, Amount)
                \o <<CreatePool(Bob, Native, Amount \div 10, Id(c), Amount \div 10)>>)
     /\ Goto(c, 2) /\ UNCHANGED loc
  \/ /\ At(c, s, 2)
     /\ ReadLiquidity(c, Native, Id(c)) /\ Goto(c, 3)
  \/ /\ At(c, s, 3) /\ UNCHANGED loc
     /\ IF loc[c].liq = NoPool THEN Throw(c) /\ Look
        ELSE /\ Send(c, <<Promote(loc[c].liq)>> \o Provisions(Id(c), Amount \div 10, Amount))
             /\ Goto(c, 4)

PoolWithRewards(c) ==
  \/ RewardPoolSteps(c, "poolRewards")
  \/ At(c, "poolRewards", 4) /\ Look /\ UNCHANGED loc /\ Return(c, CanEarn(chain, Eve, loc[c].liq))

\* setupTokenWithRewardsForDefaultUsers: the token itself is promoted
TokenWithRewards(c) ==
  \/ /\ At(c, "tokenRewards", 0)
     /\ Issue(c, Sudo, Amount) /\ Goto(c, 1)
  \/ /\ At(c, "tokenRewards", 1)
     /\ Send(c, <<Tge, Issuance>> \o MintAll(Id(c), DefaultUsers, Amount) \o MintAll(Native, DefaultUsers, Amount))
     /\ Goto(c, 2) /\ UNCHANGED loc
  \/ /\ At(c, "tokenRewards", 2)
     /\ Send(c, <<Promote(Id(c))>> \o [i \in DOMAIN DefaultUsers |-> Activate(DefaultUsers[i], Id(c), Amount \div 10)])
     /\ Goto(c, 3) /\ UNCHANGED loc
  \/ At(c, "tokenRewards", 3) /\ Look /\ UNCHANGED loc /\ Return(c, CanEarn(chain, Eve, Id(c)))

\* createCustomPool: read is the ratio, negative when it multiplies
CustomPool(c) ==
  \/ /\ At(c, "customPool", 0)
     /\ \E ratio \in {1, 2, -1, -2} :
          LET r == IF ratio > 0 THEN ratio ELSE -ratio IN
          /\ loc' = [loc EXCEPT ![c].ids = <<chain.next>>, ![c].read = ratio]
          /\ Send(c, <<Create(Sudo, Amount * r)>>)
     /\ Goto(c, 1)
  \/ /\ At(c, "customPool", 1)
     /\ LET ratio == loc[c].read
            second == IF ratio > 0 THEN Amount \div ratio ELSE Amount * (- ratio)
        IN Send(c, <<Tge, Issuance, Mint(Id(c), Bob, Amount), Mint(Native, Bob, Amount),
                     CreatePool(Bob, Native, Amount, Id(c), second)>>)
     /\ UNCHANGED loc
     /\ Return(c, PoolsOf(chain', Native, Id(c)) # {})

\* activateAndClaim3rdPartyRewardsForUser: a million is three, forty millions ten
ThirdPartyRewards(c) ==
  LET u == Eve  rewarded == loc[c].ids[1]  paired == loc[c].ids[2] IN
  \/ /\ At(c, "thirdParty", 0)
     /\ Learn(c, "ids", <<chain.next, chain.next + 1>>)
     /\ Send(c, <<Create(Sudo, Amount), Create(Sudo, Amount)>>) /\ Goto(c, 1)
  \/ /\ At(c, "thirdParty", 1)
     /\ Send(c, <<Tge, Issuance, Mint(paired, u, Amount * 10), Mint(Native, u, Amount * 20),
                  Mint(rewarded, Sudo, Amount * 10), Mint(Native, Sudo, Amount * 20),
                  CreatePool(Sudo, Native, Amount * 3, rewarded, Amount * 3),
                  CreatePool(u, Native, Amount, paired, Amount)>>)
     /\ Goto(c, 2) /\ UNCHANGED loc
  \/ /\ At(c, "thirdParty", 2)
     /\ ReadLiquidity(c, Native, paired) /\ Goto(c, 3)
  \/ /\ At(c, "thirdParty", 3) /\ UNCHANGED loc
     /\ IF loc[c].liq = NoPool THEN Throw(c) /\ Look
        ELSE Send(c, <<Promote(loc[c].liq)>>) /\ Goto(c, 4)
  \/ /\ At(c, "thirdParty", 4)
     /\ Send(c, <<RewardPool(Sudo, paired, Native, rewarded, Amount * 3),
                  Activate3(u, loc[c].liq, Amount \div 2, rewarded)>>)
     /\ Goto(c, 5) /\ UNCHANGED loc
  \/ /\ At(c, "thirdParty", 5) /\ Look /\ UNCHANGED loc
     /\ Return(c, CanEarn3(chain, u, loc[c].liq, rewarded))

\* addActivatedLiquidityForNativeRewards, addActivatedLiquidityFor3rdPartyRewards
AddActivatedLiquidity(c) ==
  \/ /\ pc[c] = 0 /\ (At(c, "addNative", 0) \/ At(c, "addThirdParty", 0))
     /\ Send(c, <<Mint(GivenPool, Eve, Amount)>>) /\ Goto(c, 1) /\ UNCHANGED loc
  \/ /\ At(c, "addNative", 1)
     /\ Send(c, <<Activate(Eve, GivenPool, Amount)>>)
     /\ UNCHANGED loc /\ Return(c, Held(chain'.active, <<Eve, GivenPool>>) >= Amount)
  \/ /\ At(c, "addThirdParty", 1)
     /\ Send(c, <<Activate3(Eve, GivenPool, Amount, Given)>>)
     /\ UNCHANGED loc /\ Return(c, Held(chain'.active3, <<Eve, GivenPool, Given>>) >= Amount)

\* addUnspentReserves, with a token of its own or with the given one
Vests(u, asset, liq) ==
  <<AddStaking(liq), Vest(Sudo, u, Amount \div 2), Promote(liq),
    MintVested(u, asset, Amount \div 2, Amount), ReserveVested(u, liq)>>

AddUnspentReserves(c) ==
  \/ /\ At(c, "unspentNew", 0)
     /\ Issue(c, Sudo, Amount) /\ Goto(c, 1)
  \/ /\ At(c, "unspentNew", 1)
     /\ Send(c, <<Mint(Id(c), Eve, Amount * 2), Mint(Native, Eve, Amount * 2),
                  CreatePool(Eve, Native, Amount, Id(c), Amount)>>)
     /\ Goto(c, 2) /\ UNCHANGED loc
  \/ /\ At(c, "unspentNew", 2)
     /\ ReadLiquidity(c, Native, Id(c)) /\ Goto(c, 3)
  \/ /\ At(c, "unspentGiven", 0) /\ Look
     /\ loc' = [loc EXCEPT ![c].ids = <<Given>>, ![c].liq = LiqId(chain, Native, Given),
                           ![c].read = Held(chain.free, <<Eve, Given>>)]
     /\ Goto(c, 1)
  \/ /\ At(c, "unspentGiven", 1) /\ UNCHANGED loc
     /\ IF loc[c].liq = NoPool THEN Throw(c) /\ Look
        ELSE Send(c, <<Mint(Native, Eve, Amount), Mint(loc[c].liq, Eve, Amount * 2)>>) /\ Goto(c, 3)
  \/ /\ pc[c] = 3 /\ (At(c, "unspentNew", 3) \/ At(c, "unspentGiven", 3)) /\ UNCHANGED loc
     /\ IF loc[c].liq = NoPool THEN Throw(c) /\ Look
        ELSE Send(c, Vests(Eve, Id(c), loc[c].liq)) /\ Goto(c, 4)
  \/ /\ pc[c] = 4 /\ (At(c, "unspentNew", 4) \/ At(c, "unspentGiven", 4)) /\ Look /\ UNCHANGED loc
     /\ Return(c, Held(chain.unspent, <<Eve, loc[c].liq>>) > 0)

-----------------------------------------------------------------------------
\* setupsOnTheGo.ts: tokens for a user, and back.

\* giveTokensToUser: read is the price
GiveTokensToUser(c) ==
  \/ /\ At(c, "giveTokens", 0)
     /\ IF GivenPool \in DOMAIN chain.pools
        THEN /\ Learn(c, "read", BuyPrice(chain.pools[GivenPool], OtherToken(chain, GivenPool), Joining))
             /\ Goto(c, 1) /\ Look
        ELSE /\ Send(c, <<Mint(GivenPool, Eve, Amount)>>)
             /\ UNCHANGED loc /\ Return(c, Burnable(chain', Eve, GivenPool) > 0)
  \/ /\ At(c, "giveTokens", 1) /\ UNCHANGED loc
     /\ Send(c, <<Mint(Given, Eve, loc[c].read * Lots), Mint(Native, Eve, Joining * Lots),
                  MintLiquidity(Eve, Native, Given, Joining * 2, loc[c].read * 4)>>)
     /\ Return(c, Burnable(chain', Eve, GivenPool) > Burnable(chain, Eve, GivenPool))

\* burnAllTokensFromPool: what each user holds is read in turn
Owned(ch, u, l) == Burnable(ch, u, l) + Locked(ch, u, l)

BurnAllTokensFromPool(c) ==
  \/ \E i \in DOMAIN DefaultUsers :
       /\ At(c, "burnAll", i - 1)
       /\ Learn(c, "ids", Append(loc[c].ids, Owned(chain, DefaultUsers[i], GivenPool)))
       /\ Look /\ Goto(c, i)
  \/ /\ At(c, "burnAll", Len(DefaultUsers)) /\ UNCHANGED loc
     /\ Send(c, [i \in DOMAIN DefaultUsers |-> BurnLiquidity(DefaultUsers[i], GivenPool, loc[c].ids[i])])
     /\ Return(c, \A i \in DOMAIN DefaultUsers : Burnable(chain', DefaultUsers[i], GivenPool) = 0)

-----------------------------------------------------------------------------
\* setupsOnTheGo.ts: candidates and delegators.  What the hints of the call
\* are worth is the subject of CandidateHints.

NoPoolToken(c) == GivenPool \notin DOMAIN chain.pools

\* joinAsCandidate, once the pool of liq has been found
JoinSteps(c, s, k) ==
  LET liq == loc[c].liq  token == IF liq = GivenPool THEN Given ELSE Id(c) IN
  \/ /\ At(c, s, k) /\ UNCHANGED loc
     /\ Send(c, IF liq = Native THEN <<Mint(Native, Eve, Joining * Lots)>>
                ELSE <<Mint(token, Eve, Joining * Lots), Mint(Native, Eve, Joining * Lots),
                       MintLiquidity(Eve, Native, token, Joining * 2, Joining * Lots)>>)
     /\ Goto(c, k + 1)
  \/ /\ At(c, s, k + 1) /\ UNCHANGED loc
     /\ Send(c, <<IF liq = Native THEN Bond(Eve, Native, Joining * 2, "free")
                  ELSE Bond(Eve, liq, Joining, "active")>>)
     /\ Return(c, IsBonded(chain', Eve))

JoinAsCandidate(c) ==
  \/ /\ At(c, "join", 0) /\ Look
     /\ \E liq \in {Native, GivenPool} :
          IF liq # Native /\ NoPoolToken(c) THEN Throw(c) /\ UNCHANGED loc
          ELSE Learn(c, "liq", liq) /\ Goto(c, 1)
  \/ JoinSteps(c, "join", 1)

\* the command line's collator with a token: that of a new pool or a given one
SetupACollator(c) ==
  \/ RewardPoolSteps(c, "collator")
  \/ /\ At(c, "collator", 4) /\ Look /\ UNCHANGED loc
     /\ IF CanEarn(chain, Eve, loc[c].liq) THEN Goto(c, 5) ELSE Throw(c)
  \/ /\ At(c, "collator", 0) /\ Look
     /\ Learn(c, "liq", GivenPool) /\ Goto(c, 5)
  \/ /\ At(c, "collator", 5) /\ UNCHANGED loc
     /\ Send(c, <<AddStaking(loc[c].liq)>>) /\ Goto(c, 6)
  \/ /\ At(c, "collator", 6) /\ Look /\ UNCHANGED loc
     /\ IF loc[c].liq \in DOMAIN chain.pools THEN Goto(c, 7) ELSE Throw(c)
  \/ JoinSteps(c, "collator", 7)

\* one batch each: the command line's mint, and addStakingLiquidityToken
MintTokenToUser(c) ==
  /\ At(c, "mint", 0) /\ UNCHANGED loc
  /\ \E t \in {Given, GivenPool, Wanted} :
       /\ Send(c, <<Tge, Issuance, Mint(t, Eve, Amount)>>)
       /\ Return(c, Held(chain'.free, <<Eve, t>>) > Held(chain.free, <<Eve, t>>))

EnableLiquidityToken(c) ==
  /\ At(c, "enable", 0) /\ UNCHANGED loc
  /\ Send(c, <<AddStaking(GivenPool)>>) /\ Return(c, GivenPool \in chain'.stakable)

\* joinAFewCandidates and fillWithDelegators: read is what a user joins with,
\* ids the tokens that he is given for it; a pool that is gone has no price
Price(ch) ==
  LET n == IF GivenPool \in DOMAIN ch.pools THEN BuyPrice(ch.pools[GivenPool], Given, Joining) ELSE 0
  IN  IF n = 0 THEN Joining * Lots ELSE n

Joiners(c) == <<Fresh(c, 1), Fresh(c, 2)>>

JoinBoth(c, s, k, mints) ==
  \/ /\ At(c, s, k) /\ UNCHANGED loc
     /\ Send(c, mints)
     /\ Goto(c, k + 1)
  \/ \E i \in 1..2 :   \* signed at once, executed one by one
       /\ At(c, s, k + i) /\ UNCHANGED loc
       /\ Send(c, <<Bond(Joiners(c)[i], loc[c].liq, loc[c].read,
                        IF loc[c].liq = Native THEN "free" ELSE "active")>>)
       /\ IF i = 1 THEN Goto(c, k + 2) ELSE Return(c, \A u \in Range(Joiners(c)) : IsBonded(chain', u))

WithLiquidity(c, n) ==
  LET calls(u) == <<Mint(Given, u, loc[c].ids[1] * Lots), Mint(Native, u, Joining * Lots),
                    MintLiquidity(u, Native, Given, n, Amount * Amount)>>
  IN  calls(Joiners(c)[1]) \o calls(Joiners(c)[2])

Issued(ch, l) == IF l \in DOMAIN ch.pools THEN ch.pools[l].total ELSE 0

\* the reserves are looked up before the price: without a pool they are 0, and
\* the division by them throws
JoinAFewCandidates(c) ==
  \/ /\ At(c, "joinFew", 0) /\ Look
     /\ IF NoPoolToken(c) THEN Throw(c) /\ UNCHANGED loc
        ELSE Learn(c, "liq", GivenPool) /\ Goto(c, 1)
  \/ At(c, "joinFew", 1) /\ Look /\ Learn(c, "read", Issued(chain, GivenPool)) /\ Goto(c, 2)
  \/ /\ At(c, "joinFew", 2) /\ Look
     /\ IF NoPoolToken(c) THEN Throw(c) /\ UNCHANGED loc
        ELSE /\ Learn(c, "read", (Joining * loc[c].read) \div chain.pools[GivenPool].res[Native] + 1)
             /\ Goto(c, 3)
  \/ At(c, "joinFew", 3) /\ Look /\ Learn(c, "ids", <<Price(chain)>>) /\ Goto(c, 4)
  \/ JoinBoth(c, "joinFew", 4, WithLiquidity(c, Joining * 10))

FillWithDelegators(c) ==
  \/ /\ At(c, "delegators", 0) /\ Look
     /\ \/ NoPoolToken(c) /\ Throw(c) /\ UNCHANGED loc
        \/ ~ NoPoolToken(c) /\ Learn(c, "liq", GivenPool) /\ Goto(c, 1)
        \/ loc' = [loc EXCEPT ![c] = [ids |-> <<>>, liq |-> Native, read |-> Joining * 3]] /\ Goto(c, 2)
  \/ /\ At(c, "delegators", 1) /\ Look /\ Goto(c, 2)
     /\ loc' = [loc EXCEPT ![c] = [ids |-> <<Price(chain)>>, liq |-> GivenPool, read |-> Joining]]
  \/ JoinBoth(c, "delegators", 2, IF loc[c].liq = Native THEN MintAll(Native, Joiners(c), Joining * Lots)
                                 ELSE WithLiquidity(c, Joining * 2))

\* addStakedUnactivatedReserves, with a token of its own or with a given one
AddStakedReserves(c) ==
  \/ At(c, "addStaked", 0) /\ IsBonded(chain, Eve) /\ Throw(c) /\ Look /\ UNCHANGED loc
  \/ At(c, "addStaked", 0) /\ ~ IsBonded(chain, Eve) /\ Issue(c, Eve, Amount) /\ Goto(c, 1)
  \/ /\ At(c, "addStaked", 0) /\ ~ IsBonded(chain, Eve)
     /\ Learn(c, "liq", GivenPool)
     /\ Send(c, <<Mint(Native, Eve, Amount * 2), Mint(GivenPool, Eve, Amount * 2)>>) /\ Goto(c, 3)
  \/ /\ At(c, "addStaked", 1)
     /\ Send(c, <<Mint(Native, Eve, Amount * 2), Mint(Native, Sudo, Amount * 2),
                  CreatePool(Eve, Native, Amount, Id(c), Amount)>>)
     /\ Goto(c, 2) /\ UNCHANGED loc
  \/ /\ At(c, "addStaked", 2)
     /\ ReadLiquidity(c, Native, Id(c)) /\ Goto(c, 3)
  \/ /\ At(c, "addStaked", 3) /\ UNCHANGED loc
     /\ IF loc[c].liq = NoPool THEN Throw(c) /\ Look
        ELSE Send(c, <<AddStaking(loc[c].liq)>>) /\ Goto(c, 4)
  \/ /\ At(c, "addStaked", 4)
     /\ Learn(c, "read", Held(chain.free, <<Eve, loc[c].liq>>)) /\ Look /\ Goto(c, 5)
  \/ /\ At(c, "addStaked", 5) /\ UNCHANGED loc
     /\ Send(c, <<Bond(Eve, loc[c].liq, loc[c].read, "free")>>)
     /\ Return(c, Held(chain'.bonded, <<Eve, loc[c].liq>>) > 0)

-----------------------------------------------------------------------------
\* Council.ts and the council of setupsOnTheGo.ts.

Motion == <<"given", 0>>         \* the motion whose number is asked for
Own(c) == <<Fresh(c, 1), Fresh(c, 2)>>   \* setupUsers of a test

\* setupACouncilWithDefaultUsers
SetupACouncil(c) ==
  \/ /\ At(c, "council", 0)
     /\ Issue(c, Sudo, Amount) /\ Goto(c, 1)
  \/ /\ At(c, "council", 1)
     /\ Send(c, MintAll(Id(c), DefaultUsers, Amount) \o MintAll(Native, DefaultUsers, Amount))
     /\ Goto(c, 2) /\ UNCHANGED loc
  \/ /\ At(c, "council", 2)
     /\ Send(c, <<SetMembers(Range(DefaultUsers))>>)
     /\ UNCHANGED loc /\ Return(c, chain'.members = Range(DefaultUsers))

\* setupMaintenanceTests with createProposals: the first user proposes, in a
\* batch that nobody looks at; to switch on what is on fails the test
SetupMaintenanceTests(c) ==
  \/ /\ At(c, "maintenance", 0)
     /\ Send(c, MintAll(Native, Own(c), Amount) \o <<SetMembers(Range(Own(c)))>>)
     /\ Goto(c, 1) /\ UNCHANGED loc
  \/ /\ At(c, "maintenance", 1)
     /\ Send(c, <<Propose(Own(c)[1], <<c, 0>>, 2)>>) /\ Goto(c, 2) /\ UNCHANGED loc
  \/ /\ At(c, "maintenance", 2)   \* a few blocks later
     /\ \E on \in BOOLEAN :
          /\ Send(c, <<Switch(on)>>) /\ UNCHANGED loc
          /\ IF on /\ chain.maintenance THEN Throw(c)
             ELSE Return(c, <<c, 0>> \in DOMAIN chain.ayes)

\* vote: of the motions only the wanted one can be voted on, the list is read
\* before the members, and looking at the first of an empty list throws
VoteMotion(c) ==
  \/ /\ At(c, "vote", 0) /\ Look
     /\ IF DOMAIN chain.ayes = {} THEN Throw(c) /\ UNCHANGED loc
        ELSE /\ Learn(c, "read", {Motion} \cap DOMAIN chain.ayes) /\ Goto(c, 1)
  \/ /\ At(c, "vote", 1) /\ Look
     /\ Learn(c, "ids", SetToSeq(chain.members)) /\ Goto(c, 2)
  \/ /\ At(c, "vote", 2) /\ UNCHANGED loc
     /\ Send(c, IF loc[c].read = {} THEN <<>>
                ELSE [i \in DOMAIN loc[c].ids |-> Vote(loc[c].ids[i], Motion)])
     /\ Return(c, Motion \in DOMAIN chain'.ayes /\ chain'.ayes[Motion] = chain'.members)

\* close and vetoMotion
EndMotion(c, s, call) ==
  \/ /\ At(c, s, 0) /\ Look
     /\ IF DOMAIN chain.ayes = {} THEN Throw(c) /\ UNCHANGED loc
        ELSE Learn(c, "read", {Motion} \cap DOMAIN chain.ayes) /\ Goto(c, 1)
  \/ /\ At(c, s, 1) /\ UNCHANGED loc
     /\ Send(c, IF loc[c].read = {} THEN <<>> ELSE <<call>>)
     /\ Return(c, Motion \notin DOMAIN chain'.ayes)

CloseMotion(c) == EndMotion(c, "close", Close(Motion))
VetoMotion(c) == EndMotion(c, "veto", Veto(Motion))

-----------------------------------------------------------------------------

Script(c) ==
  \/ Setup5PoolsChained(c) \/ SetupAPoolForUsers(c) \/ CreatePoolIfMissing(c)
  \/ ClearMgaFromWhitelisted(c) \/ AddMgaToWhitelisted(c)
  \/ PoolWithRewards(c) \/ TokenWithRewards(c) \/ CustomPool(c)
  \/ ThirdPartyRewards(c) \/ AddActivatedLiquidity(c) \/ AddUnspentReserves(c)
  \/ GiveTokensToUser(c) \/ BurnAllTokensFromPool(c)
  \/ MintTokenToUser(c) \/ EnableLiquidityToken(c) \/ SetupACollator(c)
  \/ JoinAsCandidate(c) \/ JoinAFewCandidates(c) \/ FillWithDelegators(c) \/ AddStakedReserves(c)
  \/ SetupACouncil(c) \/ SetupMaintenanceTests(c)
  \/ VoteMotion(c) \/ CloseMotion(c) \/ VetoMotion(c)

Next == \E c \in Clients : Script(c)

Spec == Init /\ [][Next]_vars

-----------------------------------------------------------------------------
\* Properties.

\* the scripts that issue the tokens they use
Issuers == {"poolRewards", "tokenRewards", "customPool", "thirdParty", "unspentNew", "addStaked",
            "collator", "council"}

Ended(c, s) == script[c] = s /\ outcome[c] # "running"

\* Every step leaves a ledger in which nobody owes anything and every pool has
\* tokens that exist, and a client knows no token that was not issued yet
\* (Assets.ts:131-171 takes the id from the event).
TypeOK ==
  /\ Sound(chain)
  /\ \A c \in Clients : script[c] \in Issuers => Range(loc[c].ids) \subseteq 0..(chain.next - 1)
  /\ script \in [Clients -> Scripts] /\ pc \in [Clients -> 0..8]
  /\ outcome \in [Clients -> {"running", "met", "missed", "threw"}]

\* setup.ts:118-125 makes a chain of five pools out of five token ids, some of
\* which the token pool may have left undefined: when it returns, the ids differ
\* and each shares a pool with the next, the last with the native token.
FiveChained ==
  \A c \in Clients : script[c] = "fivePools" /\ outcome[c] = "met" =>
    LET ids == loc[c].ids IN
    /\ Cardinality(Range(ids)) = 5
    /\ \A i \in 1..5 : PoolsOf(chain, ids[i], Next5(ids, i)) # {}

\* createPoolIfMissing looks before it creates (tx.ts:825), and two tests may
\* both find nothing: still each ends with the pool there, and promoted if it
\* was to promote it, and none of them throws.
MissingPoolCreated ==
  \A c \in Clients : Ended(c, "poolIfMissing") => outcome[c] = "met"

\* Why a script of client c that ends now may have missed its aim.  None of
\* these is looked at by the code: the wrapped call fails, or succeeds in what
\* another call undoes, and the script goes on.
Excused(c) ==
  LET s == script[c]
      Since(kinds) == others[c] \cap kinds # {}
      cannotStake == GivenPool \notin chain.promoted \cap chain.stakable
      diluted == chain.pools[GivenPool].total > chain.pools[GivenPool].res[Native]
  IN  \* what others did between two of its steps
      \/ s \in {"feeClear", "feeAdd"} /\ Since({"setFee"})
      \/ s \in {"maintenance", "vote"} /\ Since({"setMembers"})
      \/ s = "vote" /\ Since({"close", "veto"})
      \/ s \in {"addStaked", "addNative", "addThirdParty"} /\ Since({"bond"})
      \/ s = "burnAll" /\ Since({"dilute", "mintLiquidity"})
      \/ /\ s \in {"addNative", "addThirdParty", "unspentGiven", "giveTokens",
                   "join", "collator", "joinFew", "delegators", "addStaked"}
         /\ Since({"burnLiquidity"})
      \/ s = "joinFew" /\ Since({"dilute"})
      \/ s \in {"joinFew", "unspentGiven"} /\ Since({"mintLiquidity", "mintVested"})
      \* what it found and did not look at
      \/ s = "addNative" /\ GivenPool \notin chain.promoted
      \/ s = "addThirdParty" /\ <<GivenPool, Given>> \notin chain.schedules
      \/ s = "unspentGiven" /\ Second(chain.pools[GivenPool], Native, Given, Amount \div 2)
                               > (IF loc[c].read < Amount THEN loc[c].read ELSE Amount)
      \/ s = "customPool" /\ loc[c].read < -1      \* the second token was not issued in that amount
      \/ s = "giveTokens" /\ loc[c].read = 0       \* the pool cannot sell that much
      \/ s = "burnAll" /\ (GivenPool \notin DOMAIN chain.pools
                           \/ \E u \in {Bob, Eve} : Locked(chain, u, GivenPool) > 0)
      \/ s \in {"join", "collator", "joinFew", "delegators"} /\ cannotStake
      \/ s \in {"join", "collator", "delegators"} /\ diluted   \* the bond is not converted to liquidity
      \/ s = "addStaked" /\ loc[c].liq = GivenPool /\ diluted   \* by its own mint
      \/ s = "vote" /\ loc[c].read = {}            \* no motion has that number
      \/ s = "close" /\ chain.ayes[Motion] # chain.members

\* The results of the wrapped calls of a batch are not looked at
\* (setupsOnTheGo.ts:199-1735, Council.ts:80), except by the two functions of
\* the fee lock, which wait for the success of their own update and do not look
\* what became of it (feeLockHelper.ts:32, :64): a script that ends without what
\* it is for does so only for one of the reasons above, which are another client
\* at work meanwhile or a ledger the script did not check.
AimsMet ==
  [][\A c \in Clients : outcome[c] = "running" /\ outcome'[c] = "missed" => Excused(c)]_vars
=============================================================================
