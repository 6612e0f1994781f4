---------------------------- MODULE SetupsProofs ----------------------------
(***************************************************************************)
(* Theorems about Setups, for any number of clients, any scripts of the    *)
(* twenty-seven, any sound ledger to start with and any amounts.           *)
(*                                                                         *)
(* A batch is a fold over its calls, so what holds of a batch is proved by *)
(* induction up to its length (UpTo).  Every kind of call leaves a sound   *)
(* ledger and keeps its pools (AppliedKeeps), hence so does every batch    *)
(* (WrappedKeeps).  A script then keeps the invariant if each batch it     *)
(* sends is of good calls, computed from what the client has read, and if  *)
(* what it has read suffices for its next step (Local).                    *)
(***************************************************************************)
EXTENDS Setups, FiniteSetTheorems, TLAPS

-----------------------------------------------------------------------------
\* Batches.

\* What holds of 0 and of the successor of each number holds up to n.
LEMMA UpTo ==
  ASSUME NEW n \in Nat, NEW D, 0 \in D, \A i \in 0..n : i # n /\ i \in D => i + 1 \in D
  PROVE  \A i \in 0..n : i \in D
<1> SUFFICES ASSUME (0..n) \ D # {} PROVE FALSE
  OBVIOUS
<1> DEFINE S == (0..n) \ D
           Below(k) == {l \in S : l < k}
           All == {Below(k) : k \in S}
           R == StrictSubsetOrdering(S)
<1>1. IsFiniteSet(S)
  <2>1. IsFiniteSet(0..n)
    BY FS_Interval
  <2> QED
    BY <2>1, FS_Subset
<1>2. IsWellFoundedOn(R, FiniteSubsetsOf(S))
  BY FS_StrictSubsetOrderingWellFounded
<1>3. All \subseteq FiniteSubsetsOf(S) /\ All # {}
  <2>1. \A k \in S : Below(k) \in SUBSET S
    OBVIOUS
  <2>2. \A T \in SUBSET S : IsFiniteSet(T)
    BY <1>1, FS_Subset
  <2> QED
    BY <2>1, <2>2 DEF FiniteSubsetsOf
<1> HIDE DEF All, R
<1>4. PICK T \in All : \A U \in All : ~ (<<U, T>> \in R)
  BY <1>2, <1>3, WFMin
<1> USE DEF All
<1>5. PICK k \in S : T = Below(k)
  OBVIOUS
<1>6. k \in Nat /\ k # 0
  OBVIOUS
<1>7. k - 1 \in S
  BY <1>6
<1>8. Below(k - 1) \in All /\ Below(k - 1) \subseteq Below(k) /\ Below(k - 1) # Below(k)
  BY <1>6, <1>7
<1>9. <<Below(k - 1), T>> \in R
  BY <1>5, <1>8 DEF R, StrictSubsetOrdering
<1> QED
  BY <1>4, <1>8, <1>9

\* The ledgers of a batch: the first is the one it finds, each call makes the next.
LEMMA LedgersOf ==
  ASSUME NEW ch, NEW calls, Len(calls) \in Nat
  PROVE  /\ Ledgers(ch, calls)[0] = ch
         /\ \A i \in 1..Len(calls) :
              Ledgers(ch, calls)[i] = Applied(Ledgers(ch, calls)[i - 1], calls[i])
<1> DEFINE Is(g, n) == g = [i \in 0..n |-> IF i = 0 THEN ch ELSE Applied(g[i - 1], calls[i])]
           D == {n \in Nat : \E g : Is(g, n)}
<1>1. 0 \in D
  <2>1. Is([i \in 0..0 |-> ch], 0)
    OBVIOUS
  <2> QED
    BY <2>1
<1>2. ASSUME NEW n \in Nat, n \in D
      PROVE  n + 1 \in D
  <2>1. PICK g : Is(g, n)
    BY <1>2
  <2> DEFINE h == [i \in 0..(n+1) |-> IF i = 0 THEN ch ELSE Applied(g[i - 1], calls[i])]
  <2> HIDE DEF Is
  <2>2. \A i \in 0..n : h[i] = g[i]
    BY <2>1 DEF Is
  <2>3. ASSUME NEW i \in 0..(n+1), i # 0
        PROVE  h[i-1] = g[i-1]
    <3>1. i - 1 \in 0..n
      BY <2>3
    <3> QED
      BY <3>1, <2>2
  <2>4. Is(h, n + 1)
    <3>1. ASSUME NEW i \in 0..(n+1)
          PROVE  h[i] = IF i = 0 THEN ch ELSE Applied(h[i - 1], calls[i])
      BY <2>3
    <3> QED
      BY <3>1 DEF Is
  <2> QED
    BY <2>4
<1> HIDE DEF D
<1>3. Len(calls) \in D
  <2> DEFINE N == Len(calls)
  <2>1. N \in Nat
    OBVIOUS
  <2>2. \A i \in 0..N : i # N /\ i \in D => i + 1 \in D
    BY <1>2, <2>1
  <2> HIDE DEF N
  <2>3. \A i \in 0..N : i \in D
    BY <1>1, <2>1, <2>2, UpTo
  <2>4. N \in D
    BY <2>1, <2>3
  <2> QED
    BY <2>4 DEF N
<1>4. \E g : Is(g, Len(calls))
  BY <1>3 DEF D
<1>5. Ledgers(ch, calls) = CHOOSE g : Is(g, Len(calls))
  BY DEF Ledgers
<1>6. Is(Ledgers(ch, calls), Len(calls))
  BY <1>4, <1>5
<1> DEFINE led == Ledgers(ch, calls)
<1> HIDE DEF led
<1>7. led = [i \in 0..Len(calls) |-> IF i = 0 THEN ch ELSE Applied(led[i - 1], calls[i])]
  BY <1>6 DEF led
<1>8. /\ led[0] = ch
      /\ \A i \in 1..Len(calls) : led[i] = Applied(led[i - 1], calls[i])
  BY <1>7
<1> QED
  BY <1>8 DEF led

-----------------------------------------------------------------------------
\* Amounts.

\* What is held is a natural number.
LEMMA HeldNatural ==
  ASSUME NEW f, Naturals(f), NEW k
  PROVE  Held(f, k) \in Nat
  BY DEF Naturals, Held

\* Adding n under k changes what is held there and nowhere else.
LEMMA PlusHolds ==
  ASSUME NEW f, Naturals(f), NEW k, NEW n \in Int, Held(f, k) + n \in Nat
  PROVE  /\ Naturals(Plus(f, k, n))
         /\ DOMAIN Plus(f, k, n) = DOMAIN f \cup {k}
         /\ Held(Plus(f, k, n), k) = Held(f, k) + n
         /\ \A x : x # k => Held(Plus(f, k, n), x) = Held(f, x)
<1>1. DOMAIN Plus(f, k, n) = DOMAIN f \cup {k}
  BY DEF Plus
<1>2. \A x \in DOMAIN f \cup {k} :
        Plus(f, k, n)[x] = IF x = k THEN Held(f, k) + n ELSE f[x]
  BY DEF Plus
<1>3. Naturals(Plus(f, k, n))
  BY <1>1, <1>2 DEF Naturals
<1>4. /\ Held(Plus(f, k, n), k) = Held(f, k) + n
      /\ \A x : x # k => Held(Plus(f, k, n), x) = Held(f, x)
  BY <1>1, <1>2 DEF Held
<1> QED
  BY <1>1, <1>3, <1>4

\* The coins under one key are as many as the amount.
LEMMA Pile ==
  ASSUME NEW k, NEW m \in Nat
  PROVE  IsFiniteSet({k} \X (1..m)) /\ Cardinality({k} \X (1..m)) = m
<1> DEFINE S == {k}
           T == 1..m
<1>1. IsFiniteSet(S) /\ Cardinality(S) = 1
  BY FS_Singleton
<1>2. IsFiniteSet(T) /\ Cardinality(T) = m
  BY FS_Interval
<1> HIDE DEF S, T
<1>3. IsFiniteSet(S \X T) /\ Cardinality(S \X T) = Cardinality(S) * Cardinality(T)
  BY <1>1, <1>2, FS_Product
<1>4. IsFiniteSet(S \X T) /\ Cardinality(S \X T) = m
  BY <1>1, <1>2, <1>3
<1> QED
  BY <1>4 DEF S, T

\* Adding n under k adds n coins, or takes -n.
LEMMA CoinsPlus ==
  ASSUME NEW f, Naturals(f), NEW k, NEW n \in Int, Held(f, k) + n \in Nat,
         NEW K \in SUBSET DOMAIN f, k \in DOMAIN f => k \in K, IsFiniteSet(Coins(f, K))
  PROVE  /\ IsFiniteSet(Coins(Plus(f, k, n), K \cup {k}))
         /\ Cardinality(Coins(Plus(f, k, n), K \cup {k})) = Cardinality(Coins(f, K)) + n
<1> DEFINE h == Held(f, k)
           g == Plus(f, k, n)
           C == Coins(f, K \ {k})
           Old == {k} \X (1..h)
           New == {k} \X (1..(h + n))
<1>1. h \in Nat /\ h + n \in Nat
  BY HeldNatural
<1>2. Coins(f, K) = C \cup Old
  <2>1. CASE k \in K
    BY <2>1 DEF Coins, Held
  <2>2. CASE k \notin K
    <3>1. h = 0 /\ K \ {k} = K
      BY <2>2 DEF Held
    <3>2. Old = {}
      BY <3>1
    <3> QED
      BY <3>1, <3>2
  <2> QED
    BY <2>1, <2>2
<1>3. Coins(g, K \cup {k}) = C \cup New
  <2>1. g[k] = h + n
    BY DEF Plus
  <2>2. \A x \in K \ {k} : g[x] = f[x]
    BY DEF Plus
  <2> HIDE DEF g, h
  <2> QED
    BY <2>1, <2>2 DEF Coins
<1>4. C \cap Old = {} /\ C \cap New = {}
  BY DEF Coins
<1>5. \A m \in Nat : IsFiniteSet({k} \X (1..m)) /\ Cardinality({k} \X (1..m)) = m
  BY Pile
<1> HIDE DEF C, h
<1>6. IsFiniteSet(C)
  BY <1>2, FS_Subset
<1>7. IsFiniteSet(Old) /\ Cardinality(Old) = h /\ IsFiniteSet(New) /\ Cardinality(New) = h + n
  BY <1>1, <1>5
<1> HIDE DEF Old, New, g
<1>8. IsFiniteSet({}) /\ Cardinality({}) = 0 /\ Cardinality(C) \in Nat
  BY <1>6, FS_EmptySet, FS_CardinalityType
<1>9. Cardinality(C \cup Old) = Cardinality(C) + Cardinality(Old) - Cardinality({})
  BY <1>4, <1>6, <1>7, FS_Union
<1>10. /\ IsFiniteSet(C \cup New)
       /\ Cardinality(C \cup New) = Cardinality(C) + Cardinality(New) - Cardinality({})
  BY <1>4, <1>6, <1>7, FS_Union
<1>11. Cardinality(C \cup New) = Cardinality(C \cup Old) + n
  BY <1>1, <1>7, <1>8, <1>9, <1>10
<1> QED
  BY <1>2, <1>3, <1>10, <1>11 DEF g

\* Adding n under k changes the coins of the given pool by n, or not at all.
LEMMA GivenCoinsPlus ==
  ASSUME NEW f, Naturals(f), NEW k, NEW n \in Int, Held(f, k) + n \in Nat,
         IsFiniteSet(GivenCoins(f))
  PROVE  /\ IsFiniteSet(GivenCoins(Plus(f, k, n)))
         /\ Cardinality(GivenCoins(f)) \in Nat
         /\ Cardinality(GivenCoins(Plus(f, k, n)))
              = Cardinality(GivenCoins(f)) + (IF k[2] = GivenPool THEN n ELSE 0)
<1> DEFINE g == Plus(f, k, n)
           K == {x \in DOMAIN f : x[2] = GivenPool}
           L == {x \in DOMAIN g : x[2] = GivenPool}
<1>1. DOMAIN g = DOMAIN f \cup {k} /\ \A x \in DOMAIN f : x # k => g[x] = f[x]
  BY DEF Plus
<1>2. Cardinality(GivenCoins(f)) \in Nat
  BY FS_CardinalityType
<1>3. CASE k[2] = GivenPool
  <2>1. L = K \cup {k}
    BY <1>1, <1>3
  <2>2. IsFiniteSet(Coins(f, K)) /\ K \in SUBSET DOMAIN f /\ (k \in DOMAIN f => k \in K)
    BY <1>3 DEF GivenCoins
  <2> HIDE DEF K, L
  <2>3. IsFiniteSet(Coins(g, K \cup {k})) /\ Cardinality(Coins(g, K \cup {k})) = Cardinality(Coins(f, K)) + n
    BY <2>2, CoinsPlus
  <2> QED
    BY <1>2, <1>3, <2>1, <2>3 DEF GivenCoins, K, L
<1>4. CASE k[2] # GivenPool
  <2>1. L = K
    BY <1>1, <1>4
  <2>2. \A x \in K : g[x] = f[x]
    BY <1>1, <1>4
  <2>3. GivenCoins(g) = GivenCoins(f)
    <3> HIDE DEF g, L, K
    <3>1. Coins(g, K) = Coins(f, K)
      BY <2>2 DEF Coins
    <3> QED
      BY <2>1, <3>1 DEF GivenCoins, L, K
  <2> QED
    BY <1>2, <1>4, <2>3
<1> QED
  BY <1>3, <1>4

\* What one user holds of the given pool is part of its coins.
LEMMA HeldOfCoins ==
  ASSUME NEW f, Naturals(f), IsFiniteSet(GivenCoins(f)), NEW k, k[2] = GivenPool
  PROVE  Held(f, k) <= Cardinality(GivenCoins(f))
<1>1. CASE k \notin DOMAIN f
  BY <1>1, FS_CardinalityType DEF Held
<1>2. CASE k \in DOMAIN f
  <2>1. f[k] \in Nat /\ Held(f, k) = f[k]
    BY <1>2 DEF Naturals, Held
  <2>2. {k} \X (1..f[k]) \subseteq GivenCoins(f)
    BY <1>2 DEF GivenCoins, Coins
  <2>3. Cardinality({k} \X (1..f[k])) = f[k]
    BY <2>1, Pile
  <2>4. Cardinality({k} \X (1..f[k])) <= Cardinality(GivenCoins(f))
    BY <2>2, FS_Subset
  <2> QED
    BY <2>1, <2>3, <2>4
<1> QED
  BY <1>1, <1>2

-----------------------------------------------------------------------------
\* Pools.

\* Pools that are there stay, but for the given one, with the same two tokens;
\* ids are not used again and a promoted pool stays so.
Kept(ch, new) ==
  /\ ch.next \in Nat /\ new.next \in Nat /\ ch.next <= new.next
  /\ \A l \in DOMAIN ch.pools : l # GivenPool =>
       l \in DOMAIN new.pools /\ DOMAIN new.pools[l].res = DOMAIN ch.pools[l].res
  /\ ch.promoted \subseteq new.promoted

\* What is kept twice is kept.
LEMMA KeptAll ==
  ASSUME NEW ch1, NEW ch2, NEW ch3, Kept(ch1, ch2), Kept(ch2, ch3)
  PROVE  Kept(ch1, ch3)
<1>1. ch1.next \in Nat /\ ch3.next \in Nat /\ ch1.next <= ch3.next
  BY DEF Kept
<1>2. ASSUME NEW l \in DOMAIN ch1.pools, l # GivenPool
      PROVE  l \in DOMAIN ch3.pools /\ DOMAIN ch3.pools[l].res = DOMAIN ch1.pools[l].res
  BY <1>2 DEF Kept
<1>3. ch1.promoted \subseteq ch3.promoted
  BY DEF Kept
<1> QED
  BY <1>1, <1>2, <1>3 DEF Kept

\* The two tokens of a pool, and the one that is not native.
LEMMA PoolsOfPair ==
  ASSUME NEW ch, PoolsSound(ch.pools, ch.next), NEW a, NEW b, PoolsOf(ch, a, b) # {}
  PROVE  /\ LiqId(ch, a, b) \in DOMAIN ch.pools
         /\ DOMAIN ch.pools[LiqId(ch, a, b)].res = {a, b}
         /\ a # b
         /\ \A l \in PoolsOf(ch, a, b) : l = LiqId(ch, a, b)
<1> DEFINE l == LiqId(ch, a, b)
<1>1. l \in PoolsOf(ch, a, b)
  BY DEF LiqId
<1> HIDE DEF l
<1>2. l \in DOMAIN ch.pools /\ DOMAIN ch.pools[l].res = {a, b}
  BY <1>1 DEF PoolsOf
<1>3. \E x, y \in 0..(ch.next - 1) : x # y /\ DOMAIN ch.pools[l].res = {x, y}
  BY <1>2 DEF PoolsSound
<1>4. a # b
  BY <1>2, <1>3
<1>5. \A k \in PoolsOf(ch, a, b) : k = l
  BY <1>2 DEF PoolsOf, PoolsSound
<1> QED
  BY <1>2, <1>4, <1>5 DEF l

\* What pool p can take: n of a, m of b and t of its liquidity.
Bears(p, a, n, b, m, t) ==
  /\ a # b /\ DOMAIN p.res = {a, b} /\ n \in Int /\ m \in Int /\ t \in Int
  /\ p.res[a] + n > 0 /\ p.res[b] + m > 0 /\ p.total + t > 0

\* Its reserves and its liquidity change, and stay positive.
LEMMA MovedSound ==
  ASSUME NEW ch, NEW liq, NEW a, NEW n, NEW b, NEW m, NEW t, NEW new,
         PoolsSound(ch.pools, ch.next), liq \in DOMAIN ch.pools,
         Bears(ch.pools[liq], a, n, b, m, t), new = Moved(ch, liq, a, n, b, m, t)
  PROVE  /\ PoolsSound(new, ch.next)
         /\ DOMAIN new = DOMAIN ch.pools
         /\ \A l \in DOMAIN new : DOMAIN new[l].res = DOMAIN ch.pools[l].res
         /\ new[liq].total = ch.pools[liq].total + t
         /\ \A l \in DOMAIN new : l # liq => new[l] = ch.pools[l]
<1> DEFINE p == ch.pools[liq]
<1>0. /\ a # b /\ DOMAIN p.res = {a, b} /\ n \in Int /\ m \in Int /\ t \in Int
      /\ p.res[a] + n > 0 /\ p.res[b] + m > 0 /\ p.total + t > 0
  BY DEF Bears
<1>1. DOMAIN p = {"res", "total"} /\ p.total \in Nat /\ p.res[a] \in Nat /\ p.res[b] \in Nat
  BY <1>0 DEF PoolsSound
<1>2. DOMAIN new = DOMAIN ch.pools /\ \A l \in DOMAIN new : l # liq => new[l] = ch.pools[l]
  BY DEF Moved
<1>3. /\ DOMAIN new[liq] = {"res", "total"}
      /\ DOMAIN new[liq].res = {a, b}
      /\ new[liq].res[a] = p.res[a] + n
      /\ new[liq].res[b] = p.res[b] + m
      /\ new[liq].total = p.total + t
  BY <1>0, <1>1 DEF Moved
<1>4. new[liq].total \in Nat \ {0} /\ new[liq].res[a] \in Nat \ {0} /\ new[liq].res[b] \in Nat \ {0}
  BY <1>0, <1>1, <1>3
<1>5. \A l \in DOMAIN new : DOMAIN new[l].res = DOMAIN ch.pools[l].res
  BY <1>0, <1>2, <1>3
<1>6. PoolsSound(new, ch.next)
  <2>1. ASSUME NEW l \in DOMAIN new
        PROVE  /\ l \in 0..(ch.next - 1)
               /\ DOMAIN new[l] = {"res", "total"}
               /\ new[l].total \in Nat \ {0}
               /\ \E x, y \in 0..(ch.next - 1) : x # y /\ DOMAIN new[l].res = {x, y}
               /\ \A k \in DOMAIN new[l].res : new[l].res[k] \in Nat \ {0}
    <3>1. l \in 0..(ch.next - 1) /\ \E x, y \in 0..(ch.next - 1) : x # y /\ DOMAIN new[l].res = {x, y}
      BY <1>2, <1>5 DEF PoolsSound
    <3>2. CASE l = liq
      BY <1>0, <1>3, <1>4, <3>1, <3>2
    <3>3. CASE l # liq
      BY <1>2, <3>1, <3>3 DEF PoolsSound
    <3> QED
      BY <3>2, <3>3
  <2>2. \A k, l \in DOMAIN new : DOMAIN new[k].res = DOMAIN new[l].res => k = l
    BY <1>2, <1>5 DEF PoolsSound
  <2>3. GivenPool \in DOMAIN new => DOMAIN new[GivenPool].res = {Native, Given}
    BY <1>2, <1>5 DEF PoolsSound
  <2> QED
    BY <2>1, <2>2, <2>3 DEF PoolsSound
<1> QED
  BY <1>2, <1>3, <1>5, <1>6

\* new is pools and a pool of a and b under the next id.
Founded(pools, next, a, b, new) ==
  /\ a \in 0..(next - 1) /\ b \in 0..(next - 1) /\ a # b
  /\ \A l \in DOMAIN pools : DOMAIN pools[l].res # {a, b}
  /\ DOMAIN new = DOMAIN pools \cup {next} /\ \A l \in DOMAIN pools : new[l] = pools[l]
  /\ DOMAIN new[next] = {"res", "total"} /\ DOMAIN new[next].res = {a, b}
  /\ new[next].res[a] \in Nat \ {0} /\ new[next].res[b] \in Nat \ {0}
  /\ new[next].total \in Nat \ {0}

\* A pool that is new has a token that is new and a pair that had none.
LEMMA CreatedSound ==
  ASSUME NEW pools, NEW next, NEW a, NEW b, NEW new,
         PoolsSound(pools, next), Founded(pools, next, a, b, new)
  PROVE  /\ PoolsSound(new, next + 1)
         /\ next > GivenPool
         /\ \A l \in DOMAIN pools : l \in DOMAIN new /\ new[l] = pools[l]
<1>0. /\ a \in 0..(next - 1) /\ b \in 0..(next - 1) /\ a # b
      /\ \A l \in DOMAIN pools : DOMAIN pools[l].res # {a, b} /\ new[l] = pools[l]
      /\ DOMAIN new = DOMAIN pools \cup {next}
  BY DEF Founded
<1>1. next \in Nat /\ next > Wanted /\ next \notin DOMAIN pools
  BY DEF PoolsSound
<1>2. \A l \in DOMAIN pools : l \in DOMAIN new /\ l # next /\ new[l] = pools[l]
  BY <1>0, <1>1
<1>3. /\ DOMAIN new = DOMAIN pools \cup {next}
      /\ DOMAIN new[next] = {"res", "total"}
      /\ DOMAIN new[next].res = {a, b}
      /\ new[next].res[a] \in Nat \ {0}
      /\ new[next].res[b] \in Nat \ {0}
      /\ new[next].total \in Nat \ {0}
  BY DEF Founded
<1>4. ASSUME NEW l \in DOMAIN new
      PROVE  /\ l \in 0..next
             /\ DOMAIN new[l] = {"res", "total"}
             /\ new[l].total \in Nat \ {0}
             /\ \E x, y \in 0..next : x # y /\ DOMAIN new[l].res = {x, y}
             /\ \A k \in DOMAIN new[l].res : new[l].res[k] \in Nat \ {0}
  <2>1. \A x \in 0..(next - 1) : x \in 0..next
    BY <1>1
  <2>2. CASE l = next
    BY <1>0, <1>1, <1>3, <2>1, <2>2
  <2>3. CASE l # next
    <3>1. l \in DOMAIN pools /\ new[l] = pools[l]
      BY <1>2, <1>3, <2>3
    <3> QED
      BY <2>1, <3>1 DEF PoolsSound
  <2> QED
    BY <2>2, <2>3
<1>5. ASSUME NEW k \in DOMAIN new, NEW l \in DOMAIN new, DOMAIN new[k].res = DOMAIN new[l].res
      PROVE  k = l
  BY <1>0, <1>2, <1>3, <1>5 DEF PoolsSound
<1>6. GivenPool \in DOMAIN new => DOMAIN new[GivenPool].res = {Native, Given}
  BY <1>1, <1>2, <1>3 DEF PoolsSound, GivenPool, Wanted
<1>7. next + 1 \in Nat /\ next + 1 > Wanted /\ 0..(next + 1 - 1) = 0..next /\ next > GivenPool
  BY <1>1 DEF GivenPool, Wanted
<1> QED
  BY <1>2, <1>4, <1>5, <1>6, <1>7 DEF PoolsSound

\* Without the pool that is given the rest is as sound.
LEMMA WithoutSound ==
  ASSUME NEW pools, NEW next, PoolsSound(pools, next), NEW l
  PROVE  /\ PoolsSound(Without(pools, l), next)
         /\ \A k \in DOMAIN pools : k # l => k \in DOMAIN Without(pools, l) /\ Without(pools, l)[k] = pools[k]
         /\ l \notin DOMAIN Without(pools, l)
<1> DEFINE new == Without(pools, l)
<1>1. DOMAIN new = DOMAIN pools \ {l} /\ \A k \in DOMAIN new : new[k] = pools[k]
  BY DEF Without
<1> HIDE DEF new
<1>2. PoolsSound(new, next)
  BY <1>1 DEF PoolsSound
<1> QED
  BY <1>1, <1>2 DEF new

\* More liquidity of one pool.
LEMMA MintedSound ==
  ASSUME NEW pools, NEW next, PoolsSound(pools, next), NEW l \in DOMAIN pools, NEW n \in Nat,
         NEW new, new = [pools EXCEPT ![l].total = @ + n]
  PROVE  /\ PoolsSound(new, next)
         /\ DOMAIN new = DOMAIN pools
         /\ \A k \in DOMAIN pools : DOMAIN new[k].res = DOMAIN pools[k].res
         /\ new[l].total = pools[l].total + n
         /\ \A k \in DOMAIN pools : k # l => new[k] = pools[k]
<1>1. DOMAIN pools[l] = {"res", "total"} /\ pools[l].total \in Nat \ {0}
  BY DEF PoolsSound
<1>2. DOMAIN new = DOMAIN pools /\ \A k \in DOMAIN pools : k # l => new[k] = pools[k]
  OBVIOUS
<1>3. /\ DOMAIN new[l] = {"res", "total"}
      /\ new[l].res = pools[l].res
      /\ new[l].total = pools[l].total + n
  BY <1>1
<1>4. \A k \in DOMAIN pools : DOMAIN new[k] = {"res", "total"} /\ new[k].res = pools[k].res /\ new[k].total \in Nat \ {0}
  BY <1>1, <1>2, <1>3 DEF PoolsSound
<1>5. PoolsSound(new, next)
  BY <1>2, <1>4 DEF PoolsSound
<1> QED
  BY <1>2, <1>3, <1>4, <1>5

-----------------------------------------------------------------------------
\* Calls.

\* the calls that move no token
Quiet == {"tge", "issuance", "promote", "reserveVested", "addStaking", "setFee", "switch",
          "propose", "vote", "close", "veto"}

\* the calls that the set-ups make, on a ledger whose next token is next
Good(x, next) ==
  \/ x.op \in Quiet
  \/ x.op \in {"mint", "create", "rewardPool", "activate3", "vest"} /\ x.n \in Nat
  \/ x.op \in {"mintLiquidity", "mintVested", "activate"} /\ x.n \in Int
  \/ x.op = "bond" /\ x.n \in Nat /\ x.from \in {"free", "active"}
  \/ x.op = "burnLiquidity" /\ x.n \in Int /\ x.l = GivenPool
  \/ /\ x.op = "createPool" /\ x.n \in Int /\ x.m \in Int
     /\ x.a \in 0..(next - 1) /\ x.b \in 0..(next - 1)
  \/ x.op = "setMembers" /\ IsFiniteSet(x.members)

\* new is ch but for the fields in S
Same(ch, new, S) == DOMAIN new = LedgerFields /\ \A f \in LedgerFields \ S : new[f] = ch[f]

\* the fields that hold amounts
AmountFields == {"free", "active", "active3", "vesting", "unspent", "bonded"}

\* A ledger is sound when what has changed is.
LEMMA SoundChange ==
  ASSUME NEW ch, Sound(ch), NEW new, NEW S, Same(ch, new, S),
         \A f \in AmountFields : f \in S => Naturals(new[f]),
         "active3" \in S => IsFiniteSet(Coins(new.active3, DOMAIN new.active3)),
         "pools" \in S \/ "next" \in S => PoolsSound(new.pools, new.next),
         S \cap {"free", "active", "pools"} # {} => Backed(new.free, new.active, new.pools),
         "members" \in S \/ "ayes" \in S => CouncilSound(new.members, new.ayes),
         "done" \in S => new.done \subseteq {"tge", "issuance"}
  PROVE  Sound(new)
<1>1. \A f \in AmountFields : Naturals(new[f])
  <2> TAKE f \in AmountFields
  <2>1. f \in LedgerFields /\ Naturals(ch[f])
    BY DEF AmountFields, LedgerFields, Sound
  <2> QED
    BY <2>1 DEF Same
<1>2. IsFiniteSet(Coins(new.active3, DOMAIN new.active3))
  BY DEF Same, LedgerFields, Sound
<1>3. PoolsSound(new.pools, new.next)
  BY DEF Same, LedgerFields, Sound
<1>4. Backed(new.free, new.active, new.pools)
  BY DEF Same, LedgerFields, Sound
<1>5. CouncilSound(new.members, new.ayes)
  BY DEF Same, LedgerFields, Sound
<1>6. new.done \subseteq {"tge", "issuance"}
  BY DEF Same, LedgerFields, Sound
<1> QED
  BY <1>1, <1>2, <1>3, <1>4, <1>5, <1>6 DEF Same, Sound, AmountFields

\* A payment: what is left is counted, and the coins of the given pool get fewer.
LEMMA PayHolds ==
  ASSUME NEW f, Naturals(f), IsFiniteSet(GivenCoins(f)), NEW u, NEW t, NEW n \in Nat, Held(f, <<u, t>>) >= n
  PROVE  /\ Naturals(Pay(f, u, t, n)) /\ IsFiniteSet(GivenCoins(Pay(f, u, t, n)))
         /\ Cardinality(GivenCoins(f)) \in Nat /\ Cardinality(GivenCoins(Pay(f, u, t, n))) \in Nat
         /\ Cardinality(GivenCoins(Pay(f, u, t, n))) <= Cardinality(GivenCoins(f))
         /\ Cardinality(GivenCoins(Pay(f, u, t, n)))
              = Cardinality(GivenCoins(f)) - (IF t = GivenPool THEN n ELSE 0)
         /\ Held(Pay(f, u, t, n), <<u, t>>) = Held(f, <<u, t>>) - n
         /\ \A x : x # <<u, t>> => Held(Pay(f, u, t, n), x) = Held(f, x)
<1> DEFINE k == <<u, t>>  d == -n  g == Plus(f, k, d)
<1>1. Held(f, k) \in Nat /\ d \in Int /\ Held(f, k) + d \in Nat /\ Held(f, k) + d = Held(f, k) - n
  BY HeldNatural
<1>2. k[2] = t /\ \A c \in Nat : c + d = c - n
  OBVIOUS
<1> HIDE DEF k, d
<1>3. Naturals(g) /\ Held(g, k) = Held(f, k) + d /\ \A x : x # k => Held(g, x) = Held(f, x)
  <2>1. Held(f, k) + d \in Nat /\ d \in Int
    BY <1>1
  <2> QED
    BY <2>1, PlusHolds
<1>4. /\ IsFiniteSet(GivenCoins(g)) /\ Cardinality(GivenCoins(f)) \in Nat
      /\ Cardinality(GivenCoins(g)) = Cardinality(GivenCoins(f)) + (IF k[2] = GivenPool THEN d ELSE 0)
  BY <1>1, GivenCoinsPlus
<1>5. Pay(f, u, t, n) = g
  BY DEF Pay, k, d
<1> HIDE DEF g
<1>6. Cardinality(GivenCoins(g)) \in Nat
  BY <1>4, FS_CardinalityType
<1>7. /\ Cardinality(GivenCoins(g)) <= Cardinality(GivenCoins(f))
      /\ Cardinality(GivenCoins(g)) = Cardinality(GivenCoins(f)) - (IF t = GivenPool THEN n ELSE 0)
  BY <1>2, <1>4, <1>6
<1>8. Held(g, k) = Held(f, k) - n
  BY <1>1, <1>3
<1> QED
  BY <1>3, <1>4, <1>5, <1>6, <1>7, <1>8 DEF k

\* A gift likewise.
LEMMA GiveHolds ==
  ASSUME NEW f, Naturals(f), IsFiniteSet(GivenCoins(f)), NEW k, NEW n \in Nat
  PROVE  /\ Naturals(Plus(f, k, n)) /\ IsFiniteSet(GivenCoins(Plus(f, k, n)))
         /\ Cardinality(GivenCoins(f)) \in Nat /\ Cardinality(GivenCoins(Plus(f, k, n))) \in Nat
         /\ Cardinality(GivenCoins(Plus(f, k, n)))
              = Cardinality(GivenCoins(f)) + (IF k[2] = GivenPool THEN n ELSE 0)
         /\ Held(Plus(f, k, n), k) = Held(f, k) + n
         /\ \A x : x # k => Held(Plus(f, k, n), x) = Held(f, x)
<1> DEFINE g == Plus(f, k, n)
<1>1. Held(f, k) \in Nat /\ Held(f, k) + n \in Nat /\ n \in Int
  BY HeldNatural
<1>2. Naturals(g) /\ Held(g, k) = Held(f, k) + n /\ \A x : x # k => Held(g, x) = Held(f, x)
  BY <1>1, PlusHolds
<1>3. /\ IsFiniteSet(GivenCoins(g)) /\ Cardinality(GivenCoins(f)) \in Nat
      /\ Cardinality(GivenCoins(g)) = Cardinality(GivenCoins(f)) + (IF k[2] = GivenPool THEN n ELSE 0)
  BY <1>1, GivenCoinsPlus
<1> HIDE DEF g
<1>4. Cardinality(GivenCoins(g)) \in Nat
  BY <1>3, FS_CardinalityType
<1> QED
  BY <1>2, <1>3, <1>4 DEF g

-----------------------------------------------------------------------------
\* What each call keeps.

\* Calls that move no token: registers, the fee and the council.
LEMMA QuietKeeps ==
  ASSUME NEW ch, Sound(ch), NEW x, x.op \in Quiet, x.op # "reserveVested", Fits(ch, x)
  PROVE  Sound(After(ch, x)) /\ Kept(ch, After(ch, x))
<1> DEFINE new == After(ch, x)
<1>0. DOMAIN ch = LedgerFields /\ CouncilSound(ch.members, ch.ayes) /\ ch.done \subseteq {"tge", "issuance"}
  BY DEF Sound
<1>1. \E S \in SUBSET {"done", "promoted", "stakable", "fee", "maintenance", "ayes"} :
        /\ Same(ch, new, S)
        /\ "done" \in S => new.done \subseteq {"tge", "issuance"}
        /\ "ayes" \in S => CouncilSound(new.members, new.ayes)
        /\ ch.promoted \subseteq new.promoted
  <2>1. CASE x.op \in {"tge", "issuance"}
    <3>1. new = [ch EXCEPT !.done = @ \cup {x.op}]
      BY <2>1 DEF After
    <3>2. Same(ch, new, {"done"}) /\ new.done \subseteq {"tge", "issuance"} /\ new.promoted = ch.promoted
      BY <1>0, <2>1, <3>1 DEF Same, LedgerFields
    <3> QED
      BY <3>2
  <2>2. CASE x.op = "promote"
    <3>1. new = [ch EXCEPT !.promoted = @ \cup {x.l}]
      BY <2>2 DEF After
    <3>2. Same(ch, new, {"promoted"}) /\ ch.promoted \subseteq new.promoted
      BY <1>0, <3>1 DEF Same, LedgerFields
    <3> QED
      BY <3>2
  <2>3. CASE x.op = "addStaking"
    <3>1. new = [ch EXCEPT !.stakable = @ \cup {x.l}]
      BY <2>3 DEF After
    <3>2. Same(ch, new, {"stakable"}) /\ new.promoted = ch.promoted
      BY <1>0, <3>1 DEF Same, LedgerFields
    <3> QED
      BY <3>2
  <2>4. CASE x.op = "setFee"
    <3>1. new = [ch EXCEPT !.fee = x.fee]
      BY <2>4 DEF After
    <3>2. Same(ch, new, {"fee"}) /\ new.promoted = ch.promoted
      BY <1>0, <3>1 DEF Same, LedgerFields
    <3> QED
      BY <3>2
  <2>5. CASE x.op = "switch"
    <3>1. new = [ch EXCEPT !.maintenance = x.on]
      BY <2>5 DEF After
    <3>2. Same(ch, new, {"maintenance"}) /\ new.promoted = ch.promoted
      BY <1>0, <3>1 DEF Same, LedgerFields
    <3> QED
      BY <3>2
  <2>6. CASE x.op = "propose"
    <3>1. new = [ch EXCEPT !.ayes = [h \in DOMAIN @ \cup {x.h} |-> IF h = x.h THEN {} ELSE @[h]]]
      BY <2>6 DEF After
    <3>2. /\ Same(ch, new, {"ayes"}) /\ new.promoted = ch.promoted /\ new.members = ch.members
          /\ new.ayes = [h \in DOMAIN ch.ayes \cup {x.h} |-> IF h = x.h THEN {} ELSE ch.ayes[h]]
      BY <1>0, <3>1 DEF Same, LedgerFields
    <3>3. CouncilSound(new.members, new.ayes)
      BY <1>0, <3>2 DEF CouncilSound
    <3> QED
      BY <3>2, <3>3
  <2>7. CASE x.op = "vote"
    <3>1. new = [ch EXCEPT !.ayes[x.h] = @ \cup {x.u}] /\ x.u \in ch.members
      BY <2>7 DEF After, Fits
    <3>2. /\ Same(ch, new, {"ayes"}) /\ new.promoted = ch.promoted /\ new.members = ch.members
          /\ new.ayes = [ch.ayes EXCEPT ![x.h] = @ \cup {x.u}]
      BY <1>0, <3>1 DEF Same, LedgerFields
    <3>3. CouncilSound(new.members, new.ayes)
      BY <1>0, <3>1, <3>2 DEF CouncilSound
    <3> QED
      BY <3>2, <3>3
  <2>8. CASE x.op \in {"close", "veto"}
    <3>1. new = [ch EXCEPT !.ayes = Without(@, x.h)]
      BY <2>8 DEF After
    <3>2. /\ Same(ch, new, {"ayes"}) /\ new.promoted = ch.promoted /\ new.members = ch.members
          /\ new.ayes = Without(ch.ayes, x.h)
      BY <1>0, <3>1 DEF Same, LedgerFields
    <3>3. CouncilSound(new.members, new.ayes)
      BY <1>0, <3>2 DEF CouncilSound, Without
    <3> QED
      BY <3>2, <3>3
  <2> QED
    BY <2>1, <2>2, <2>3, <2>4, <2>5, <2>6, <2>7, <2>8 DEF Quiet
<1> HIDE DEF new
<1>2. PICK S \in SUBSET {"done", "promoted", "stakable", "fee", "maintenance", "ayes"} :
        /\ Same(ch, new, S)
        /\ "done" \in S => new.done \subseteq {"tge", "issuance"}
        /\ "ayes" \in S => CouncilSound(new.members, new.ayes)
        /\ ch.promoted \subseteq new.promoted
  BY <1>1
<1>3. S \cap (AmountFields \cup {"pools", "next", "members"}) = {}
  BY <1>2 DEF AmountFields
<1>4. Sound(new)
  BY <1>2, <1>3, SoundChange DEF AmountFields
<1>5. new.next = ch.next /\ new.pools = ch.pools
  BY <1>2, <1>3 DEF Same, LedgerFields
<1>6. Kept(ch, new)
  BY <1>2, <1>5 DEF Kept, Sound, PoolsSound
<1> QED
  BY <1>4, <1>6 DEF new

\* New members: whoever is none loses its votes.
LEMMA SetMembersKeeps ==
  ASSUME NEW ch, Sound(ch), NEW x, x.op = "setMembers", IsFiniteSet(x.members)
  PROVE  Sound(After(ch, x)) /\ Kept(ch, After(ch, x))
<1> DEFINE new == After(ch, x)
<1>0. DOMAIN ch = LedgerFields
  BY DEF Sound
<1>1. new = [ch EXCEPT !.members = x.members, !.ayes = [h \in DOMAIN @ |-> @[h] \cap x.members]]
  BY DEF After
<1> HIDE DEF new
<1>2. /\ Same(ch, new, {"members", "ayes"}) /\ new.next = ch.next /\ new.pools = ch.pools
      /\ new.promoted = ch.promoted
      /\ new.members = x.members
      /\ new.ayes = [h \in DOMAIN ch.ayes |-> ch.ayes[h] \cap x.members]
  BY <1>0, <1>1 DEF Same, LedgerFields
<1>3. CouncilSound(new.members, new.ayes)
  BY <1>2 DEF CouncilSound
<1>4. Sound(new)
  BY <1>2, <1>3, SoundChange DEF AmountFields
<1>5. Kept(ch, new)
  BY <1>2 DEF Kept, Sound, PoolsSound
<1> QED
  BY <1>4, <1>5 DEF new

\* The pools stand behind tokens that get fewer, and behind more when they grow as much.
LEMMA BackedBy ==
  ASSUME NEW free, NEW active, NEW pools, Backed(free, active, pools),
         NEW free2, NEW active2, NEW pools2, NEW n \in Int,
         IsFiniteSet(GivenCoins(free2)), IsFiniteSet(GivenCoins(active2)),
         GivenPool \in DOMAIN pools2 =>
           /\ GivenPool \in DOMAIN pools
           /\ pools[GivenPool].total \in Int
           /\ pools2[GivenPool].total = pools[GivenPool].total + n
           /\ Cardinality(GivenCoins(free2)) + Cardinality(GivenCoins(active2))
                <= Cardinality(GivenCoins(free)) + Cardinality(GivenCoins(active)) + n
  PROVE  Backed(free2, active2, pools2)
<1>1. Cardinality(GivenCoins(free)) \in Nat /\ Cardinality(GivenCoins(active)) \in Nat
  BY FS_CardinalityType DEF Backed
<1>2. Cardinality(GivenCoins(free2)) \in Nat /\ Cardinality(GivenCoins(active2)) \in Nat
  BY FS_CardinalityType
<1>3. ASSUME GivenPool \in DOMAIN pools2
      PROVE  Cardinality(GivenCoins(free2)) + Cardinality(GivenCoins(active2)) <= pools2[GivenPool].total
  BY <1>1, <1>2, <1>3 DEF Backed
<1> QED
  BY <1>3 DEF Backed

\* A mint of liquidity dilutes its pool, so that no pool backs less than there is.
LEMMA MintKeeps ==
  ASSUME NEW ch, Sound(ch), NEW x, x.op = "mint", x.n \in Nat
  PROVE  Sound(After(ch, x)) /\ Kept(ch, After(ch, x))
<1> DEFINE new == After(ch, x)  n == x.n  k == <<x.u, x.t>>
<1>1. /\ DOMAIN ch = LedgerFields /\ Naturals(ch.free) /\ PoolsSound(ch.pools, ch.next)
      /\ Backed(ch.free, ch.active, ch.pools)
  BY DEF Sound
<1>2. new = [ch EXCEPT !.free = Plus(@, k, n), !.pools = Diluted(@, x.t, n)]
  BY DEF After
<1> HIDE DEF new
<1>3. /\ Same(ch, new, {"free", "pools"}) /\ new.free = Plus(ch.free, k, n)
      /\ new.pools = Diluted(ch.pools, x.t, n)
      /\ new.next = ch.next /\ new.promoted = ch.promoted /\ new.active = ch.active
  BY <1>1, <1>2 DEF Same, LedgerFields
<1>k. k[2] = x.t
  OBVIOUS
<1> HIDE DEF k
<1>4. /\ Naturals(new.free) /\ IsFiniteSet(GivenCoins(new.free))
      /\ Cardinality(GivenCoins(ch.free)) \in Nat
      /\ Cardinality(GivenCoins(new.free)) = Cardinality(GivenCoins(ch.free)) + (IF x.t = GivenPool THEN n ELSE 0)
  BY <1>1, <1>3, <1>k, GiveHolds DEF Backed
<1>5. /\ PoolsSound(new.pools, new.next)
      /\ DOMAIN new.pools = DOMAIN ch.pools
      /\ \A l \in DOMAIN ch.pools : DOMAIN new.pools[l].res = DOMAIN ch.pools[l].res
      /\ GivenPool \in DOMAIN ch.pools =>
           new.pools[GivenPool].total = ch.pools[GivenPool].total + (IF x.t = GivenPool THEN n ELSE 0)
  <2>1. CASE x.t \in DOMAIN ch.pools
    <3>1. /\ PoolsSound(new.pools, ch.next)
          /\ DOMAIN new.pools = DOMAIN ch.pools
          /\ \A l \in DOMAIN ch.pools : DOMAIN new.pools[l].res = DOMAIN ch.pools[l].res
          /\ new.pools[x.t].total = ch.pools[x.t].total + n
          /\ \A l \in DOMAIN ch.pools : l # x.t => new.pools[l] = ch.pools[l]
      BY <1>1, <1>3, <2>1, MintedSound DEF Diluted
    <3>2. CASE x.t = GivenPool
      BY <1>3, <3>1, <3>2
    <3>3. CASE x.t # GivenPool
      BY <1>1, <1>3, <3>1, <3>3 DEF PoolsSound
    <3> QED
      BY <3>2, <3>3
  <2>2. CASE x.t \notin DOMAIN ch.pools
    BY <1>1, <1>3, <2>2 DEF PoolsSound, Diluted
  <2> QED
    BY <2>1, <2>2
<1>6. Backed(new.free, new.active, new.pools)
  <2> DEFINE d == IF x.t = GivenPool THEN n ELSE 0
  <2>1. d \in Int /\ IsFiniteSet(GivenCoins(new.active)) /\ Cardinality(GivenCoins(ch.active)) \in Nat
    BY <1>1, <1>3, FS_CardinalityType DEF Backed
  <2>2. /\ Cardinality(GivenCoins(new.free)) = Cardinality(GivenCoins(ch.free)) + d
        /\ GivenPool \in DOMAIN ch.pools => new.pools[GivenPool].total = ch.pools[GivenPool].total + d
    BY <1>4, <1>5
  <2> HIDE DEF d
  <2>3. Cardinality(GivenCoins(new.free)) + Cardinality(GivenCoins(new.active))
          <= Cardinality(GivenCoins(ch.free)) + Cardinality(GivenCoins(ch.active)) + d
    BY <1>3, <1>4, <2>1, <2>2
  <2>4. GivenPool \in DOMAIN ch.pools => ch.pools[GivenPool].total \in Int
    BY <1>1 DEF PoolsSound
  <2> QED
    BY <1>1, <1>4, <1>5, <2>1, <2>2, <2>3, <2>4, BackedBy
<1>7. Sound(new)
  BY <1>3, <1>4, <1>5, <1>6, SoundChange DEF AmountFields
<1>8. Kept(ch, new)
  BY <1>1, <1>3, <1>5 DEF Kept, PoolsSound
<1> QED
  BY <1>7, <1>8 DEF new

\* A token that is created has the next id, which nobody holds and no pool has.
LEMMA CreateKeeps ==
  ASSUME NEW ch, Sound(ch), NEW x, x.op = "create", x.n \in Nat
  PROVE  Sound(After(ch, x)) /\ Kept(ch, After(ch, x)) /\ After(ch, x).next = ch.next + 1
<1> DEFINE new == After(ch, x)  n == x.n  k == <<x.u, ch.next>>
<1>1. /\ DOMAIN ch = LedgerFields /\ Naturals(ch.free) /\ PoolsSound(ch.pools, ch.next)
      /\ Backed(ch.free, ch.active, ch.pools)
  BY DEF Sound
<1>2. new = [ch EXCEPT !.free = Plus(@, k, n), !.next = @ + 1]
  BY DEF After
<1> HIDE DEF new
<1>3. /\ Same(ch, new, {"free", "next"}) /\ new.free = Plus(ch.free, k, n)
      /\ new.next = ch.next + 1 /\ new.promoted = ch.promoted /\ new.active = ch.active
      /\ new.pools = ch.pools
  BY <1>1, <1>2 DEF Same, LedgerFields
<1>k. k[2] = ch.next
  OBVIOUS
<1> HIDE DEF k
<1>4. ch.next # GivenPool
  BY <1>1 DEF PoolsSound, Wanted, GivenPool
<1>5. /\ Naturals(new.free) /\ IsFiniteSet(GivenCoins(new.free))
      /\ Cardinality(GivenCoins(new.free)) = Cardinality(GivenCoins(ch.free))
  <2>1. IsFiniteSet(GivenCoins(ch.free)) /\ Naturals(ch.free) /\ n \in Nat
    BY <1>1 DEF Backed
  <2>2. /\ Naturals(new.free) /\ IsFiniteSet(GivenCoins(new.free))
        /\ Cardinality(GivenCoins(ch.free)) \in Nat
        /\ Cardinality(GivenCoins(new.free)) = Cardinality(GivenCoins(ch.free)) + (IF ch.next = GivenPool THEN n ELSE 0)
    BY <1>3, <1>k, <2>1, GiveHolds
  <2> QED
    BY <1>4, <2>2
<1>6. Backed(new.free, new.active, new.pools)
  BY <1>1, <1>3, <1>5 DEF Backed
<1>7. PoolsSound(new.pools, new.next) /\ Kept(ch, new)
  <2>1. ch.next \in Nat /\ ch.next + 1 \in Nat /\ ch.next <= ch.next + 1 /\ \A l \in 0..(ch.next - 1) : l \in 0..(ch.next + 1 - 1)
    BY <1>1 DEF PoolsSound
  <2>2. ch.next + 1 > Wanted
    BY <1>1 DEF PoolsSound, Wanted
  <2>3. \A l \in DOMAIN new.pools : l \in 0..(new.next - 1) /\ \E a, b \in 0..(new.next - 1) : a # b /\ DOMAIN new.pools[l].res = {a, b}
    BY <1>1, <1>3, <2>1 DEF PoolsSound
  <2> QED
    BY <1>1, <1>3, <2>1, <2>2, <2>3 DEF PoolsSound, Kept
<1>8. Sound(new)
  BY <1>3, <1>5, <1>6, <1>7, SoundChange DEF AmountFields
<1> QED
  BY <1>3, <1>7, <1>8 DEF new

\* Calls that only move tokens that are there.
LEMMA PaidKeeps ==
  ASSUME NEW ch, Sound(ch), NEW new, NEW S \in SUBSET (AmountFields \cup {"schedules"}), Same(ch, new, S),
         Naturals(new.free), IsFiniteSet(GivenCoins(new.free)),
         Naturals(new.active), IsFiniteSet(GivenCoins(new.active)),
         Cardinality(GivenCoins(new.free)) + Cardinality(GivenCoins(new.active))
           <= Cardinality(GivenCoins(ch.free)) + Cardinality(GivenCoins(ch.active)),
         \A f \in {"active3", "vesting", "unspent", "bonded"} : f \in S => Naturals(new[f]),
         "active3" \in S => IsFiniteSet(Coins(new.active3, DOMAIN new.active3))
  PROVE  Sound(new) /\ Kept(ch, new)
<1>1. new.pools = ch.pools /\ new.next = ch.next /\ new.promoted = ch.promoted
  BY DEF Same, LedgerFields, AmountFields
<1>2. PoolsSound(ch.pools, ch.next) /\ Backed(ch.free, ch.active, ch.pools)
  BY DEF Sound
<1>3. Backed(new.free, new.active, new.pools)
  <2>1. /\ Cardinality(GivenCoins(new.free)) \in Nat /\ Cardinality(GivenCoins(new.active)) \in Nat
        /\ Cardinality(GivenCoins(ch.free)) \in Nat /\ Cardinality(GivenCoins(ch.active)) \in Nat
    BY <1>2, FS_CardinalityType DEF Backed
  <2>2. GivenPool \in DOMAIN ch.pools => ch.pools[GivenPool].total \in Int
    BY <1>2 DEF PoolsSound
  <2> QED
    BY <1>1, <1>2, <2>1, <2>2 DEF Backed
<1>4. \A f \in AmountFields : f \in S => Naturals(new[f])
  BY DEF AmountFields
<1>5. S \cap {"pools", "next", "members", "ayes", "done"} = {}
  BY DEF AmountFields
<1>6. Sound(new)
  BY <1>3, <1>4, <1>5, SoundChange
<1>7. Kept(ch, new)
  BY <1>1, <1>2 DEF Kept, PoolsSound
<1> QED
  BY <1>6, <1>7

\* Amounts stay natural when what is added leaves one that is.
LEMMA PlusNaturals ==
  ASSUME NEW f, Naturals(f), NEW k, NEW n \in Int, Held(f, k) + n \in Nat, NEW g, g = Plus(f, k, n)
  PROVE  Naturals(g) /\ DOMAIN g = DOMAIN f \cup {k}
BY PlusHolds

\* A schedule takes its reward from its creator.
LEMMA RewardPoolKeeps ==
  ASSUME NEW ch, Sound(ch), NEW x, x.op = "rewardPool", x.n \in Nat, Fits(ch, x)
  PROVE  Sound(After(ch, x)) /\ Kept(ch, After(ch, x))
<1> DEFINE new == After(ch, x)
<1>1. /\ DOMAIN ch = LedgerFields /\ Naturals(ch.free) /\ Naturals(ch.active)
      /\ IsFiniteSet(GivenCoins(ch.free)) /\ IsFiniteSet(GivenCoins(ch.active))
  BY DEF Sound, Backed
<1>2. new = [ch EXCEPT !.free = Pay(@, x.u, x.t, x.n), !.schedules = @ \cup {<<LiqId(ch, x.a, x.b), x.t>>}]
  BY DEF After
<1>3. Held(ch.free, <<x.u, x.t>>) >= x.n
  BY DEF Fits, Has
<1> HIDE DEF new
<1>4. /\ Same(ch, new, {"free", "schedules"}) /\ new.free = Pay(ch.free, x.u, x.t, x.n) /\ new.active = ch.active
  BY <1>1, <1>2 DEF Same, LedgerFields
<1>5. /\ Naturals(new.free) /\ IsFiniteSet(GivenCoins(new.free))
      /\ Cardinality(GivenCoins(new.free)) \in Nat /\ Cardinality(GivenCoins(ch.free)) \in Nat
      /\ Cardinality(GivenCoins(new.free)) <= Cardinality(GivenCoins(ch.free))
  BY <1>1, <1>3, <1>4, PayHolds
<1>6. Cardinality(GivenCoins(ch.active)) \in Nat
  BY <1>1, FS_CardinalityType
<1>7. Sound(new) /\ Kept(ch, new)
  BY <1>1, <1>4, <1>5, <1>6, PaidKeeps DEF AmountFields
<1> QED
  BY <1>7 DEF new

\* Liquidity that is activated is not free any more; the two together are as much.
LEMMA ActivateKeeps ==
  ASSUME NEW ch, Sound(ch), NEW x, x.op = "activate", x.n \in Int, Fits(ch, x)
  PROVE  Sound(After(ch, x)) /\ Kept(ch, After(ch, x))
<1> DEFINE new == After(ch, x)  k == <<x.u, x.l>>
<1>1. /\ DOMAIN ch = LedgerFields /\ Naturals(ch.free) /\ Naturals(ch.active)
      /\ IsFiniteSet(GivenCoins(ch.free)) /\ IsFiniteSet(GivenCoins(ch.active))
  BY DEF Sound, Backed
<1>2. new = [ch EXCEPT !.free = Pay(@, x.u, x.l, x.n), !.active = Plus(@, k, x.n)]
  BY DEF After
<1>3. Held(ch.free, <<x.u, x.l>>) >= x.n /\ x.n \in Nat
  BY DEF Fits, Has
<1>k. k[2] = x.l
  OBVIOUS
<1> HIDE DEF new, k
<1>4. /\ Same(ch, new, {"free", "active"}) /\ new.free = Pay(ch.free, x.u, x.l, x.n)
      /\ new.active = Plus(ch.active, k, x.n)
  BY <1>1, <1>2 DEF Same, LedgerFields
<1>5. /\ Naturals(new.free) /\ IsFiniteSet(GivenCoins(new.free)) /\ Cardinality(GivenCoins(ch.free)) \in Nat
      /\ Cardinality(GivenCoins(new.free)) = Cardinality(GivenCoins(ch.free)) - (IF x.l = GivenPool THEN x.n ELSE 0)
  BY <1>1, <1>3, <1>4, PayHolds
<1>6. /\ Naturals(new.active) /\ IsFiniteSet(GivenCoins(new.active)) /\ Cardinality(GivenCoins(ch.active)) \in Nat
      /\ Cardinality(GivenCoins(new.active)) = Cardinality(GivenCoins(ch.active)) + (IF x.l = GivenPool THEN x.n ELSE 0)
  BY <1>1, <1>3, <1>4, <1>k, GiveHolds
<1>7. Cardinality(GivenCoins(new.free)) + Cardinality(GivenCoins(new.active))
        <= Cardinality(GivenCoins(ch.free)) + Cardinality(GivenCoins(ch.active))
  BY <1>3, <1>5, <1>6
<1>8. Sound(new) /\ Kept(ch, new)
  BY <1>4, <1>5, <1>6, <1>7, PaidKeeps DEF AmountFields
<1> QED
  BY <1>8 DEF new

\* Liquidity can be activated for several rewards and stays free; no more of it is
\* active for one than is there.
LEMMA Activate3Keeps ==
  ASSUME NEW ch, Sound(ch), NEW x, x.op = "activate3", x.n \in Nat, Fits(ch, x)
  PROVE  Sound(After(ch, x)) /\ Kept(ch, After(ch, x))
<1> DEFINE new == After(ch, x)  k == <<x.u, x.l, x.t>>
<1>1. /\ DOMAIN ch = LedgerFields /\ Naturals(ch.free) /\ Naturals(ch.active) /\ Naturals(ch.active3)
      /\ IsFiniteSet(GivenCoins(ch.free)) /\ IsFiniteSet(GivenCoins(ch.active))
      /\ IsFiniteSet(Coins(ch.active3, DOMAIN ch.active3))
  BY DEF Sound, Backed
<1>2. new = [ch EXCEPT !.free = Pay(@, x.u, x.l, x.n), !.active3 = Plus(@, k, x.n)]
  BY DEF After
<1>3. Held(ch.free, <<x.u, x.l>>) >= x.n
  BY DEF Fits, Has
<1> HIDE DEF new, k
<1>4. /\ Same(ch, new, {"free", "active3"}) /\ new.free = Pay(ch.free, x.u, x.l, x.n)
      /\ new.active = ch.active /\ new.active3 = Plus(ch.active3, k, x.n)
  BY <1>1, <1>2 DEF Same, LedgerFields
<1>5. /\ Naturals(new.free) /\ IsFiniteSet(GivenCoins(new.free))
      /\ Cardinality(GivenCoins(new.free)) \in Nat /\ Cardinality(GivenCoins(ch.free)) \in Nat
      /\ Cardinality(GivenCoins(new.free)) <= Cardinality(GivenCoins(ch.free))
  BY <1>1, <1>3, <1>4, PayHolds
<1>6. Cardinality(GivenCoins(ch.active)) \in Nat
  BY <1>1, FS_CardinalityType
<1>7. Held(ch.active3, k) + x.n \in Nat /\ x.n \in Int
  BY <1>1, HeldNatural
<1>8. Naturals(new.active3) /\ DOMAIN new.active3 = DOMAIN ch.active3 \cup {k}
  <2>1. Naturals(ch.active3) /\ new.active3 = Plus(ch.active3, k, x.n)
    BY <1>1, <1>4
  <2> QED
    BY <1>7, <2>1, PlusNaturals
<1>9. IsFiniteSet(Coins(new.active3, DOMAIN new.active3))
  <2> DEFINE K == DOMAIN ch.active3
  <2>1. K \in SUBSET DOMAIN ch.active3 /\ (k \in DOMAIN ch.active3 => k \in K) /\ IsFiniteSet(Coins(ch.active3, K))
    BY <1>1
  <2> HIDE DEF K
  <2>2. IsFiniteSet(Coins(Plus(ch.active3, k, x.n), K \cup {k}))
    BY <1>1, <1>7, <2>1, CoinsPlus
  <2> QED
    BY <1>4, <1>8, <2>2 DEF K
<1>10. Sound(new) /\ Kept(ch, new)
  BY <1>1, <1>4, <1>5, <1>6, <1>8, <1>9, PaidKeeps DEF AmountFields
<1> QED
  BY <1>10 DEF new

\* Tokens that vest come from the sender's.
LEMMA VestKeeps ==
  ASSUME NEW ch, Sound(ch), NEW x, x.op = "vest", x.n \in Nat, Fits(ch, x)
  PROVE  Sound(After(ch, x)) /\ Kept(ch, After(ch, x))
<1> DEFINE new == After(ch, x)  k == <<x.u, Native>>
<1>1. /\ DOMAIN ch = LedgerFields /\ Naturals(ch.free) /\ Naturals(ch.active) /\ Naturals(ch.vesting)
      /\ IsFiniteSet(GivenCoins(ch.free)) /\ IsFiniteSet(GivenCoins(ch.active))
  BY DEF Sound, Backed
<1>2. new = [ch EXCEPT !.free = Pay(@, x.from, Native, x.n), !.vesting = Plus(@, k, x.n)]
  BY DEF After
<1>3. Held(ch.free, <<x.from, Native>>) >= x.n
  BY DEF Fits, Has
<1> HIDE DEF new, k
<1>4. /\ Same(ch, new, {"free", "vesting"}) /\ new.free = Pay(ch.free, x.from, Native, x.n)
      /\ new.active = ch.active /\ new.vesting = Plus(ch.vesting, k, x.n)
  BY <1>1, <1>2 DEF Same, LedgerFields
<1>5. /\ Naturals(new.free) /\ IsFiniteSet(GivenCoins(new.free))
      /\ Cardinality(GivenCoins(new.free)) \in Nat /\ Cardinality(GivenCoins(ch.free)) \in Nat
      /\ Cardinality(GivenCoins(new.free)) <= Cardinality(GivenCoins(ch.free))
  BY <1>1, <1>3, <1>4, PayHolds
<1>6. Cardinality(GivenCoins(ch.active)) \in Nat
  BY <1>1, FS_CardinalityType
<1>7. Held(ch.vesting, k) + x.n \in Nat /\ x.n \in Int
  BY <1>1, HeldNatural
<1>8. Naturals(new.vesting)
  BY <1>1, <1>4, <1>7, PlusNaturals
<1>9. Sound(new) /\ Kept(ch, new)
  BY <1>1, <1>4, <1>5, <1>6, <1>8, PaidKeeps DEF AmountFields
<1> QED
  BY <1>9 DEF new

\* What vests is reserved in full.
LEMMA ReserveVestedKeeps ==
  ASSUME NEW ch, Sound(ch), NEW x, x.op = "reserveVested"
  PROVE  Sound(After(ch, x)) /\ Kept(ch, After(ch, x))
<1> DEFINE new == After(ch, x)  k == <<x.u, x.l>>  h == Held(ch.vesting, k)  d == -h
<1>1. /\ DOMAIN ch = LedgerFields /\ Naturals(ch.free) /\ Naturals(ch.active)
      /\ Naturals(ch.vesting) /\ Naturals(ch.unspent)
      /\ IsFiniteSet(GivenCoins(ch.free)) /\ IsFiniteSet(GivenCoins(ch.active))
  BY DEF Sound, Backed
<1>2. new = [ch EXCEPT !.vesting = Plus(@, k, -Held(@, k)), !.unspent = Plus(@, k, h)]
  BY DEF After
<1>3. h \in Nat /\ h \in Int /\ d \in Int /\ h + d \in Nat
  <2>1. h \in Nat
    BY <1>1, HeldNatural
  <2> HIDE DEF h
  <2> QED
    BY <2>1
<1> HIDE DEF new, k
<1>4. /\ Same(ch, new, {"vesting", "unspent"}) /\ new.vesting = Plus(ch.vesting, k, d)
      /\ new.unspent = Plus(ch.unspent, k, h) /\ new.free = ch.free /\ new.active = ch.active
  BY <1>1, <1>2 DEF Same, LedgerFields
<1>5. Held(ch.unspent, k) + h \in Nat
  <2>1. Held(ch.unspent, k) \in Nat
    BY <1>1, HeldNatural
  <2> HIDE DEF h
  <2> QED
    BY <1>3, <2>1
<1>6. Naturals(new.vesting)
  <2> HIDE DEF d
  <2> QED
    BY <1>1, <1>3, <1>4, PlusNaturals
<1>7. Naturals(new.unspent)
  <2> HIDE DEF d
  <2> QED
    BY <1>1, <1>3, <1>4, <1>5, PlusNaturals
<1>8. Cardinality(GivenCoins(ch.free)) + Cardinality(GivenCoins(ch.active)) \in Nat
  BY <1>1, FS_CardinalityType
<1>9. Sound(new) /\ Kept(ch, new)
  BY <1>1, <1>4, <1>6, <1>7, <1>8, PaidKeeps DEF AmountFields
<1> QED
  BY <1>9 DEF new

\* A bond takes from what is free, or from what is active.
LEMMA BondKeeps ==
  ASSUME NEW ch, Sound(ch), NEW x, x.op = "bond", x.n \in Nat, x.from \in {"free", "active"}, Fits(ch, x)
  PROVE  Sound(After(ch, x)) /\ Kept(ch, After(ch, x))
<1> DEFINE new == After(ch, x)  k == <<x.u, x.l>>
<1>1. /\ DOMAIN ch = LedgerFields /\ Naturals(ch.free) /\ Naturals(ch.active) /\ Naturals(ch.bonded)
      /\ IsFiniteSet(GivenCoins(ch.free)) /\ IsFiniteSet(GivenCoins(ch.active))
  BY DEF Sound, Backed
<1>2. new = [ch EXCEPT ![x.from] = Pay(@, x.u, x.l, x.n), !.bonded = Plus(@, k, x.n)]
  BY DEF After
<1>3. Held(ch[x.from], <<x.u, x.l>>) >= x.n
  BY DEF Fits
<1> HIDE DEF new, k
<1>4. /\ Same(ch, new, {x.from, "bonded"}) /\ new[x.from] = Pay(ch[x.from], x.u, x.l, x.n)
      /\ new.bonded = Plus(ch.bonded, k, x.n)
      /\ x.from = "free" => new.active = ch.active
      /\ x.from = "active" => new.free = ch.free
  BY <1>1, <1>2 DEF Same, LedgerFields
<1>5. Naturals(ch[x.from]) /\ IsFiniteSet(GivenCoins(ch[x.from]))
  BY <1>1
<1>6. /\ Naturals(new[x.from]) /\ IsFiniteSet(GivenCoins(new[x.from]))
      /\ Cardinality(GivenCoins(new[x.from])) \in Nat /\ Cardinality(GivenCoins(ch[x.from])) \in Nat
      /\ Cardinality(GivenCoins(new[x.from])) <= Cardinality(GivenCoins(ch[x.from]))
  <2> DEFINE f == ch[x.from]  g == new[x.from]
  <2>1. Naturals(f) /\ IsFiniteSet(GivenCoins(f)) /\ Held(f, <<x.u, x.l>>) >= x.n /\ g = Pay(f, x.u, x.l, x.n)
    BY <1>3, <1>4, <1>5
  <2> HIDE DEF f, g
  <2>2. /\ Naturals(g) /\ IsFiniteSet(GivenCoins(g))
        /\ Cardinality(GivenCoins(g)) \in Nat /\ Cardinality(GivenCoins(f)) \in Nat
        /\ Cardinality(GivenCoins(g)) <= Cardinality(GivenCoins(f))
    BY <2>1, PayHolds
  <2> QED
    BY <2>2 DEF f, g
<1>7. Held(ch.bonded, k) + x.n \in Nat /\ x.n \in Int
  BY <1>1, HeldNatural
<1>8. Naturals(new.bonded)
  BY <1>1, <1>4, <1>7, PlusNaturals
<1>9. Cardinality(GivenCoins(ch.active)) \in Nat /\ Cardinality(GivenCoins(ch.free)) \in Nat
  BY <1>1, FS_CardinalityType
<1>10. CASE x.from = "free"
  <2>1. Sound(new) /\ Kept(ch, new)
    BY <1>1, <1>4, <1>6, <1>8, <1>9, <1>10, PaidKeeps DEF AmountFields
  <2> QED
    BY <2>1 DEF new
<1>11. CASE x.from = "active"
  <2>1. Sound(new) /\ Kept(ch, new)
    BY <1>1, <1>4, <1>6, <1>8, <1>9, <1>11, PaidKeeps DEF AmountFields
  <2> QED
    BY <2>1 DEF new
<1> QED
  BY <1>10, <1>11

\* Two payments of different tokens.
LEMMA PayTwoHolds ==
  ASSUME NEW f, Naturals(f), IsFiniteSet(GivenCoins(f)), NEW u, NEW a, NEW b, a # b,
         NEW n \in Nat, Held(f, <<u, a>>) >= n, NEW m \in Nat, Held(f, <<u, b>>) >= m,
         NEW g, g = Pay(Pay(f, u, a, n), u, b, m)
  PROVE  /\ Naturals(g) /\ IsFiniteSet(GivenCoins(g))
         /\ Cardinality(GivenCoins(f)) \in Nat /\ Cardinality(GivenCoins(g)) \in Nat
         /\ Cardinality(GivenCoins(g)) <= Cardinality(GivenCoins(f))
<1> DEFINE e == Pay(f, u, a, n)
<1>1. /\ Naturals(e) /\ IsFiniteSet(GivenCoins(e))
      /\ Cardinality(GivenCoins(f)) \in Nat /\ Cardinality(GivenCoins(e)) \in Nat
      /\ Cardinality(GivenCoins(e)) <= Cardinality(GivenCoins(f))
      /\ \A x : x # <<u, a>> => Held(e, x) = Held(f, x)
  BY PayHolds
<1> HIDE DEF e
<1>2. Held(e, <<u, b>>) >= m
  <2>1. <<u, b>> # <<u, a>>
    OBVIOUS
  <2> QED
    BY <1>1, <2>1
<1>3. g = Pay(e, u, b, m)
  BY DEF e
<1>4. /\ Naturals(g) /\ IsFiniteSet(GivenCoins(g)) /\ Cardinality(GivenCoins(g)) \in Nat
      /\ Cardinality(GivenCoins(g)) <= Cardinality(GivenCoins(e))
  BY <1>1, <1>2, <1>3, PayHolds
<1> QED
  BY <1>1, <1>4

\* createPool, when it fits: the two tokens are different and no pool has them, so that
\* the pairs stay different; afterwards a pool has them, and it is not the given one.
LEMMA CreatePoolKeeps ==
  ASSUME NEW ch, Sound(ch), NEW x, x.op = "createPool", x.n \in Int, x.m \in Int,
         x.a \in 0..(ch.next - 1), x.b \in 0..(ch.next - 1), Fits(ch, x)
  PROVE  Sound(After(ch, x)) /\ Kept(ch, After(ch, x))
         /\ \E l \in DOMAIN After(ch, x).pools :
              l # GivenPool /\ DOMAIN After(ch, x).pools[l].res = {x.a, x.b}
<1> DEFINE new == After(ch, x)  next == ch.next  half == (x.n + x.m) \div 2  k == <<x.u, next>>
           paid == Pay(Pay(ch.free, x.u, x.a, x.n), x.u, x.b, x.m)
           pools == [l \in DOMAIN ch.pools \cup {next} |->
                       IF l # next THEN ch.pools[l]
                       ELSE [res |-> [t \in {x.a, x.b} |-> IF t = x.a THEN x.n ELSE x.m], total |-> half]]
<1>1. /\ DOMAIN ch = LedgerFields /\ Naturals(ch.free) /\ PoolsSound(ch.pools, next)
      /\ Backed(ch.free, ch.active, ch.pools) /\ IsFiniteSet(GivenCoins(ch.free))
  BY DEF Sound, Backed
<1>2. new = [ch EXCEPT !.free = Plus(Pay(Pay(@, x.u, x.a, x.n), x.u, x.b, x.m), k, half),
                       !.pools = [l \in DOMAIN @ \cup {next} |->
                                    IF l # next THEN @[l]
                                    ELSE [res |-> [t \in {x.a, x.b} |-> IF t = x.a THEN x.n ELSE x.m],
                                          total |-> half]],
                       !.next = @ + 1]
  BY DEF After
<1>3. /\ x.a # x.b /\ x.n \in Nat \ {0} /\ x.m \in Nat \ {0} /\ PoolsOf(ch, x.a, x.b) = {}
      /\ Held(ch.free, <<x.u, x.a>>) >= x.n /\ Held(ch.free, <<x.u, x.b>>) >= x.m
  BY DEF Fits, Has
<1>4. half \in Nat \ {0}
  <2>1. \A n, m \in Nat \ {0} : (n + m) \div 2 \in Nat \ {0}
    OBVIOUS
  <2> QED
    BY <1>3, <2>1
<1>k. k[2] = next
  OBVIOUS
<1> HIDE DEF new, half, k
<1>5. /\ Same(ch, new, {"free", "pools", "next"}) /\ new.free = Plus(paid, k, half)
      /\ new.pools = pools /\ new.next = next + 1 /\ new.active = ch.active /\ new.promoted = ch.promoted
  <2>1. new = [ch EXCEPT !.free = Plus(paid, k, half), !.pools = pools, !.next = @ + 1]
    BY <1>2
  <2> HIDE DEF paid, pools
  <2> QED
    BY <1>1, <2>1 DEF Same, LedgerFields
<1>6. /\ PoolsSound(new.pools, new.next) /\ next > GivenPool
      /\ \A l \in DOMAIN ch.pools : l \in DOMAIN new.pools /\ new.pools[l] = ch.pools[l]
  <2> DEFINE a == x.a  b == x.b  n == x.n  m == x.m  p == ch.pools  q == pools
  <2>1. \A l \in DOMAIN p : DOMAIN p[l].res # {a, b}
    BY <1>3 DEF PoolsOf
  <2>2. /\ DOMAIN q = DOMAIN p \cup {next} /\ \A l \in DOMAIN p : q[l] = p[l]
        /\ DOMAIN q[next] = {"res", "total"} /\ DOMAIN q[next].res = {a, b}
        /\ q[next].res[a] = n /\ q[next].res[b] = m /\ q[next].total = half
    <3>1. next \notin DOMAIN p
      BY <1>1 DEF PoolsSound
    <3> QED
      BY <1>3, <3>1
  <2>3. /\ PoolsSound(p, next) /\ a \in 0..(next - 1) /\ b \in 0..(next - 1) /\ a # b
        /\ n \in Nat \ {0} /\ m \in Nat \ {0} /\ half \in Nat \ {0}
    BY <1>1, <1>3, <1>4
  <2> HIDE DEF a, b, n, m, p, q, next
  <2>4. /\ PoolsSound(q, next + 1) /\ next > GivenPool
        /\ \A l \in DOMAIN p : l \in DOMAIN q /\ q[l] = p[l]
    <3>1. Founded(p, next, a, b, q)
      BY <2>1, <2>2, <2>3 DEF Founded
    <3> QED
      BY <2>3, <3>1, CreatedSound
  <2> QED
    BY <1>5, <2>4 DEF p, q, next
<1>7. next \in DOMAIN new.pools /\ DOMAIN new.pools[next].res = {x.a, x.b} /\ next # GivenPool /\ next \in Nat
  <2>1. next # GivenPool /\ next \in Nat
    BY <1>1, <1>6 DEF PoolsSound, GivenPool
  <2>2. next \in DOMAIN pools /\ DOMAIN pools[next].res = {x.a, x.b}
    OBVIOUS
  <2> HIDE DEF pools
  <2> QED
    BY <1>5, <2>1, <2>2
<1> HIDE DEF pools
<1>8. /\ Naturals(paid) /\ IsFiniteSet(GivenCoins(paid))
      /\ Cardinality(GivenCoins(ch.free)) \in Nat /\ Cardinality(GivenCoins(paid)) \in Nat
      /\ Cardinality(GivenCoins(paid)) <= Cardinality(GivenCoins(ch.free))
  BY <1>1, <1>3, PayTwoHolds
<1> HIDE DEF paid
<1>9. /\ Naturals(new.free) /\ IsFiniteSet(GivenCoins(new.free))
      /\ Cardinality(GivenCoins(new.free)) = Cardinality(GivenCoins(paid))
  BY <1>4, <1>5, <1>k, <1>7, <1>8, GiveHolds
<1>10. Backed(new.free, new.active, new.pools)
  <2>1. Cardinality(GivenCoins(ch.active)) \in Nat /\ IsFiniteSet(GivenCoins(ch.active))
    BY <1>1, FS_CardinalityType DEF Backed
  <2>2. GivenPool \in DOMAIN new.pools =>
          GivenPool \in DOMAIN ch.pools /\ new.pools[GivenPool] = ch.pools[GivenPool] /\ ch.pools[GivenPool].total \in Nat
    <3>1. DOMAIN new.pools = DOMAIN ch.pools \cup {next}
      BY <1>5 DEF pools
    <3> QED
      BY <1>1, <1>6, <1>7, <3>1 DEF PoolsSound
  <2> QED
    BY <1>1, <1>5, <1>8, <1>9, <2>1, <2>2 DEF Backed
<1>11. Sound(new)
  BY <1>5, <1>6, <1>9, <1>10, SoundChange DEF AmountFields
<1>12. Kept(ch, new)
  BY <1>5, <1>6, <1>7 DEF Kept
<1> QED
  BY <1>7, <1>11, <1>12 DEF new

\* Quotients of natural numbers are natural.
LEMMA DivNatural ==
  ASSUME NEW n \in Nat, NEW d \in Nat \ {0}
  PROVE  n \div d \in Nat
OBVIOUS

\* Products of natural numbers are natural.
LEMMA TimesNatural ==
  ASSUME NEW n \in Nat, NEW m \in Nat
  PROVE  n * m \in Nat
OBVIOUS

\* A provider gives both tokens to a pool that is there, and gets liquidity.
LEMMA ProvidesHolds ==
  ASSUME NEW ch, Sound(ch), NEW u, NEW a, NEW b, NEW n \in Int, NEW max, Provides(ch, u, a, b, n, max),
         NEW liq, liq = LiqId(ch, a, b), NEW s, s = Second(ch.pools[liq], a, b, n),
         NEW m, m = Minted(ch.pools[liq], a, n)
  PROVE  /\ liq \in DOMAIN ch.pools /\ a # b /\ n \in Nat /\ s \in Nat /\ m \in Nat
         /\ Bears(ch.pools[liq], a, n, b, s, m)
         /\ Held(ch.free, <<u, b>>) >= s
<1>1. PoolsSound(ch.pools, ch.next)
  BY DEF Sound
<1>2. PICK l \in PoolsOf(ch, a, b) : n > 0 /\ Has(ch, u, b, Second(ch.pools[l], a, b, n))
  BY DEF Provides
<1>3. liq \in DOMAIN ch.pools /\ DOMAIN ch.pools[liq].res = {a, b} /\ a # b /\ l = liq
  BY <1>1, <1>2, PoolsOfPair
<1> DEFINE p == ch.pools[liq]  ra == p.res[a]  rb == p.res[b]  tot == p.total
<1>4. ra \in Nat \ {0} /\ rb \in Nat \ {0} /\ tot \in Nat \ {0}
  BY <1>1, <1>3 DEF PoolsSound
<1>5. n \in Nat \ {0} /\ s = (n * rb) \div ra + 1 /\ m = (n * tot) \div ra
  BY <1>2 DEF Second, Minted
<1>6. Held(ch.free, <<u, b>>) >= s
  BY <1>2, <1>3 DEF Has
<1> HIDE DEF ra, rb, tot
<1>7. s \in Nat /\ s > 0 /\ m \in Nat
  <2>1. n * rb \in Nat /\ n * tot \in Nat
    BY <1>4, <1>5, TimesNatural
  <2>2. (n * rb) \div ra \in Nat /\ (n * tot) \div ra \in Nat
    BY <1>4, <2>1, DivNatural
  <2> QED
    BY <1>5, <2>2
<1>8. ra + n > 0 /\ rb + s > 0 /\ tot + m > 0
  BY <1>4, <1>5, <1>7
<1>9. Bears(p, a, n, b, s, m)
  BY <1>3, <1>5, <1>7, <1>8 DEF Bears, ra, rb, tot
<1> QED
  BY <1>3, <1>5, <1>6, <1>7, <1>9

\* mintLiquidity, when it fits: reserves and liquidity grow, and whoever pays has it.
LEMMA MintLiquidityKeeps ==
  ASSUME NEW ch, Sound(ch), NEW x, x.op = "mintLiquidity", x.n \in Int, Fits(ch, x)
  PROVE  Sound(After(ch, x)) /\ Kept(ch, After(ch, x))
<1> DEFINE new == After(ch, x)  a == x.a  b == x.b  n == x.n
           liq == LiqId(ch, a, b)
           s == Second(ch.pools[liq], a, b, n)
           m == Minted(ch.pools[liq], a, n)
           k == <<x.u, liq>>
           paid == Pay(Pay(ch.free, x.u, a, n), x.u, b, s)
           pools == Moved(ch, liq, a, n, b, s, m)
<1>1. /\ DOMAIN ch = LedgerFields /\ Naturals(ch.free) /\ Naturals(ch.active)
      /\ PoolsSound(ch.pools, ch.next) /\ Backed(ch.free, ch.active, ch.pools)
      /\ IsFiniteSet(GivenCoins(ch.free)) /\ IsFiniteSet(GivenCoins(ch.active))
  BY DEF Sound, Backed
<1>2. new = LET p == [ch EXCEPT !.free = paid, !.pools = pools]
            IN  IF liq \in ch.promoted THEN [p EXCEPT !.active = Plus(@, k, m)]
                ELSE [p EXCEPT !.free = Plus(@, k, m)]
  BY DEF After, Provide
<1>3. Provides(ch, x.u, a, b, n, x.max) /\ Held(ch.free, <<x.u, a>>) >= n
  BY DEF Fits, Has
<1>4. /\ liq \in DOMAIN ch.pools /\ a # b /\ n \in Nat /\ s \in Nat /\ m \in Nat
      /\ Bears(ch.pools[liq], a, n, b, s, m) /\ Held(ch.free, <<x.u, b>>) >= s
  BY <1>3, ProvidesHolds
<1>k. k[2] = liq
  OBVIOUS
<1> HIDE DEF new, a, b, n, liq, s, m, k, paid, pools
<1>5. /\ PoolsSound(pools, ch.next) /\ DOMAIN pools = DOMAIN ch.pools
      /\ \A l \in DOMAIN pools : DOMAIN pools[l].res = DOMAIN ch.pools[l].res
      /\ pools[liq].total = ch.pools[liq].total + m
      /\ \A l \in DOMAIN pools : l # liq => pools[l] = ch.pools[l]
  BY <1>1, <1>4, MovedSound DEF pools
<1>6. /\ Naturals(paid) /\ IsFiniteSet(GivenCoins(paid))
      /\ Cardinality(GivenCoins(ch.free)) \in Nat /\ Cardinality(GivenCoins(paid)) \in Nat
      /\ Cardinality(GivenCoins(paid)) <= Cardinality(GivenCoins(ch.free))
  BY <1>1, <1>3, <1>4, PayTwoHolds DEF paid
<1>7. /\ Same(ch, new, {"free", "active", "pools"}) /\ new.next = ch.next /\ new.promoted = ch.promoted
      /\ new.pools = pools
      /\ \/ new.free = paid /\ new.active = Plus(ch.active, k, m)
         \/ new.free = Plus(paid, k, m) /\ new.active = ch.active
  <2>1. CASE liq \in ch.promoted
    <3>1. new = [[ch EXCEPT !.free = paid, !.pools = pools] EXCEPT !.active = Plus(@, k, m)]
      BY <1>2, <2>1
    <3> QED
      BY <1>1, <3>1 DEF Same, LedgerFields
  <2>2. CASE liq \notin ch.promoted
    <3>1. new = [[ch EXCEPT !.free = paid, !.pools = pools] EXCEPT !.free = Plus(@, k, m)]
      BY <1>2, <2>2
    <3> QED
      BY <1>1, <3>1 DEF Same, LedgerFields
  <2> QED
    BY <2>1, <2>2
<1> DEFINE d == IF liq = GivenPool THEN m ELSE 0
<1>8. d \in Int /\ Cardinality(GivenCoins(ch.active)) \in Nat
  BY <1>1, <1>4, FS_CardinalityType
<1>9. /\ Naturals(new.free) /\ IsFiniteSet(GivenCoins(new.free))
      /\ Naturals(new.active) /\ IsFiniteSet(GivenCoins(new.active))
      /\ Cardinality(GivenCoins(new.free)) + Cardinality(GivenCoins(new.active))
           <= Cardinality(GivenCoins(ch.free)) + Cardinality(GivenCoins(ch.active)) + d
  <2>1. CASE new.free = paid /\ new.active = Plus(ch.active, k, m)
    <3>1. /\ Naturals(new.active) /\ IsFiniteSet(GivenCoins(new.active))
          /\ Cardinality(GivenCoins(new.active)) = Cardinality(GivenCoins(ch.active)) + d
      BY <1>1, <1>4, <1>k, <2>1, GiveHolds
    <3> HIDE DEF d
    <3> QED
      BY <1>6, <1>8, <2>1, <3>1
  <2>2. CASE new.free = Plus(paid, k, m) /\ new.active = ch.active
    <3>1. /\ Naturals(new.free) /\ IsFiniteSet(GivenCoins(new.free))
          /\ Cardinality(GivenCoins(new.free)) = Cardinality(GivenCoins(paid)) + d
      BY <1>4, <1>6, <1>k, <2>2, GiveHolds
    <3> HIDE DEF d
    <3> QED
      BY <1>1, <1>6, <1>8, <2>2, <3>1
  <2> QED
    BY <1>7, <2>1, <2>2
<1>10. Backed(new.free, new.active, new.pools)
  <2>1. GivenPool \in DOMAIN pools =>
          /\ GivenPool \in DOMAIN ch.pools /\ ch.pools[GivenPool].total \in Int
          /\ pools[GivenPool].total = ch.pools[GivenPool].total + d
    <3>1. CASE liq = GivenPool
      BY <1>1, <1>5, <3>1 DEF PoolsSound
    <3>2. CASE liq # GivenPool
      BY <1>1, <1>5, <3>2 DEF PoolsSound
    <3> QED
      BY <3>1, <3>2
  <2> HIDE DEF d
  <2> QED
    BY <1>1, <1>7, <1>8, <1>9, <2>1, BackedBy
<1>11. Sound(new)
  BY <1>5, <1>7, <1>9, <1>10, SoundChange DEF AmountFields
<1>12. Kept(ch, new)
  BY <1>1, <1>5, <1>7 DEF Kept, PoolsSound
<1> QED
  BY <1>11, <1>12 DEF new

\* mintLiquidityUsingVested: likewise, out of what vests.
LEMMA MintVestedKeeps ==
  ASSUME NEW ch, Sound(ch), NEW x, x.op = "mintVested", x.n \in Int, Fits(ch, x)
  PROVE  Sound(After(ch, x)) /\ Kept(ch, After(ch, x))
<1> DEFINE new == After(ch, x)  b == x.b  n == x.n
           liq == LiqId(ch, Native, b)
           s == Second(ch.pools[liq], Native, b, n)
           m == Minted(ch.pools[liq], Native, n)
           k == <<x.u, liq>>
           left == Pay(ch.vesting, x.u, Native, n)
           pools == Moved(ch, liq, Native, n, b, s, m)
<1>1. /\ DOMAIN ch = LedgerFields /\ Naturals(ch.free) /\ Naturals(ch.vesting)
      /\ PoolsSound(ch.pools, ch.next) /\ Backed(ch.free, ch.active, ch.pools)
      /\ IsFiniteSet(GivenCoins(ch.free)) /\ IsFiniteSet(GivenCoins(ch.active))
  BY DEF Sound, Backed
<1>2. new = [ch EXCEPT !.free = Pay(@, x.u, b, s),
                       !.vesting = Plus(Pay(@, x.u, Native, n), k, m),
                       !.pools = pools]
  BY DEF After
<1>3. Provides(ch, x.u, Native, b, n, x.max) /\ Held(ch.vesting, <<x.u, Native>>) >= n
  BY DEF Fits
<1>4. /\ liq \in DOMAIN ch.pools /\ Native # b /\ n \in Nat /\ s \in Nat /\ m \in Nat
      /\ Bears(ch.pools[liq], Native, n, b, s, m) /\ Held(ch.free, <<x.u, b>>) >= s
  BY <1>3, ProvidesHolds
<1> HIDE DEF new, b, n, liq, s, m, k, pools
<1>5. /\ PoolsSound(pools, ch.next) /\ DOMAIN pools = DOMAIN ch.pools
      /\ \A l \in DOMAIN pools : DOMAIN pools[l].res = DOMAIN ch.pools[l].res
      /\ pools[liq].total = ch.pools[liq].total + m
      /\ \A l \in DOMAIN pools : l # liq => pools[l] = ch.pools[l]
  BY <1>1, <1>4, MovedSound DEF pools
<1>6. /\ Same(ch, new, {"free", "vesting", "pools"}) /\ new.next = ch.next /\ new.promoted = ch.promoted
      /\ new.pools = pools /\ new.free = Pay(ch.free, x.u, b, s) /\ new.active = ch.active
      /\ new.vesting = Plus(left, k, m)
  BY <1>1, <1>2 DEF Same, LedgerFields
<1>7. /\ Naturals(new.free) /\ IsFiniteSet(GivenCoins(new.free))
      /\ Cardinality(GivenCoins(new.free)) \in Nat /\ Cardinality(GivenCoins(ch.free)) \in Nat
      /\ Cardinality(GivenCoins(new.free)) <= Cardinality(GivenCoins(ch.free))
  BY <1>1, <1>4, <1>6, PayHolds
<1>8. Naturals(new.vesting)
  <2> DEFINE d == -n  j == <<x.u, Native>>
  <2>1. d \in Int /\ Held(ch.vesting, j) + d \in Nat
    <3>1. Held(ch.vesting, j) \in Nat /\ Held(ch.vesting, j) >= n
      BY <1>1, <1>3, HeldNatural
    <3> HIDE DEF j
    <3> QED
      BY <1>4, <3>1
  <2>2. left = Plus(ch.vesting, j, d)
    BY DEF Pay
  <2> HIDE DEF d, j, left
  <2>3. Naturals(left)
    BY <1>1, <2>1, <2>2, PlusNaturals
  <2>4. m \in Int /\ Held(left, k) + m \in Nat
    BY <1>4, <2>3, HeldNatural
  <2> QED
    BY <1>6, <2>3, <2>4, PlusNaturals
<1>9. Backed(new.free, new.active, new.pools)
  <2>1. Cardinality(GivenCoins(ch.active)) \in Nat
    BY <1>1, FS_CardinalityType
  <2>2. GivenPool \in DOMAIN pools =>
          /\ GivenPool \in DOMAIN ch.pools /\ ch.pools[GivenPool].total \in Nat
          /\ pools[GivenPool].total \in Nat
          /\ pools[GivenPool].total >= ch.pools[GivenPool].total
    <3>1. CASE liq = GivenPool
      BY <1>1, <1>4, <1>5, <3>1 DEF PoolsSound
    <3>2. CASE liq # GivenPool
      BY <1>1, <1>5, <3>2 DEF PoolsSound
    <3> QED
      BY <3>1, <3>2
  <2> QED
    BY <1>1, <1>6, <1>7, <2>1, <2>2 DEF Backed
<1>10. Sound(new)
  BY <1>5, <1>6, <1>7, <1>8, <1>9, SoundChange DEF AmountFields
<1>11. Kept(ch, new)
  BY <1>1, <1>5, <1>6 DEF Kept, PoolsSound
<1> QED
  BY <1>10, <1>11 DEF new

\* A share of less than all of the liquidity is less than all of the reserve.
LEMMA ShareHolds ==
  ASSUME NEW n \in Nat, NEW r \in Nat \ {0}, NEW t \in Nat \ {0}, NEW q, q = (n * r) \div t
  PROVE  q \in Nat /\ (n < t => q < r)
<1>1. n * r \in Nat
  BY TimesNatural
<1> DEFINE z == n * r
<1>2. z \in Nat /\ q = z \div t
  BY <1>1
<1>3. q \in Nat
  BY <1>2, DivNatural
<1>4. ASSUME n < t, q >= r
      PROVE  FALSE
  <2>1. t * q <= z
    <3> HIDE DEF z
    <3> QED
      BY <1>2, <1>3
  <2>2. t * r <= t * q
    <3>1. PICK e \in Nat : q = r + e
      BY <1>3, <1>4, q - r \in Nat
    <3>2. t * q = t * r + t * e /\ t * e \in Nat /\ t * r \in Nat
      BY <3>1
    <3> QED
      BY <3>2
  <2>3. z < t * r
    <3>1. PICK e \in Nat \ {0} : t = n + e
      BY <1>4, t - n \in Nat \ {0}
    <3>2. t * r = n * r + e * r
      BY <3>1
    <3>3. e * r > 0 /\ e * r \in Nat
      BY <3>1
    <3> QED
      BY <1>1, <3>2, <3>3
  <2>4. t * r \in Nat /\ t * q \in Nat
    BY <1>3, TimesNatural
  <2> HIDE DEF z
  <2> QED
    BY <1>2, <2>1, <2>2, <2>3, <2>4
<1> QED
  BY <1>3, <1>4

\* burnLiquidity of the given pool, when it fits: the user has the liquidity, free or
\* active, and as the pool backs it all, the shares leave something of both reserves, or
\* it was all of it and the pool goes.
LEMMA BurnLiquidityKeeps ==
  ASSUME NEW ch, Sound(ch), NEW x, x.op = "burnLiquidity", x.n \in Int, x.l = GivenPool, Fits(ch, x)
  PROVE  Sound(After(ch, x)) /\ Kept(ch, After(ch, x))
<1> DEFINE new == After(ch, x)  n == x.n  l == GivenPool
           p == ch.pools[l]
           k == <<x.u, l>>
           h == Held(ch.free, k)
           q == IF n <= h THEN n ELSE h
           a == Native
           b == OtherToken(ch, l)
           sa == (n * p.res[a]) \div p.total
           sb == (n * p.res[b]) \div p.total
           ka == <<x.u, a>>
           kb == <<x.u, b>>
           left == Pay(ch.free, x.u, l, q)
           d == q - n
           pools == IF n = p.total THEN Without(ch.pools, l) ELSE Moved(ch, l, a, -sa, b, -sb, -n)
<1>1. /\ DOMAIN ch = LedgerFields /\ Naturals(ch.free) /\ Naturals(ch.active)
      /\ PoolsSound(ch.pools, ch.next) /\ Backed(ch.free, ch.active, ch.pools)
      /\ IsFiniteSet(GivenCoins(ch.free)) /\ IsFiniteSet(GivenCoins(ch.active))
  BY DEF Sound, Backed
<1>2. new = [ch EXCEPT !.free = Plus(Plus(left, ka, sa), kb, sb), !.active = Plus(@, k, d), !.pools = pools]
  <2>1. After(ch, x) = Burn(ch, x)
    BY DEF After
  <2>2. Burn(ch, x) = [ch EXCEPT !.free = Plus(Plus(left, ka, sa), kb, sb), !.active = Plus(@, k, d), !.pools = pools]
    BY DEF Burn
  <2> QED
    BY <2>1, <2>2
<1>3. /\ l \in DOMAIN ch.pools /\ n \in Nat \ {0}
      /\ n <= h + Held(ch.active, k)
  BY DEF Fits, Burnable
<1>4. DOMAIN p.res = {Native, Given} /\ b = Given
  <2>1. DOMAIN p.res = {Native, Given}
    BY <1>1, <1>3 DEF PoolsSound
  <2>2. \A t : t \in DOMAIN p.res /\ t # Native <=> t = Given
    BY <2>1 DEF Native, Given
  <2>3. \E t \in DOMAIN p.res : t # Native
    BY <2>2
  <2>4. b = CHOOSE t \in DOMAIN p.res : t # Native
    BY DEF OtherToken
  <2> HIDE DEF b, p
  <2>5. b \in DOMAIN p.res /\ b # Native
    BY <2>3, <2>4
  <2> QED
    BY <2>1, <2>2, <2>5
<1>5. /\ p.res[a] \in Nat \ {0} /\ p.res[b] \in Nat \ {0} /\ p.total \in Nat \ {0}
  BY <1>1, <1>3, <1>4 DEF PoolsSound
<1>6. /\ sa \in Nat /\ (n < p.total => sa < p.res[a])
      /\ sb \in Nat /\ (n < p.total => sb < p.res[b])
  <2> DEFINE ra == p.res[a]  rb == p.res[b]  t == p.total
  <2>1. n \in Nat /\ ra \in Nat \ {0} /\ rb \in Nat \ {0} /\ t \in Nat \ {0}
    BY <1>3, <1>5
  <2>2. sa = (n * ra) \div t /\ sb = (n * rb) \div t
    OBVIOUS
  <2> HIDE DEF n, ra, rb, t, sa, sb
  <2>3. sa \in Nat /\ (n < t => sa < ra)
    BY <2>1, <2>2, ShareHolds
  <2>4. sb \in Nat /\ (n < t => sb < rb)
    BY <2>1, <2>2, ShareHolds
  <2> QED
    BY <2>3, <2>4 DEF ra, rb, t
<1>7. k[2] = GivenPool /\ ka[2] # GivenPool /\ kb[2] # GivenPool
  BY <1>4 DEF Native, Given, GivenPool
<1>8. Held(ch.active, k) \in Nat /\ h \in Nat
  BY <1>1, HeldNatural
<1>9. h <= Cardinality(GivenCoins(ch.free)) /\ Held(ch.active, k) <= Cardinality(GivenCoins(ch.active))
  BY <1>1, <1>7, HeldOfCoins
<1>10. Cardinality(GivenCoins(ch.free)) \in Nat /\ Cardinality(GivenCoins(ch.active)) \in Nat
  BY <1>1, FS_CardinalityType
<1>11. n <= p.total
  <2>1. Cardinality(GivenCoins(ch.free)) + Cardinality(GivenCoins(ch.active)) <= p.total
    BY <1>1, <1>3 DEF Backed
  <2> HIDE DEF n, p, h, k
  <2> QED
    BY <1>3, <1>5, <1>8, <1>9, <1>10, <2>1
<1> HIDE DEF h
<1>12. q \in Nat /\ q <= h /\ d \in Int /\ Held(ch.active, k) + d \in Nat
  BY <1>3, <1>8
<1> HIDE DEF new, n, l, p, k, q, a, b, sa, sb, ka, kb, d, pools
<1>13. /\ Naturals(left) /\ IsFiniteSet(GivenCoins(left))
       /\ Cardinality(GivenCoins(left)) \in Nat
       /\ Cardinality(GivenCoins(left)) = Cardinality(GivenCoins(ch.free)) - q
  <2>1. Held(ch.free, <<x.u, l>>) >= q /\ l = GivenPool
    BY <1>8, <1>12 DEF h, k, l
  <2>2. /\ Naturals(left) /\ IsFiniteSet(GivenCoins(left))
        /\ Cardinality(GivenCoins(left)) \in Nat
        /\ Cardinality(GivenCoins(left)) = Cardinality(GivenCoins(ch.free)) - (IF l = GivenPool THEN q ELSE 0)
    BY <1>1, <1>12, <2>1, PayHolds
  <2> QED
    BY <2>1, <2>2
<1> HIDE DEF left
<1>14. /\ Same(ch, new, {"free", "active", "pools"}) /\ new.next = ch.next /\ new.promoted = ch.promoted
       /\ new.free = Plus(Plus(left, ka, sa), kb, sb) /\ new.active = Plus(ch.active, k, d)
       /\ new.pools = pools
  BY <1>1, <1>2 DEF Same, LedgerFields
<1>15. /\ Naturals(new.free) /\ IsFiniteSet(GivenCoins(new.free))
       /\ Cardinality(GivenCoins(new.free)) = Cardinality(GivenCoins(left))
  <2> DEFINE f == Plus(left, ka, sa)
  <2>1. /\ Naturals(f) /\ IsFiniteSet(GivenCoins(f)) /\ Cardinality(GivenCoins(f)) \in Nat
        /\ Cardinality(GivenCoins(f)) = Cardinality(GivenCoins(left))
    <3>1. Cardinality(GivenCoins(f)) = Cardinality(GivenCoins(left)) + (IF ka[2] = GivenPool THEN sa ELSE 0)
      BY <1>6, <1>13, GiveHolds
    <3>2. Naturals(f) /\ IsFiniteSet(GivenCoins(f))
      BY <1>6, <1>13, GiveHolds
    <3> HIDE DEF f
    <3> QED
      BY <1>7, <1>13, <3>1, <3>2
  <2> HIDE DEF f
  <2>2. new.free = Plus(f, kb, sb)
    BY <1>14 DEF f
  <2>3. /\ Naturals(new.free) /\ IsFiniteSet(GivenCoins(new.free))
        /\ Cardinality(GivenCoins(new.free)) = Cardinality(GivenCoins(f)) + (IF kb[2] = GivenPool THEN sb ELSE 0)
    BY <1>6, <2>1, <2>2, GiveHolds
  <2> QED
    BY <1>7, <2>1, <2>3
<1>16. /\ Naturals(new.active) /\ IsFiniteSet(GivenCoins(new.active))
       /\ Cardinality(GivenCoins(new.active)) = Cardinality(GivenCoins(ch.active)) + d
  <2>1. Naturals(new.active)
    BY <1>1, <1>12, <1>14, PlusNaturals
  <2>2. /\ IsFiniteSet(GivenCoins(new.active))
        /\ Cardinality(GivenCoins(new.active)) = Cardinality(GivenCoins(ch.active)) + (IF k[2] = GivenPool THEN d ELSE 0)
    BY <1>1, <1>12, <1>14, GivenCoinsPlus
  <2> QED
    BY <1>7, <2>1, <2>2
<1>17. /\ PoolsSound(pools, ch.next)
       /\ \A i \in DOMAIN ch.pools : i # l => i \in DOMAIN pools /\ pools[i] = ch.pools[i]
       /\ l \in DOMAIN pools => pools[l].total = p.total + (-n)
  <2>1. CASE n = p.total
    <3>1. pools = Without(ch.pools, l)
      BY <2>1 DEF pools
    <3> QED
      BY <1>1, <3>1, WithoutSound
  <2>2. CASE n # p.total
    <3>1. pools = Moved(ch, l, a, -sa, b, -sb, -n)
      BY <2>2 DEF pools
    <3>2. n < p.total
      BY <1>3, <1>5, <1>11, <2>2
    <3>3. a # b /\ DOMAIN p.res = {a, b}
      BY <1>4 DEF a, Native, Given
    <3>4. /\ -sa \in Int /\ -sb \in Int /\ -n \in Int
          /\ p.res[a] + (-sa) > 0 /\ p.res[b] + (-sb) > 0 /\ p.total + (-n) > 0
      BY <1>3, <1>5, <1>6, <3>2
    <3>5. Bears(p, a, -sa, b, -sb, -n)
      BY <3>3, <3>4 DEF Bears
    <3>6. /\ PoolsSound(pools, ch.next) /\ DOMAIN pools = DOMAIN ch.pools
          /\ pools[l].total = ch.pools[l].total + (-n)
          /\ \A i \in DOMAIN pools : i # l => pools[i] = ch.pools[i]
      BY <1>1, <1>3, <3>1, <3>5, MovedSound DEF p
    <3> QED
      BY <3>6 DEF p
  <2> QED
    BY <2>1, <2>2
<1>18. Backed(new.free, new.active, new.pools)
  <2>1. /\ l \in DOMAIN ch.pools /\ ch.pools[l].total \in Int /\ -n \in Int
        /\ l \in DOMAIN new.pools => new.pools[l].total = ch.pools[l].total + (-n)
    BY <1>3, <1>5, <1>14, <1>17 DEF p
  <2>2. Cardinality(GivenCoins(new.free)) + Cardinality(GivenCoins(new.active))
          <= Cardinality(GivenCoins(ch.free)) + Cardinality(GivenCoins(ch.active)) + (-n)
    <3>1. d = q - n
      BY DEF d
    <3> QED
      BY <1>3, <1>10, <1>12, <1>13, <1>15, <1>16, <3>1
  <2> QED
    BY <1>1, <1>15, <1>16, <2>1, <2>2, BackedBy DEF l
<1>19. Sound(new)
  BY <1>14, <1>15, <1>16, <1>17, <1>18, SoundChange DEF AmountFields
<1>20. Kept(ch, new)
  BY <1>1, <1>14, <1>17 DEF Kept, PoolsSound, l
<1> QED
  BY <1>19, <1>20 DEF new

\* What does not change is kept.
LEMMA ReflexiveKept ==
  ASSUME NEW ch, Sound(ch)
  PROVE  Kept(ch, ch)
BY DEF Sound, PoolsSound, Kept

\* A call that the set-ups make leaves a sound ledger.
LEMMA AppliedKeeps ==
  ASSUME NEW ch, Sound(ch), NEW x, Good(x, ch.next)
  PROVE  Sound(Applied(ch, x)) /\ Kept(ch, Applied(ch, x))
<1>1. CASE ~ Fits(ch, x)
  BY <1>1, ReflexiveKept DEF Applied
<1>2. CASE Fits(ch, x)
  <2>0. Applied(ch, x) = After(ch, x)
    BY <1>2 DEF Applied
  <2> SUFFICES Sound(After(ch, x)) /\ Kept(ch, After(ch, x))
    BY <2>0
  <2>1. CASE x.op \in Quiet
    <3>1. CASE x.op = "reserveVested"
      BY <3>1, ReserveVestedKeeps
    <3>2. CASE x.op # "reserveVested"
      BY <1>2, <2>1, <3>2, QuietKeeps
    <3> QED
      BY <3>1, <3>2
  <2>2. CASE x.op = "mint" /\ x.n \in Nat
    BY <2>2, MintKeeps
  <2>3. CASE x.op = "create" /\ x.n \in Nat
    BY <2>3, CreateKeeps
  <2>4. CASE x.op = "rewardPool" /\ x.n \in Nat
    BY <1>2, <2>4, RewardPoolKeeps
  <2>5. CASE x.op = "activate3" /\ x.n \in Nat
    BY <1>2, <2>5, Activate3Keeps
  <2>6. CASE x.op = "vest" /\ x.n \in Nat
    BY <1>2, <2>6, VestKeeps
  <2>7. CASE x.op = "mintLiquidity" /\ x.n \in Int
    BY <1>2, <2>7, MintLiquidityKeeps
  <2>8. CASE x.op = "mintVested" /\ x.n \in Int
    BY <1>2, <2>8, MintVestedKeeps
  <2>9. CASE x.op = "activate" /\ x.n \in Int
    BY <1>2, <2>9, ActivateKeeps
  <2>10. CASE x.op = "bond" /\ x.n \in Nat /\ x.from \in {"free", "active"}
    BY <1>2, <2>10, BondKeeps
  <2>11. CASE x.op = "burnLiquidity" /\ x.n \in Int /\ x.l = GivenPool
    BY <1>2, <2>11, BurnLiquidityKeeps
  <2>12. CASE /\ x.op = "createPool" /\ x.n \in Int /\ x.m \in Int
              /\ x.a \in 0..(ch.next - 1) /\ x.b \in 0..(ch.next - 1)
    BY <1>2, <2>12, CreatePoolKeeps
  <2>13. CASE x.op = "setMembers" /\ IsFiniteSet(x.members)
    BY <2>13, SetMembersKeeps
  <2> QED
    BY <2>1, <2>2, <2>3, <2>4, <2>5, <2>6, <2>7, <2>8, <2>9, <2>10, <2>11, <2>12, <2>13 DEF Good
<1> QED
  BY <1>1, <1>2

\* A good call stays one when more tokens are issued.
LEMMA GoodLater ==
  ASSUME NEW x, NEW next \in Nat, Good(x, next), NEW later \in Nat, next <= later
  PROVE  Good(x, later)
<1>1. \A t \in 0..(next - 1) : t \in 0..(later - 1)
  OBVIOUS
<1> QED
  BY <1>1 DEF Good

\* a batch of such calls
GoodBatch(calls, next) == \E S : calls \in Seq(S) /\ \A x \in S : Good(x, next)

\* A batch is a sequence of good calls.
LEMMA BatchCalls ==
  ASSUME NEW calls, NEW next, GoodBatch(calls, next)
  PROVE  /\ Len(calls) \in Nat /\ DOMAIN calls = 1..Len(calls)
         /\ \A i \in 1..Len(calls) : Good(calls[i], next)
<1>1. PICK S : calls \in Seq(S) /\ \A x \in S : Good(x, next)
  BY DEF GoodBatch
<1>2. \A i \in 1..Len(calls) : calls[i] \in S
  BY <1>1
<1> QED
  BY <1>1, <1>2

\* Two batches are one.
LEMMA BatchTwo ==
  ASSUME NEW calls, NEW more, NEW next, GoodBatch(calls, next), GoodBatch(more, next)
  PROVE  GoodBatch(calls \o more, next)
<1>1. PICK S : calls \in Seq(S) /\ \A x \in S : Good(x, next)
  BY DEF GoodBatch
<1>2. PICK T : more \in Seq(T) /\ \A x \in T : Good(x, next)
  BY DEF GoodBatch
<1>3. calls \in Seq(S \cup T) /\ more \in Seq(S \cup T)
  BY <1>1, <1>2
<1>4. calls \o more \in Seq(S \cup T)
  BY <1>3
<1>5. \A x \in S \cup T : Good(x, next)
  BY <1>1, <1>2
<1> QED
  BY <1>4, <1>5 DEF GoodBatch

\* A batch that was good is good on a later ledger.
LEMMA BatchLater ==
  ASSUME NEW calls, NEW ch, NEW new, GoodBatch(calls, ch.next), Kept(ch, new)
  PROVE  GoodBatch(calls, new.next)
<1>1. PICK S : calls \in Seq(S) /\ \A x \in S : Good(x, ch.next)
  BY DEF GoodBatch
<1>2. \A x \in S : Good(x, new.next)
  BY <1>1, GoodLater DEF Kept
<1> QED
  BY <1>1, <1>2 DEF GoodBatch

\* Every ledger of a batch is sound and keeps what it found.
LEMMA LedgersKeep ==
  ASSUME NEW ch, Sound(ch), NEW calls, GoodBatch(calls, ch.next)
  PROVE  \A i \in 0..Len(calls) : Sound(Ledgers(ch, calls)[i]) /\ Kept(ch, Ledgers(ch, calls)[i])
<1> DEFINE N == Len(calls)  led == Ledgers(ch, calls)
           D == {i \in 0..N : Sound(led[i]) /\ Kept(ch, led[i])}
<1>1. N \in Nat /\ \A i \in 1..N : Good(calls[i], ch.next)
  BY BatchCalls
<1>2. led[0] = ch /\ \A i \in 1..N : led[i] = Applied(led[i - 1], calls[i])
  BY <1>1, LedgersOf
<1> HIDE DEF N, led
<1>3. 0 \in D
  BY <1>1, <1>2, ReflexiveKept
<1>4. ASSUME NEW i \in 0..N, i # N, i \in D
      PROVE  i + 1 \in D
  <2>1. i + 1 \in 1..N /\ i + 1 \in 0..N /\ (i + 1) - 1 = i
    BY <1>1, <1>4
  <2>2. led[i + 1] = Applied(led[i], calls[i + 1])
    BY <1>2, <2>1
  <2>3. Sound(led[i]) /\ Kept(ch, led[i])
    BY <1>4
  <2>4. Good(calls[i + 1], led[i].next)
    BY <1>1, <2>1, <2>3, GoodLater DEF Kept
  <2>5. Sound(led[i + 1]) /\ Kept(led[i], led[i + 1])
    BY <2>2, <2>3, <2>4, AppliedKeeps
  <2>6. Kept(ch, led[i + 1])
    BY <2>3, <2>5, KeptAll
  <2> QED
    BY <2>1, <2>5, <2>6
<1> HIDE DEF D
<1>5. \A i \in 0..N : i \in D
  BY <1>1, <1>3, <1>4, UpTo
<1> QED
  BY <1>5 DEF D, N, led

\* A batch leaves a sound ledger, whichever of its calls fail.
LEMMA WrappedKeeps ==
  ASSUME NEW ch, Sound(ch), NEW calls, GoodBatch(calls, ch.next)
  PROVE  Sound(Wrapped(ch, calls)) /\ Kept(ch, Wrapped(ch, calls))
<1>1. Len(calls) \in 0..Len(calls)
  <2>1. Len(calls) \in Nat
    BY BatchCalls
  <2> QED
    BY <2>1
<1> QED
  BY <1>1, LedgersKeep DEF Wrapped

-----------------------------------------------------------------------------
\* Clients.

\* there is a pool of a and b, and not the one whose liquidity is burnt
HasPool(ch, a, b) ==
  \E l \in DOMAIN ch.pools : l # GivenPool /\ DOMAIN ch.pools[l].res = {a, b}

\* five ids that differ, each with a pool with the next
Chained(ch, ids) ==
  /\ \A i, j \in 1..5 : ids[i] = ids[j] => i = j
  /\ ids = [i \in 1..5 |-> ids[i]]
  /\ \A i \in 1..5 : HasPool(ch, ids[i], Next5(ids, i))

\* What a client has read when it comes to step k of script s, with outcome o:
\* the ids it issued, the numbers it computes with, the pool it made.
Local(ch, s, k, o, l) ==
  /\ s \in Issuers => /\ l.ids \in Seq(0..(ch.next - 1))
                      /\ k = 0 => l.ids = <<>>
                      /\ k = 1 => Len(l.ids) = IF s = "thirdParty" THEN 2 ELSE 1
  /\ s = "customPool" /\ k = 1 => l.read \in {1, 2, -1, -2}
  /\ s = "giveTokens" /\ k = 1 => l.read \in Nat
  /\ s = "burnAll" => k \in 0..2 /\ l.ids \in Seq(Int) /\ Len(l.ids) = k
  /\ s = "joinFew" => /\ k >= 2 => l.read \in Nat
                      /\ k >= 4 => l.ids \in Seq(Nat) /\ Len(l.ids) = 1
  /\ s = "delegators" /\ k >= 2 =>
       l.read \in Nat /\ (l.liq # Native => l.ids \in Seq(Nat) /\ Len(l.ids) = 1)
  /\ s = "addStaked" /\ k = 5 => l.read \in Nat
  /\ s = "vote" /\ k = 2 => l.ids \in Seq(Range(l.ids))
  /\ s = "poolIfMissing" => /\ k >= 2 => HasPool(ch, Native, Wanted)
                            /\ k = 3 => l.liq = LiqId(ch, Native, Wanted)
                            /\ o \in {"running", "met"}
  /\ s = "fivePools" /\ o = "met" => Chained(ch, l.ids)

\* what a client remembers
Fields == {"ids", "liq", "read"}

\* how a script stands
Outcomes == {"running", "met", "missed", "threw"}

\* The inductive invariant.
Inv ==
  /\ Sound(chain)
  /\ \A c \in Clients, i \in 1..5 : Granted[c][i] < chain.next
  /\ script \in [Clients -> Scripts] /\ pc \in [Clients -> 0..8] /\ outcome \in [Clients -> Outcomes]
  /\ DOMAIN loc = Clients
  /\ \A c \in Clients : DOMAIN loc[c] = Fields /\ Local(chain, script[c], pc[c], outcome[c], loc[c])

\* A pool that a script relies on stays.
LEMMA HasPoolLater ==
  ASSUME NEW ch, NEW new, Kept(ch, new), NEW a, NEW b, HasPool(ch, a, b)
  PROVE  HasPool(new, a, b)
BY DEF Kept, HasPool

\* A pool of a pair other than that of the given pool is not the given one.
LEMMA FoundPool ==
  ASSUME NEW ch, Sound(ch), NEW a, NEW b, {a, b} # {Native, Given}, PoolsOf(ch, a, b) # {}
  PROVE  HasPool(ch, a, b)
<1>1. PICK l : l \in DOMAIN ch.pools /\ DOMAIN ch.pools[l].res = {a, b}
  BY DEF PoolsOf
<1>2. l # GivenPool
  BY <1>1 DEF Sound, PoolsSound
<1> QED
  BY <1>1, <1>2 DEF HasPool

\* A pool of the pair is among those that are looked up.
LEMMA PoolFound ==
  ASSUME NEW ch, NEW a, NEW b, HasPool(ch, a, b)
  PROVE  PoolsOf(ch, a, b) # {}
BY DEF HasPool, PoolsOf

\* What other clients do leaves a client what it has read.
LEMMA LocalLater ==
  ASSUME NEW ch, Sound(ch), NEW new, Sound(new), Kept(ch, new),
         NEW s, NEW k \in Nat, NEW o, NEW l, Local(ch, s, k, o, l)
  PROVE  Local(new, s, k, o, l)
<1>1. s \in Issuers => l.ids \in Seq(0..(new.next - 1))
  <2>1. 0..(ch.next - 1) \subseteq 0..(new.next - 1)
    BY DEF Kept
  <2>2. \A S, T : S \subseteq T => Seq(S) \subseteq Seq(T)
    OBVIOUS
  <2> HAVE s \in Issuers
  <2>3. l.ids \in Seq(0..(ch.next - 1))
    BY DEF Local
  <2> QED
    BY <2>1, <2>2, <2>3
<1>2. s = "poolIfMissing" /\ k >= 2 => HasPool(new, Native, Wanted)
  BY HasPoolLater DEF Local
<1>3. s = "poolIfMissing" /\ k = 3 => l.liq = LiqId(new, Native, Wanted)
  <2> SUFFICES ASSUME s = "poolIfMissing", k = 3
               PROVE  l.liq = LiqId(new, Native, Wanted)
    OBVIOUS
  <2>1. HasPool(ch, Native, Wanted) /\ l.liq = LiqId(ch, Native, Wanted)
    BY DEF Local
  <2>2. PICK i \in DOMAIN ch.pools : i # GivenPool /\ DOMAIN ch.pools[i].res = {Native, Wanted}
    BY <2>1 DEF HasPool
  <2>3. i \in DOMAIN new.pools /\ DOMAIN new.pools[i].res = {Native, Wanted}
    BY <2>2 DEF Kept
  <2>4. i \in PoolsOf(ch, Native, Wanted) /\ i \in PoolsOf(new, Native, Wanted)
    BY <2>2, <2>3 DEF PoolsOf
  <2>5. PoolsSound(ch.pools, ch.next) /\ PoolsSound(new.pools, new.next)
    BY DEF Sound
  <2>6. i = LiqId(ch, Native, Wanted) /\ i = LiqId(new, Native, Wanted)
    BY <2>4, <2>5, PoolsOfPair
  <2> QED
    BY <2>1, <2>6
<1>4. s = "fivePools" /\ o = "met" => Chained(new, l.ids)
  BY HasPoolLater DEF Local, Chained
<1> QED
  BY <1>1, <1>2, <1>3, <1>4 DEF Local

-----------------------------------------------------------------------------
\* Steps.

\* the others stay where they are
Moves(c) ==
  /\ script' = script /\ DOMAIN loc' = Clients
  /\ pc' \in [Clients -> 0..8] /\ outcome' \in [Clients -> Outcomes]
  /\ \A d \in Clients \ {c} : pc'[d] = pc[d] /\ loc'[d] = loc[d] /\ outcome'[d] = outcome[d]

\* A step of one client keeps the invariant if the ledger stays sound and the client has
\* read what its next step needs.
LEMMA MoveKeeps ==
  ASSUME Inv, NEW c \in Clients, Moves(c), Sound(chain'), Kept(chain, chain'),
         DOMAIN loc'[c] = Fields,
         Local(chain', script[c], pc'[c], outcome'[c], loc'[c])
  PROVE  Inv'
<1>1. \A d \in Clients, i \in 1..5 : Granted[d][i] < chain'.next
  <2> TAKE d \in Clients, i \in 1..5
  <2>1. Granted[d][i] < chain.next /\ Granted[d][i] \in Nat
    BY SetupAssumption DEF Inv
  <2> QED
    BY <2>1 DEF Kept
<1>2. script' \in [Clients -> Scripts]
  BY DEF Inv, Moves
<1>3. pc' \in [Clients -> 0..8] /\ outcome' \in [Clients -> Outcomes]
  BY DEF Inv, Moves
<1>4. \A d \in Clients : DOMAIN loc'[d] = Fields /\ Local(chain', script'[d], pc'[d], outcome'[d], loc'[d])
  <2> TAKE d \in Clients
  <2>1. CASE d = c
    BY <2>1 DEF Moves
  <2>2. CASE d # c
    <3>1. /\ pc'[d] = pc[d] /\ loc'[d] = loc[d] /\ outcome'[d] = outcome[d] /\ script'[d] = script[d]
          /\ DOMAIN loc[d] = Fields /\ Local(chain, script[d], pc[d], outcome[d], loc[d])
          /\ Sound(chain) /\ pc[d] \in Nat
      BY <2>2 DEF Inv, Moves
    <3>2. Local(chain', script[d], pc[d], outcome[d], loc[d])
      BY <3>1, LocalLater
    <3> QED
      BY <3>1, <3>2
  <2> QED
    BY <2>1, <2>2
<1> QED
  BY <1>1, <1>2, <1>3, <1>4 DEF Inv, Moves

\* A script that returns or throws, and stays at its step.
Ends(c) == script' = script /\ pc' = pc /\ \E o \in Outcomes : outcome' = [outcome EXCEPT ![c] = o]

\* The ledger stays sound and keeps its pools.
Steady == Sound(chain') /\ Kept(chain, chain')

\* It does under a batch of good calls.
LEMMA SentSteady ==
  ASSUME Inv, NEW calls, GoodBatch(calls, chain.next), chain' = Wrapped(chain, calls)
  PROVE  Steady
BY WrappedKeeps DEF Inv, Steady

\* Nothing changes while a client only looks.
LEMMA LookSteady ==
  ASSUME Inv, Look
  PROVE  Steady
BY ReflexiveKept DEF Inv, Look, Steady

\* What a client has read is still so.
LEMMA StillLocal ==
  ASSUME Inv, NEW c \in Clients, NEW s, NEW k, At(c, s, k), Steady
  PROVE  /\ Local(chain', s, k, "running", loc[c])
         /\ Local(chain, s, k, "running", loc[c])
         /\ k \in 0..8 /\ script[c] = s
<1>1. Local(chain, s, k, "running", loc[c]) /\ k \in 0..8 /\ script[c] = s /\ Sound(chain)
  BY DEF Inv, At
<1>2. k \in Nat
  BY <1>1
<1> QED
  BY <1>1, <1>2, LocalLater DEF Steady

\* What a client has read at step k is enough for step m.
Follows(s, k, m) == \A ch, l : Local(ch, s, k, "running", l) => Local(ch, s, m, "running", l)

\* A client goes on with what it has read.
LEMMA GotoKeeps ==
  ASSUME Inv, NEW c \in Clients, NEW s, NEW k, At(c, s, k), Steady,
         NEW m \in 0..8, Goto(c, m), Follows(s, k, m), UNCHANGED loc
  PROVE  Inv'
<1>1. Local(chain', s, m, "running", loc[c]) /\ script[c] = s
  BY StillLocal DEF Follows
<1>2. Moves(c) /\ pc'[c] = m /\ outcome'[c] = "running" /\ loc'[c] = loc[c] /\ DOMAIN loc'[c] = Fields
  BY DEF Goto, Moves, At, Inv
<1> QED
  BY <1>1, <1>2, MoveKeeps DEF Steady

\* A client goes on with something that it has read.
LEMMA LearnGotoKeeps ==
  ASSUME Inv, NEW c \in Clients, NEW s, NEW k, At(c, s, k), Steady,
         NEW m \in 0..8, Goto(c, m), NEW f \in Fields, NEW v, Learn(c, f, v),
         Local(chain', s, m, "running", [loc[c] EXCEPT ![f] = v])
  PROVE  Inv'
<1>1. script[c] = s /\ outcome[c] = "running"
  BY DEF At
<1>2. /\ loc' = [loc EXCEPT ![c] = [loc[c] EXCEPT ![f] = v]] /\ DOMAIN loc = Clients /\ DOMAIN loc[c] = Fields
  BY DEF Learn, Inv
<1>3. loc'[c] = [loc[c] EXCEPT ![f] = v] /\ DOMAIN loc'[c] = Fields
  BY <1>2
<1>4. Moves(c) /\ pc'[c] = m /\ outcome'[c] = "running"
  BY <1>1, <1>2 DEF Goto, Moves, Inv
<1> QED
  BY <1>1, <1>3, <1>4, MoveKeeps DEF Steady

\* A client goes on with all that it has read replaced.
LEMMA ReplaceGotoKeeps ==
  ASSUME Inv, NEW c \in Clients, NEW s, NEW k, At(c, s, k), Steady,
         NEW m \in 0..8, Goto(c, m), NEW l, loc' = [loc EXCEPT ![c] = l], DOMAIN l = Fields,
         Local(chain', s, m, "running", l)
  PROVE  Inv'
<1>1. script[c] = s /\ outcome[c] = "running" /\ DOMAIN loc = Clients
  BY DEF At, Inv
<1>2. loc'[c] = l
  BY <1>1
<1>3. Moves(c) /\ pc'[c] = m /\ outcome'[c] = "running"
  BY <1>1 DEF Goto, Moves, Inv
<1> QED
  BY <1>1, <1>2, <1>3, MoveKeeps DEF Steady

\* A client that ends has read what it had read; two scripts promise more then.
LEMMA EndKeeps ==
  ASSUME Inv, NEW c \in Clients, NEW s, NEW k, At(c, s, k), Steady,
         s \notin {"poolIfMissing", "fivePools"}, Ends(c), UNCHANGED loc
  PROVE  Inv'
<1>1. Local(chain', s, k, "running", loc[c]) /\ script[c] = s /\ pc[c] = k /\ k \in 0..8
  BY StillLocal DEF At
<1>2. PICK o \in Outcomes : outcome' = [outcome EXCEPT ![c] = o]
  BY DEF Ends
<1>3. Local(chain', s, k, o, loc[c])
  BY <1>1 DEF Local
<1>4. Moves(c) /\ pc'[c] = k /\ outcome'[c] = o /\ loc'[c] = loc[c] /\ DOMAIN loc'[c] = Fields
  BY <1>1, <1>2 DEF Ends, Moves, Inv
<1> QED
  BY <1>1, <1>3, <1>4, MoveKeeps DEF Steady

-----------------------------------------------------------------------------
\* The batches that the scripts send.

\* Nothing is a batch.
LEMMA BatchNone ==
  ASSUME NEW next
  PROVE  GoodBatch(<<>>, next)
<1> DEFINE S == {}  calls == <<>>
<1>1. calls \in Seq(S) /\ \A q \in S : Good(q, next)
  OBVIOUS
<1> HIDE DEF S, calls
<1>2. GoodBatch(calls, next)
  BY <1>1 DEF GoodBatch
<1> QED
  BY <1>2 DEF calls

\* One call is a batch.
LEMMA BatchOne ==
  ASSUME NEW next, NEW x, Good(x, next)
  PROVE  GoodBatch(<<x>>, next)
<1> DEFINE S == {x}  calls == <<x>>
<1>1. calls \in Seq(S) /\ \A q \in S : Good(q, next)
  OBVIOUS
<1> HIDE DEF S, calls
<1>2. GoodBatch(calls, next)
  BY <1>1 DEF GoodBatch
<1> QED
  BY <1>2 DEF calls

\* So are two.
LEMMA BatchPair ==
  ASSUME NEW next, NEW x, NEW y, Good(x, next), Good(y, next)
  PROVE  GoodBatch(<<x, y>>, next)
<1> DEFINE S == {x, y}  calls == <<x, y>>
<1>1. calls \in Seq(S) /\ \A q \in S : Good(q, next)
  OBVIOUS
<1> HIDE DEF S, calls
<1>2. GoodBatch(calls, next)
  BY <1>1 DEF GoodBatch
<1> QED
  BY <1>2 DEF calls

\* So are three.
LEMMA BatchThree ==
  ASSUME NEW next, NEW x, NEW y, NEW z, Good(x, next), Good(y, next), Good(z, next)
  PROVE  GoodBatch(<<x, y, z>>, next)
<1> DEFINE S == {x, y, z}  calls == <<x, y, z>>
<1>1. calls \in Seq(S) /\ \A q \in S : Good(q, next)
  OBVIOUS
<1> HIDE DEF S, calls
<1>2. GoodBatch(calls, next)
  BY <1>1 DEF GoodBatch
<1> QED
  BY <1>2 DEF calls

\* So are four.
LEMMA BatchFour ==
  ASSUME NEW next, NEW w, NEW x, NEW y, NEW z,
         Good(w, next), Good(x, next), Good(y, next), Good(z, next)
  PROVE  GoodBatch(<<w, x, y, z>>, next)
<1> DEFINE S == {w, x, y, z}  calls == <<w, x, y, z>>
<1>1. calls \in Seq(S) /\ \A q \in S : Good(q, next)
  OBVIOUS
<1> HIDE DEF S, calls
<1>2. GoodBatch(calls, next)
  BY <1>1 DEF GoodBatch
<1> QED
  BY <1>2 DEF calls

\* So are five.
LEMMA BatchFive ==
  ASSUME NEW next, NEW v, NEW w, NEW x, NEW y, NEW z,
         Good(v, next), Good(w, next), Good(x, next), Good(y, next), Good(z, next)
  PROVE  GoodBatch(<<v, w, x, y, z>>, next)
<1> DEFINE S == {v, w, x, y, z}  calls == <<v, w, x, y, z>>
<1>1. calls \in Seq(S) /\ \A q \in S : Good(q, next)
  OBVIOUS
<1> HIDE DEF S, calls
<1>2. GoodBatch(calls, next)
  BY <1>1 DEF GoodBatch
<1> QED
  BY <1>2 DEF calls

\* So are eight.
LEMMA BatchEight ==
  ASSUME NEW next, NEW s, NEW t, NEW u, NEW v, NEW w, NEW x, NEW y, NEW z,
         Good(s, next), Good(t, next), Good(u, next), Good(v, next),
         Good(w, next), Good(x, next), Good(y, next), Good(z, next)
  PROVE  GoodBatch(<<s, t, u, v, w, x, y, z>>, next)
<1> DEFINE S == {s, t, u, v, w, x, y, z}  calls == <<s, t, u, v, w, x, y, z>>
<1>1. calls \in Seq(S) /\ \A q \in S : Good(q, next)
  OBVIOUS
<1> HIDE DEF S, calls
<1>2. GoodBatch(calls, next)
  BY <1>1 DEF GoodBatch
<1> QED
  BY <1>2 DEF calls

\* calls of one kind, one for each of a list
LEMMA BatchEach ==
  ASSUME NEW next, NEW n \in Nat, NEW calls, calls = [i \in 1..n |-> calls[i]],
         \A i \in 1..n : Good(calls[i], next)
  PROVE  GoodBatch(calls, next)
<1> DEFINE S == {calls[i] : i \in 1..n}
<1>1. calls \in Seq(S)
  <2>1. calls \in [1..n -> S]
    OBVIOUS
  <2> HIDE DEF S
  <2> QED
    BY <2>1
<1>2. \A x \in S : Good(x, next)
  OBVIOUS
<1> QED
  BY <1>1, <1>2 DEF GoodBatch

\* The extrinsics of Assets, Xyk, ProofOfStake, Council and Maintenance are good calls.
LEMMA GoodCalls ==
  ASSUME NEW next
  PROVE  /\ Good(Tge, next) /\ Good(Issuance, next)
         /\ \A t, u : \A n \in Nat : Good(Mint(t, u, n), next)
         /\ \A u : \A n \in Nat : Good(Create(u, n), next)
         /\ \A u, n, max : \A a, b : n \in Int => Good(MintLiquidity(u, a, b, n, max), next)
         /\ \A l : Good(Promote(l), next) /\ Good(AddStaking(l), next)
         /\ \A u, l : \A n \in Int : Good(Activate(u, l, n), next)
         /\ \A u, l : Good(ReserveVested(u, l), next)
         /\ \A f : Good(SetFee(f), next) /\ Good(Switch(f), next)
         /\ \A u, h, n : Good(Propose(u, h, n), next) /\ Good(Vote(u, h), next)
         /\ \A h : Good(Close(h), next) /\ Good(Veto(h), next)
<1>1. Good(Tge, next) /\ Good(Issuance, next)
  BY DEF Good, Quiet, Tge, Issuance
<1>2. \A t, u : \A n \in Nat : Good(Mint(t, u, n), next)
  BY DEF Good, Quiet, Mint
<1>3. \A u : \A n \in Nat : Good(Create(u, n), next)
  BY DEF Good, Quiet, Create
<1>4. \A u, n, max : \A a, b : n \in Int => Good(MintLiquidity(u, a, b, n, max), next)
  BY DEF Good, Quiet, MintLiquidity
<1>5. \A l : Good(Promote(l), next) /\ Good(AddStaking(l), next)
  BY DEF Good, Quiet, Promote, AddStaking
<1>6. \A u, l : \A n \in Int : Good(Activate(u, l, n), next)
  BY DEF Good, Quiet, Activate
<1>7. \A u, l : Good(ReserveVested(u, l), next)
  BY DEF Good, Quiet, ReserveVested
<1>8. \A f : Good(SetFee(f), next) /\ Good(Switch(f), next)
  BY DEF Good, Quiet, SetFee, Switch
<1>9. \A u, h, n : Good(Propose(u, h, n), next) /\ Good(Vote(u, h), next)
  BY DEF Good, Quiet, Propose, Vote
<1>10. \A h : Good(Close(h), next) /\ Good(Veto(h), next)
  BY DEF Good, Quiet, Close, Veto
<1> QED
  BY <1>1, <1>2, <1>3, <1>4, <1>5, <1>6, <1>7, <1>8, <1>9, <1>10

\* So is createPool of tokens that have been issued,
LEMMA GoodCreatePool ==
  ASSUME NEW next, NEW u, NEW a \in 0..(next - 1), NEW b \in 0..(next - 1), NEW n \in Int, NEW m \in Int
  PROVE  Good(CreatePool(u, a, n, b, m), next)
BY DEF Good, CreatePool

\* a bond,
LEMMA GoodBond ==
  ASSUME NEW next, NEW u, NEW l, NEW n \in Nat, NEW from \in {"free", "active"}
  PROVE  Good(Bond(u, l, n, from), next)
BY DEF Good, Bond

\* what deals with rewards and vesting,
LEMMA GoodRewards ==
  ASSUME NEW next, NEW u, NEW l, NEW a, NEW b, NEW t, NEW n \in Nat
  PROVE  /\ Good(RewardPool(u, a, b, t, n), next) /\ Good(Activate3(u, l, n, t), next)
         /\ Good(Vest(a, u, n), next) /\ Good(MintVested(u, b, n, t), next)
BY DEF Good, RewardPool, Activate3, Vest, MintVested

\* burnLiquidity of the given pool,
LEMMA GoodBurn ==
  ASSUME NEW next, NEW u, NEW n \in Int
  PROVE  Good(BurnLiquidity(u, GivenPool, n), next)
BY DEF Good, BurnLiquidity

\* and setMembers.
LEMMA GoodMembers ==
  ASSUME NEW next, NEW S, IsFiniteSet(S)
  PROVE  Good(SetMembers(S), next)
BY DEF Good, SetMembers

\* Mints for each of a list of users are a batch.
LEMMA BatchMintAll ==
  ASSUME NEW next, NEW t, NEW users, Len(users) \in Nat, DOMAIN users = 1..Len(users), NEW n \in Nat
  PROVE  GoodBatch(MintAll(t, users, n), next)
<1> DEFINE calls == MintAll(t, users, n)
<1>1. calls = [i \in 1..Len(users) |-> Mint(t, users[i], n)]
  BY DEF MintAll
<1>2. calls = [i \in 1..Len(users) |-> calls[i]] /\ \A i \in 1..Len(users) : Good(calls[i], next)
  BY <1>1, GoodCalls
<1> HIDE DEF calls
<1>3. GoodBatch(calls, next)
  BY <1>2, BatchEach
<1> QED
  BY <1>3 DEF calls

\* the lists of users that are minted to
LEMMA Users ==
  ASSUME NEW c
  PROVE  \A users \in {<<Sudo>>, <<Fresh(c, 1)>>, DefaultUsers, Own(c), Joiners(c)} :
           Len(users) \in Nat /\ DOMAIN users = 1..Len(users)
BY DEF DefaultUsers, Own, Joiners

\* The amounts that the scripts compute with are numbers.
LEMMA Amounts ==
  /\ Amount \in Nat \ {0} /\ Amount * 2 \in Nat /\ Amount * 3 \in Nat /\ Amount * 10 \in Nat /\ Amount * 20 \in Nat
  /\ Amount \div 2 \in Nat \ {0} /\ Amount \div 10 \in Nat /\ Amount * Amount \in Nat
  /\ Amount \in Int /\ Amount * 3 \in Int /\ Amount \div 2 \in Int /\ Amount \div 10 \in Int
  /\ Joining \in Nat /\ Joining * 2 \in Nat /\ Joining * 3 \in Nat /\ Joining * 10 \in Nat /\ Joining * Lots \in Nat
  /\ Joining * 2 \in Int /\ Joining * 10 \in Int
<1>1. Amount \in Nat \ {0} /\ Amount >= 2
  BY SetupAssumption
<1>2. Amount * Amount \in Nat
  BY <1>1, TimesNatural
<1>3. Joining = 5 /\ Lots = 20
  BY DEF Joining, MinBond, Lots
<1> QED
  BY <1>1, <1>2, <1>3

-----------------------------------------------------------------------------
\* What each script keeps.

\* The tokens of the scripts have been issued.
LEMMA TokenIds ==
  ASSUME Inv
  PROVE  /\ chain.next \in Nat /\ Native \in 0..(chain.next - 1) /\ Given \in 0..(chain.next - 1)
         /\ Wanted \in 0..(chain.next - 1) /\ PoolsSound(chain.pools, chain.next) /\ Sound(chain)
BY DEF Inv, Sound, PoolsSound, Native, Given, Wanted

\* Who learns one thing forgets no other.
LEMMA Learned ==
  ASSUME Inv, NEW c \in Clients, NEW f \in Fields, NEW v
  PROVE  /\ [loc[c] EXCEPT ![f] = v][f] = v
         /\ \A g \in Fields \ {f} : [loc[c] EXCEPT ![f] = v][g] = loc[c][g]
BY DEF Inv

\* The token that a client issued is there.
LEMMA IssuedId ==
  ASSUME Inv, NEW c \in Clients, NEW s \in Issuers, s # "thirdParty", At(c, s, 1)
  PROVE  Id(c) \in 0..(chain.next - 1)
<1>1. Local(chain, s, 1, "running", loc[c])
  BY DEF Inv, At
<1>2. loc[c].ids \in Seq(0..(chain.next - 1)) /\ Len(loc[c].ids) = 1
  BY <1>1 DEF Local
<1> DEFINE q == loc[c].ids
<1>3. q \in Seq(0..(chain.next - 1)) /\ Len(q) = 1
  BY <1>2
<1> HIDE DEF q
<1> DEFINE S == 0..(chain.next - 1)
<1> HIDE DEF S
<1>4. q[1] \in S
  <2>1. q \in Seq(S) /\ Len(q) = 1
    BY <1>3 DEF S
  <2> QED
    BY <2>1
<1> QED
  BY <1>4 DEF Id, q, S

\* A batch that creates one token moves the next id by one.
LEMMA CreatedOne ==
  ASSUME NEW ch, Sound(ch), NEW u, NEW n \in Nat
  PROVE  Wrapped(ch, <<Create(u, n)>>).next = ch.next + 1
<1> DEFINE x == Create(u, n)  calls == <<x>>
<1>1. Len(calls) = 1 /\ calls[1] = x /\ Len(calls) \in Nat
  OBVIOUS
<1>2. x.op = "create" /\ x.n \in Nat
  BY DEF Create
<1> HIDE DEF x, calls
<1>3. Wrapped(ch, calls) = Applied(ch, x)
  <2>1. Ledgers(ch, calls)[1] = Applied(Ledgers(ch, calls)[1 - 1], calls[1]) /\ Ledgers(ch, calls)[0] = ch
    BY <1>1, LedgersOf
  <2> QED
    BY <1>1, <2>1 DEF Wrapped
<1>4. Fits(ch, x)
  BY <1>2 DEF Fits
<1>5. Wrapped(ch, calls).next = ch.next + 1
  BY <1>2, <1>3, <1>4, CreateKeeps DEF Applied
<1> QED
  BY <1>5 DEF calls, x

\* What an issuer has to have read: the ids, and one of them the ratio.
LEMMA IssuerLocal ==
  ASSUME NEW ch, NEW s \in Issuers, NEW k \in Nat, NEW o, NEW l
  PROVE  Local(ch, s, k, o, l) <=>
           /\ l.ids \in Seq(0..(ch.next - 1))
           /\ k = 0 => l.ids = <<>>
           /\ k = 1 => Len(l.ids) = IF s = "thirdParty" THEN 2 ELSE 1
           /\ s = "customPool" /\ k = 1 => l.read \in {1, 2, -1, -2}
           /\ s = "addStaked" /\ k = 5 => l.read \in Nat
<1>1. s \notin {"giveTokens", "burnAll", "joinFew", "delegators", "vote", "poolIfMissing", "fivePools"}
  BY DEF Issuers
<1> QED
  BY <1>1 DEF Local

\* sudoIssueAsset: the id that the client is told of is that of the new token.
LEMMA IssueKeeps ==
  ASSUME Inv, NEW c \in Clients, NEW s \in Issuers, s \notin {"thirdParty", "customPool"}, At(c, s, 0),
         NEW u, NEW n \in Nat, Issue(c, u, n), Goto(c, 1)
  PROVE  Inv'
<1>1. chain' = Wrapped(chain, <<Create(u, n)>>) /\ Learn(c, "ids", Append(loc[c].ids, chain.next))
  BY DEF Issue, Send
<1>2. GoodBatch(<<Create(u, n)>>, chain.next)
  BY GoodCalls, BatchOne
<1>3. Steady
  BY <1>1, <1>2, SentSteady
<1>4. chain'.next = chain.next + 1 /\ chain.next \in Nat
  BY <1>1, CreatedOne, TokenIds
<1>5. loc[c].ids = <<>>
  BY DEF Inv, At, Local
<1>6. Append(loc[c].ids, chain.next) = <<chain.next>>
  BY <1>5
<1> DEFINE v == Append(loc[c].ids, chain.next)  l == [loc[c] EXCEPT !["ids"] = v]
<1>7. v \in Seq(0..(chain'.next - 1)) /\ Len(v) = 1
  BY <1>4, <1>6
<1>8. l.ids = v
  <2>1. DOMAIN loc[c] = Fields /\ "ids" \in Fields
    BY DEF Inv, Fields
  <2> HIDE DEF v
  <2> QED
    BY <2>1
<1> HIDE DEF v, l
<1>9. Local(chain', s, 1, "running", l)
  <2> DEFINE ch == chain'  k == 1  o == "running"
  <2>1. /\ l.ids \in Seq(0..(ch.next - 1)) /\ (k = 0 => l.ids = <<>>)
        /\ (k = 1 => Len(l.ids) = IF s = "thirdParty" THEN 2 ELSE 1)
        /\ (s = "customPool" /\ k = 1 => l.read \in {1, 2, -1, -2})
        /\ (s = "addStaked" /\ k = 5 => l.read \in Nat)
    BY <1>7, <1>8
  <2>2. k \in Nat
    OBVIOUS
  <2> HIDE DEF ch, k, o
  <2>3. Local(ch, s, k, o, l)
    BY <2>1, <2>2, IssuerLocal
  <2> QED
    BY <2>3 DEF ch, k, o
<1>10. Learn(c, "ids", v) /\ "ids" \in Fields /\ 1 \in 0..8
  BY <1>1 DEF v, Fields
<1>11. Local(chain', s, 1, "running", [loc[c] EXCEPT !["ids"] = v])
  BY <1>9 DEF l
<1> QED
  BY <1>3, <1>10, <1>11, LearnGotoKeeps

\* A client reads which token the pool of its two tokens has.
LEMMA ReadLiquidityKeeps ==
  ASSUME Inv, NEW c \in Clients, NEW s \in Issuers, At(c, s, 2), NEW a, NEW b,
         ReadLiquidity(c, a, b), Goto(c, 3)
  PROVE  Inv'
<1>1. Learn(c, "liq", LiqId(chain, a, b)) /\ Steady
  BY LookSteady DEF ReadLiquidity
<1> DEFINE v == LiqId(chain, a, b)  l == [loc[c] EXCEPT !["liq"] = v]
<1>2. l.ids = loc[c].ids /\ l.read = loc[c].read
  BY Learned DEF Fields
<1>3. Local(chain', s, 2, "running", loc[c])
  BY <1>1, StillLocal
<1> HIDE DEF v, l
<1>4. Local(chain', s, 3, "running", l)
  BY <1>2, <1>3 DEF Local, Issuers
<1> QED
  BY <1>1, <1>4, LearnGotoKeeps DEF v, l, Fields

\* The steps that setupPoolWithRewardsForDefaultUsers and the command line share.
LEMMA RewardPoolStepsKeep ==
  ASSUME Inv, NEW c \in Clients, NEW s \in {"poolRewards", "collator"}, RewardPoolSteps(c, s)
  PROVE  Inv'
<1>0. s \in Issuers /\ s \notin {"thirdParty", "customPool", "poolIfMissing", "fivePools"}
  BY DEF Issuers
<1>1. CASE At(c, s, 0) /\ Issue(c, Sudo, Amount) /\ Goto(c, 1)
  BY <1>0, <1>1, IssueKeeps, Amounts
<1>2. CASE /\ At(c, s, 1)
           /\ Send(c, <<Tge, Issuance>> \o MintAll(Id(c), DefaultUsers, Amount) \o MintAll(Native, DefaultUsers, Amount)
                      \o <<CreatePool(Bob, Native, Amount \div 10, Id(c), Amount \div 10)>>)
           /\ Goto(c, 2) /\ UNCHANGED loc
  <2> DEFINE calls == <<Tge, Issuance>> \o MintAll(Id(c), DefaultUsers, Amount) \o MintAll(Native, DefaultUsers, Amount)
                      \o <<CreatePool(Bob, Native, Amount \div 10, Id(c), Amount \div 10)>>
  <2>1. /\ GoodBatch(MintAll(Id(c), DefaultUsers, Amount), chain.next)
        /\ GoodBatch(MintAll(Native, DefaultUsers, Amount), chain.next)
    BY BatchMintAll, Users, Amounts
  <2>2. GoodBatch(<<CreatePool(Bob, Native, Amount \div 10, Id(c), Amount \div 10)>>, chain.next)
    <3>1. Id(c) \in 0..(chain.next - 1) /\ Native \in 0..(chain.next - 1) /\ Amount \div 10 \in Int
      BY <1>0, <1>2, IssuedId, TokenIds, Amounts
    <3>2. Good(CreatePool(Bob, Native, Amount \div 10, Id(c), Amount \div 10), chain.next)
      BY <3>1, GoodCreatePool
    <3> QED
      BY <3>2, BatchOne
  <2>3. GoodBatch(<<Tge, Issuance>>, chain.next)
    BY GoodCalls, BatchPair
  <2>4. GoodBatch(calls, chain.next)
    BY <2>1, <2>2, <2>3, BatchTwo
  <2>5. Steady
    BY <1>2, <2>4, SentSteady DEF Send
  <2>6. Follows(s, 1, 2)
    BY DEF Follows, Local
  <2> QED
    BY <1>2, <2>5, <2>6, GotoKeeps
<1>3. CASE At(c, s, 2) /\ ReadLiquidity(c, Native, Id(c)) /\ Goto(c, 3)
  BY <1>0, <1>3, ReadLiquidityKeeps
<1>4. CASE At(c, s, 3) /\ UNCHANGED loc /\ loc[c].liq = NoPool /\ Throw(c) /\ Look
  <2>1. Ends(c)
    BY <1>4 DEF Throw, Ends, Outcomes
  <2> QED
    BY <1>0, <1>4, <2>1, LookSteady, EndKeeps
<1>5. CASE /\ At(c, s, 3) /\ UNCHANGED loc
           /\ Send(c, <<Promote(loc[c].liq)>> \o Provisions(Id(c), Amount \div 10, Amount)) /\ Goto(c, 4)
  <2>1. GoodBatch(Provisions(Id(c), Amount \div 10, Amount), chain.next)
    <3> DEFINE calls == Provisions(Id(c), Amount \div 10, Amount)
    <3>0. calls = [i \in 1..2 |-> MintLiquidity(DefaultUsers[i], Native, Id(c), Amount \div 10, Amount)]
      BY DEF Provisions, DefaultUsers
    <3>1. calls = [i \in 1..2 |-> calls[i]] /\ \A i \in 1..2 : Good(calls[i], chain.next)
      BY <3>0, GoodCalls, Amounts
    <3> HIDE DEF calls
    <3>2. GoodBatch(calls, chain.next)
      BY <3>1, BatchEach
    <3> QED
      BY <3>2 DEF calls
  <2>4. GoodBatch(<<Promote(loc[c].liq)>>, chain.next)
    BY GoodCalls, BatchOne
  <2>5. GoodBatch(<<Promote(loc[c].liq)>> \o Provisions(Id(c), Amount \div 10, Amount), chain.next)
    BY <2>1, <2>4, BatchTwo
  <2>2. Steady
    BY <1>5, <2>5, SentSteady DEF Send
  <2>3. Follows(s, 3, 4)
    BY DEF Follows, Local
  <2> QED
    BY <1>5, <2>2, <2>3, GotoKeeps
<1> QED
  BY <1>1, <1>2, <1>3, <1>4, <1>5 DEF RewardPoolSteps

\* setupPoolWithRewardsForDefaultUsers.
LEMMA PoolWithRewardsKeeps ==
  ASSUME Inv, NEW c \in Clients, PoolWithRewards(c)
  PROVE  Inv'
<1>1. CASE RewardPoolSteps(c, "poolRewards")
  BY <1>1, RewardPoolStepsKeep
<1>2. CASE /\ At(c, "poolRewards", 4) /\ Look /\ UNCHANGED loc
           /\ Return(c, CanEarn(chain, Eve, loc[c].liq))
  <2>1. Ends(c)
    BY <1>2 DEF Return, Ends, Outcomes
  <2> QED
    BY <1>2, <2>1, LookSteady, EndKeeps
<1> QED
  BY <1>1, <1>2 DEF PoolWithRewards

-----------------------------------------------------------------------------
\* One step of a script: what it sends is good, and it goes on or ends.

\* It sends a batch and goes on.
LEMMA SendGotoKeeps ==
  ASSUME Inv, NEW c \in Clients, NEW s, NEW k, At(c, s, k), NEW calls, GoodBatch(calls, chain.next),
         Send(c, calls), UNCHANGED loc, NEW m \in 0..8, Goto(c, m), Follows(s, k, m)
  PROVE  Inv'
<1>1. Steady
  BY SentSteady DEF Send
<1> QED
  BY <1>1, GotoKeeps

\* It sends its last batch.
LEMMA SendEndKeeps ==
  ASSUME Inv, NEW c \in Clients, NEW s, NEW k, At(c, s, k), NEW calls, GoodBatch(calls, chain.next),
         Send(c, calls), UNCHANGED loc, Ends(c), s \notin {"poolIfMissing", "fivePools"}
  PROVE  Inv'
<1>1. Steady
  BY SentSteady DEF Send
<1> QED
  BY <1>1, EndKeeps

\* It looks at the chain and goes on.
LEMMA LookGotoKeeps ==
  ASSUME Inv, NEW c \in Clients, NEW s, NEW k, At(c, s, k), Look, UNCHANGED loc,
         NEW m \in 0..8, Goto(c, m), Follows(s, k, m)
  PROVE  Inv'
BY LookSteady, GotoKeeps

\* It looks at the chain and ends.
LEMMA LookEndKeeps ==
  ASSUME Inv, NEW c \in Clients, NEW s, NEW k, At(c, s, k), Look, UNCHANGED loc,
         Ends(c), s \notin {"poolIfMissing", "fivePools"}
  PROVE  Inv'
BY LookSteady, EndKeeps

\* It throws.
LEMMA ThrowKeeps ==
  ASSUME Inv, NEW c \in Clients, NEW s, NEW k, At(c, s, k), Look, UNCHANGED loc,
         Throw(c), s \notin {"poolIfMissing", "fivePools"}
  PROVE  Inv'
<1>1. Ends(c)
  BY DEF Throw, Ends, Outcomes
<1> QED
  BY <1>1, LookEndKeeps

\* It reads something and goes on.
LEMMA LookLearnKeeps ==
  ASSUME Inv, NEW c \in Clients, NEW s, NEW k, At(c, s, k), Look,
         NEW m \in 0..8, Goto(c, m), NEW f \in Fields, NEW v, Learn(c, f, v),
         Local(chain', s, m, "running", [loc[c] EXCEPT ![f] = v])
  PROVE  Inv'
BY LookSteady, LearnGotoKeeps

\* Past the first step an issuer knows enough.
LEMMA IssuerFollows ==
  ASSUME NEW s \in Issuers, NEW k \in Nat, NEW m \in Nat, m >= 2, m # 5
  PROVE  Follows(s, k, m)
<1>1. s \notin {"giveTokens", "burnAll", "joinFew", "delegators", "vote", "poolIfMissing", "fivePools"}
  BY DEF Issuers
<1> QED
  BY <1>1 DEF Follows, Local

\* The other scripts need not know anything.
Plain == {"aPool", "feeClear", "feeAdd", "addNative", "addThirdParty", "unspentGiven", "join", "mint",
          "enable", "maintenance", "close", "veto"}

\* Wherever they are, what is read of them is nothing.
LEMMA PlainLocal ==
  ASSUME NEW s \in Plain, NEW ch, NEW k, NEW o, NEW l
  PROVE  Local(ch, s, k, o, l)
BY DEF Plain, Local, Issuers

\* So they can go anywhere.
LEMMA PlainFollows ==
  ASSUME NEW s \in Plain, NEW k, NEW m
  PROVE  Follows(s, k, m)
BY PlainLocal DEF Follows

-----------------------------------------------------------------------------
\* setupTokenWithRewardsForDefaultUsers.

\* It issues a token, has the users provide, and activates their liquidity.
LEMMA TokenWithRewardsKeeps ==
  ASSUME Inv, NEW c \in Clients, TokenWithRewards(c)
  PROVE  Inv'
<1> DEFINE s == "tokenRewards"
<1>0. s \in Issuers /\ s \notin {"thirdParty", "customPool", "poolIfMissing", "fivePools"}
  BY DEF Issuers
<1>1. CASE At(c, s, 0) /\ Issue(c, Sudo, Amount) /\ Goto(c, 1)
  BY <1>0, <1>1, IssueKeeps, Amounts
<1>2. CASE /\ At(c, s, 1)
           /\ Send(c, <<Tge, Issuance>> \o MintAll(Id(c), DefaultUsers, Amount) \o MintAll(Native, DefaultUsers, Amount))
           /\ Goto(c, 2) /\ UNCHANGED loc
  <2> DEFINE calls == <<Tge, Issuance>> \o MintAll(Id(c), DefaultUsers, Amount) \o MintAll(Native, DefaultUsers, Amount)
  <2>1. /\ GoodBatch(MintAll(Id(c), DefaultUsers, Amount), chain.next)
        /\ GoodBatch(MintAll(Native, DefaultUsers, Amount), chain.next)
    BY BatchMintAll, Users, Amounts
  <2>2. GoodBatch(<<Tge, Issuance>>, chain.next)
    BY GoodCalls, BatchPair
  <2>3. GoodBatch(calls, chain.next)
    BY <2>1, <2>2, BatchTwo
  <2>4. Follows(s, 1, 2)
    BY <1>0, IssuerFollows
  <2> HIDE DEF calls
  <2>5. Send(c, calls)
    BY <1>2 DEF calls
  <2> QED
    BY <1>2, <2>3, <2>4, <2>5, SendGotoKeeps
<1>3. CASE /\ At(c, s, 2)
           /\ Send(c, <<Promote(Id(c))>> \o [i \in DOMAIN DefaultUsers |-> Activate(DefaultUsers[i], Id(c), Amount \div 10)])
           /\ Goto(c, 3) /\ UNCHANGED loc
  <2> DEFINE each == [i \in DOMAIN DefaultUsers |-> Activate(DefaultUsers[i], Id(c), Amount \div 10)]
             calls == <<Promote(Id(c))>> \o each
  <2>1. GoodBatch(each, chain.next)
    <3>1. each = [i \in 1..2 |-> Activate(DefaultUsers[i], Id(c), Amount \div 10)]
      BY DEF DefaultUsers
    <3>2. each = [i \in 1..2 |-> each[i]] /\ \A i \in 1..2 : Good(each[i], chain.next)
      BY <3>1, GoodCalls, Amounts
    <3> HIDE DEF each
    <3> QED
      BY <3>2, BatchEach
  <2>2. GoodBatch(<<Promote(Id(c))>>, chain.next)
    BY GoodCalls, BatchOne
  <2> HIDE DEF each
  <2>3. GoodBatch(calls, chain.next)
    BY <2>1, <2>2, BatchTwo
  <2>4. Follows(s, 2, 3)
    BY <1>0, IssuerFollows
  <2>5. Send(c, calls)
    BY <1>3 DEF each
  <2> HIDE DEF calls
  <2> QED
    BY <1>3, <2>3, <2>4, <2>5, SendGotoKeeps
<1>4. CASE At(c, s, 3) /\ Look /\ UNCHANGED loc /\ Return(c, CanEarn(chain, Eve, Id(c)))
  <2>1. Ends(c)
    BY <1>4 DEF Return, Ends, Outcomes
  <2> QED
    BY <1>0, <1>4, <2>1, LookEndKeeps
<1> QED
  BY <1>1, <1>2, <1>3, <1>4 DEF TokenWithRewards

-----------------------------------------------------------------------------
\* createCustomPool.

\* It issues two tokens in two batches and makes a pool of them at a ratio.
LEMMA CustomPoolKeeps ==
  ASSUME Inv, NEW c \in Clients, CustomPool(c)
  PROVE  Inv'
<1> DEFINE s == "customPool"
<1>0. s \in Issuers /\ s \notin {"poolIfMissing", "fivePools"}
  BY DEF Issuers
<1>1. ASSUME At(c, s, 0), Goto(c, 1), NEW ratio \in {1, 2, -1, -2}, NEW r \in {1, 2},
             loc' = [loc EXCEPT ![c].ids = <<chain.next>>, ![c].read = ratio],
             Send(c, <<Create(Sudo, Amount * r)>>)
      PROVE  Inv'
  <2>1. Amount * r \in Nat
    BY <1>1, Amounts
  <2>2. GoodBatch(<<Create(Sudo, Amount * r)>>, chain.next)
    BY <2>1, GoodCalls, BatchOne
  <2>3. chain' = Wrapped(chain, <<Create(Sudo, Amount * r)>>)
    BY <1>1 DEF Send
  <2>4. Steady
    BY <2>2, <2>3, SentSteady
  <2>5. chain'.next = chain.next + 1 /\ chain.next \in Nat
    BY <2>1, <2>3, CreatedOne, TokenIds
  <2> DEFINE l == [f \in Fields |-> IF f = "ids" THEN <<chain.next>> ELSE IF f = "read" THEN ratio ELSE loc[c][f]]
  <2>6. loc' = [loc EXCEPT ![c] = l]
    <3>1. DOMAIN loc = Clients /\ DOMAIN loc[c] = Fields
      BY DEF Inv
    <3> QED
      BY <1>1, <3>1 DEF Fields
  <2>7. DOMAIN l = Fields /\ l.ids = <<chain.next>> /\ l.read = ratio
    BY DEF Fields
  <2> HIDE DEF l
  <2>8. Local(chain', s, 1, "running", l)
    <3>1. l.ids \in Seq(0..(chain'.next - 1)) /\ Len(l.ids) = 1 /\ l.read \in {1, 2, -1, -2}
      BY <1>1, <2>5, <2>7
    <3> QED
      BY <3>1 DEF Local
  <2> HIDE DEF s
  <2>9. At(c, s, 0) /\ Goto(c, 1) /\ 1 \in 0..8 /\ DOMAIN l = Fields
    BY <1>1, <2>7 DEF s
  <2> QED
    BY <2>4, <2>6, <2>8, <2>9, ReplaceGotoKeeps
<1>2. ASSUME NEW second, second = IF loc[c].read > 0 THEN Amount \div loc[c].read ELSE Amount * (- loc[c].read),
             At(c, s, 1), UNCHANGED loc, Ends(c),
             Send(c, <<Tge, Issuance, Mint(Id(c), Bob, Amount), Mint(Native, Bob, Amount),
                       CreatePool(Bob, Native, Amount, Id(c), second)>>)
      PROVE  Inv'
  <2>1. loc[c].read \in {1, 2, -1, -2}
    <3>1. Local(chain, s, 1, "running", loc[c])
      BY <1>2 DEF Inv, At
    <3> QED
      BY <3>1 DEF Local
  <2>2. second \in Int
    <3>1. CASE loc[c].read = 1
      BY <1>2, <3>1, Amounts
    <3>2. CASE loc[c].read = 2
      BY <1>2, <3>2, Amounts
    <3>3. CASE loc[c].read = -1
      BY <1>2, <3>3, Amounts
    <3>4. CASE loc[c].read = -2
      BY <1>2, <3>4, Amounts
    <3> QED
      BY <2>1, <3>1, <3>2, <3>3, <3>4
  <2>3. Id(c) \in 0..(chain.next - 1) /\ Native \in 0..(chain.next - 1)
    BY <1>0, <1>2, IssuedId, TokenIds
  <2>4. /\ Good(Tge, chain.next) /\ Good(Issuance, chain.next)
        /\ Good(Mint(Id(c), Bob, Amount), chain.next) /\ Good(Mint(Native, Bob, Amount), chain.next)
    BY GoodCalls, Amounts
  <2>5. Good(CreatePool(Bob, Native, Amount, Id(c), second), chain.next)
    BY <2>2, <2>3, GoodCreatePool, Amounts
  <2>6. GoodBatch(<<Tge, Issuance, Mint(Id(c), Bob, Amount), Mint(Native, Bob, Amount),
                    CreatePool(Bob, Native, Amount, Id(c), second)>>, chain.next)
    BY <2>4, <2>5, BatchFive
  <2> QED
    BY <1>0, <1>2, <2>6, SendEndKeeps
<1>3. CASE At(c, s, 0)
  <2>1. PICK ratio \in {1, 2, -1, -2} :
          /\ loc' = [loc EXCEPT ![c].ids = <<chain.next>>, ![c].read = ratio]
          /\ Send(c, <<Create(Sudo, Amount * (IF ratio > 0 THEN ratio ELSE -ratio))>>)
    BY <1>3 DEF CustomPool, At
  <2>2. (IF ratio > 0 THEN ratio ELSE -ratio) \in {1, 2}
    OBVIOUS
  <2>3. Goto(c, 1)
    BY <1>3 DEF CustomPool, At
  <2> QED
    BY <1>1, <1>3, <2>1, <2>2, <2>3
<1>4. CASE At(c, s, 1)
  <2>1. Ends(c)
    BY <1>4 DEF CustomPool, At, Return, Ends, Outcomes
  <2>2. /\ UNCHANGED loc
        /\ Send(c, <<Tge, Issuance, Mint(Id(c), Bob, Amount), Mint(Native, Bob, Amount),
                     CreatePool(Bob, Native, Amount, Id(c),
                                IF loc[c].read > 0 THEN Amount \div loc[c].read ELSE Amount * (- loc[c].read))>>)
    BY <1>4 DEF CustomPool, At
  <2> QED
    BY <1>2, <1>4, <2>1, <2>2
<1> QED
  BY <1>3, <1>4 DEF CustomPool

-----------------------------------------------------------------------------
\* activateAndClaim3rdPartyRewardsForUser.

\* A batch that creates two tokens moves the next id by two.
LEMMA CreatedTwo ==
  ASSUME NEW ch, Sound(ch), NEW u, NEW n \in Nat, NEW v, NEW m \in Nat
  PROVE  Wrapped(ch, <<Create(u, n), Create(v, m)>>).next = ch.next + 2
<1> DEFINE x == Create(u, n)  y == Create(v, m)  calls == <<x, y>>
<1>1. Len(calls) = 2 /\ calls[1] = x /\ calls[2] = y /\ Len(calls) \in Nat
  OBVIOUS
<1>2. x.op = "create" /\ x.n \in Nat /\ y.op = "create" /\ y.n \in Nat
  BY DEF Create
<1> HIDE DEF x, y, calls
<1> DEFINE led == Ledgers(ch, calls)
<1>3. led[0] = ch /\ led[1] = Applied(led[1 - 1], calls[1]) /\ led[2] = Applied(led[2 - 1], calls[2])
  BY <1>1, LedgersOf
<1> HIDE DEF led
<1>4. led[1] = Applied(ch, x) /\ led[2] = Applied(led[1], y)
  BY <1>1, <1>3
<1>5. \A old : Fits(old, x) /\ Fits(old, y)
  BY <1>2 DEF Fits
<1>6. led[1] = After(ch, x) /\ led[2] = After(led[1], y)
  BY <1>4, <1>5 DEF Applied
<1>7. Sound(led[1]) /\ led[1].next = ch.next + 1
  BY <1>2, <1>6, CreateKeeps
<1>8. led[2].next = led[1].next + 1
  BY <1>2, <1>6, <1>7, CreateKeeps
<1>9. ch.next \in Nat
  BY DEF Sound, PoolsSound
<1>10. Wrapped(ch, calls).next = ch.next + 2
  BY <1>1, <1>7, <1>8, <1>9 DEF Wrapped, led
<1> QED
  BY <1>10 DEF calls, x, y

\* The elements of a sequence.
LEMMA Element ==
  ASSUME NEW S, NEW q \in Seq(S), NEW i \in 1..Len(q)
  PROVE  q[i] \in S
OBVIOUS

\* It issues two tokens, makes pools and a schedule, and activates for its reward.
LEMMA ThirdPartyRewardsKeep ==
  ASSUME Inv, NEW c \in Clients, ThirdPartyRewards(c)
  PROVE  Inv'
<1> DEFINE s == "thirdParty"  u == Eve  rewarded == loc[c].ids[1]  paired == loc[c].ids[2]
<1>0. s \in Issuers /\ s \notin {"poolIfMissing", "fivePools"}
  BY DEF Issuers
<1> HIDE DEF u, rewarded, paired
<1>1. CASE /\ At(c, s, 0)
           /\ Learn(c, "ids", <<chain.next, chain.next + 1>>)
           /\ Send(c, <<Create(Sudo, Amount), Create(Sudo, Amount)>>) /\ Goto(c, 1)
  <2>1. GoodBatch(<<Create(Sudo, Amount), Create(Sudo, Amount)>>, chain.next)
    BY GoodCalls, Amounts, BatchPair
  <2>2. chain' = Wrapped(chain, <<Create(Sudo, Amount), Create(Sudo, Amount)>>)
    BY <1>1 DEF Send
  <2>3. Steady
    BY <2>1, <2>2, SentSteady
  <2>4. chain'.next = chain.next + 2 /\ chain.next \in Nat
    BY <2>2, CreatedTwo, TokenIds, Amounts
  <2> DEFINE v == <<chain.next, chain.next + 1>>  l == [loc[c] EXCEPT !["ids"] = v]
  <2>5. v \in Seq(0..(chain'.next - 1)) /\ Len(v) = 2
    BY <2>4
  <2>6. l.ids = v
    BY Learned DEF Fields
  <2> HIDE DEF v, l
  <2>7. Local(chain', s, 1, "running", l)
    BY <1>0, <2>5, <2>6 DEF Local
  <2>8. Local(chain', s, 1, "running", [loc[c] EXCEPT !["ids"] = v])
    BY <2>7 DEF l
  <2>9. Learn(c, "ids", v) /\ "ids" \in Fields /\ 1 \in 0..8
    BY <1>1 DEF v, Fields
  <2> QED
    BY <1>1, <2>3, <2>8, <2>9, LearnGotoKeeps
<1>2. CASE /\ At(c, s, 1)
           /\ Send(c, <<Tge, Issuance, Mint(paired, u, Amount * 10), Mint(Native, u, Amount * 20),
                        Mint(rewarded, Sudo, Amount * 10), Mint(Native, Sudo, Amount * 20),
                        CreatePool(Sudo, Native, Amount * 3, rewarded, Amount * 3),
                        CreatePool(u, Native, Amount, paired, Amount)>>)
           /\ Goto(c, 2) /\ UNCHANGED loc
  <2> DEFINE next == chain.next  S == 0..(next - 1)  q == loc[c].ids
  <2>1. q \in Seq(S) /\ Len(q) = 2
    <3>1. Local(chain, s, 1, "running", loc[c])
      BY <1>2 DEF Inv, At
    <3> QED
      BY <1>0, <3>1 DEF Local
  <2> HIDE DEF S, q
  <2>2. q[1] \in S /\ q[2] \in S
    <3>1. 1 \in 1..Len(q) /\ 2 \in 1..Len(q)
      BY <2>1
    <3> QED
      BY <2>1, <3>1, Element
  <2>3. rewarded \in 0..(next - 1) /\ paired \in 0..(next - 1) /\ Native \in 0..(next - 1)
    BY <2>2, TokenIds DEF q, S, rewarded, paired
  <2>4. /\ Good(Tge, next) /\ Good(Issuance, next)
        /\ Good(Mint(paired, u, Amount * 10), next) /\ Good(Mint(Native, u, Amount * 20), next)
        /\ Good(Mint(rewarded, Sudo, Amount * 10), next) /\ Good(Mint(Native, Sudo, Amount * 20), next)
    BY GoodCalls, Amounts
  <2> HIDE DEF next
  <2>5. /\ Good(CreatePool(Sudo, Native, Amount * 3, rewarded, Amount * 3), next)
        /\ Good(CreatePool(u, Native, Amount, paired, Amount), next)
    BY <2>3, GoodCreatePool, Amounts
  <2> DEFINE calls == <<Tge, Issuance, Mint(paired, u, Amount * 10), Mint(Native, u, Amount * 20),
                        Mint(rewarded, Sudo, Amount * 10), Mint(Native, Sudo, Amount * 20),
                        CreatePool(Sudo, Native, Amount * 3, rewarded, Amount * 3),
                        CreatePool(u, Native, Amount, paired, Amount)>>
  <2>6. GoodBatch(calls, next)
    BY <2>4, <2>5, BatchEight
  <2>7. Follows(s, 1, 2)
    BY <1>0, IssuerFollows
  <2>8. Send(c, calls)
    BY <1>2
  <2> HIDE DEF calls
  <2> QED
    BY <1>2, <2>6, <2>7, <2>8, SendGotoKeeps DEF next
<1>3. CASE At(c, s, 2) /\ ReadLiquidity(c, Native, paired) /\ Goto(c, 3)
  BY <1>0, <1>3, ReadLiquidityKeeps
<1>4. CASE At(c, s, 3) /\ UNCHANGED loc /\ Throw(c) /\ Look
  BY <1>0, <1>4, ThrowKeeps
<1>5. CASE At(c, s, 3) /\ UNCHANGED loc /\ Send(c, <<Promote(loc[c].liq)>>) /\ Goto(c, 4)
  <2>1. GoodBatch(<<Promote(loc[c].liq)>>, chain.next)
    BY GoodCalls, BatchOne
  <2>2. Follows(s, 3, 4)
    BY <1>0, IssuerFollows
  <2> QED
    BY <1>5, <2>1, <2>2, SendGotoKeeps
<1>6. CASE /\ At(c, s, 4)
           /\ Send(c, <<RewardPool(Sudo, paired, Native, rewarded, Amount * 3),
                        Activate3(u, loc[c].liq, Amount \div 2, rewarded)>>)
           /\ Goto(c, 5) /\ UNCHANGED loc
  <2>1. /\ Good(RewardPool(Sudo, paired, Native, rewarded, Amount * 3), chain.next)
        /\ Good(Activate3(u, loc[c].liq, Amount \div 2, rewarded), chain.next)
    BY GoodRewards, Amounts
  <2>2. GoodBatch(<<RewardPool(Sudo, paired, Native, rewarded, Amount * 3),
                    Activate3(u, loc[c].liq, Amount \div 2, rewarded)>>, chain.next)
    BY <2>1, BatchPair
  <2>3. Follows(s, 4, 5)
    BY <1>0 DEF Follows, Local
  <2> QED
    BY <1>6, <2>2, <2>3, SendGotoKeeps
<1>7. CASE At(c, s, 5) /\ Look /\ UNCHANGED loc /\ Return(c, CanEarn3(chain, u, loc[c].liq, rewarded))
  <2>1. Ends(c)
    BY <1>7 DEF Return, Ends, Outcomes
  <2> QED
    BY <1>0, <1>7, <2>1, LookEndKeeps
<1> QED
  BY <1>1, <1>2, <1>3, <1>4, <1>5, <1>6, <1>7 DEF ThirdPartyRewards, u, rewarded, paired

-----------------------------------------------------------------------------
\* addActivatedLiquidityForNativeRewards, addActivatedLiquidityFor3rdPartyRewards.

\* Both functions: a user gets liquidity and activates it.
LEMMA AddActivatedLiquidityKeeps ==
  ASSUME Inv, NEW c \in Clients, AddActivatedLiquidity(c)
  PROVE  Inv'
<1>1. ASSUME NEW s \in {"addNative", "addThirdParty"}, At(c, s, 0),
             Send(c, <<Mint(GivenPool, Eve, Amount)>>), Goto(c, 1), UNCHANGED loc
      PROVE  Inv'
  <2>1. GoodBatch(<<Mint(GivenPool, Eve, Amount)>>, chain.next)
    BY GoodCalls, Amounts, BatchOne
  <2>2. Follows(s, 0, 1)
    BY PlainFollows DEF Plain
  <2> QED
    BY <1>1, <2>1, <2>2, SendGotoKeeps
<1>2. CASE /\ At(c, "addNative", 1)
           /\ Send(c, <<Activate(Eve, GivenPool, Amount)>>)
           /\ UNCHANGED loc /\ Return(c, Held(chain'.active, <<Eve, GivenPool>>) >= Amount)
  <2>1. GoodBatch(<<Activate(Eve, GivenPool, Amount)>>, chain.next)
    BY GoodCalls, Amounts, BatchOne
  <2>2. Ends(c)
    BY <1>2 DEF Return, Ends, Outcomes
  <2> QED
    BY <1>2, <2>1, <2>2, SendEndKeeps
<1>3. CASE /\ At(c, "addThirdParty", 1)
           /\ Send(c, <<Activate3(Eve, GivenPool, Amount, Given)>>)
           /\ UNCHANGED loc /\ Return(c, Held(chain'.active3, <<Eve, GivenPool, Given>>) >= Amount)
  <2>1. GoodBatch(<<Activate3(Eve, GivenPool, Amount, Given)>>, chain.next)
    BY GoodRewards, Amounts, BatchOne
  <2>2. Ends(c)
    BY <1>3 DEF Return, Ends, Outcomes
  <2> QED
    BY <1>3, <2>1, <2>2, SendEndKeeps
<1> QED
  BY <1>1, <1>2, <1>3 DEF AddActivatedLiquidity

-----------------------------------------------------------------------------
\* addUnspentReserves.

\* It vests, mints out of what vests and reserves, on a new pool or on the given one.
LEMMA AddUnspentReservesKeeps ==
  ASSUME Inv, NEW c \in Clients, AddUnspentReserves(c)
  PROVE  Inv'
<1> DEFINE s == "unspentNew"  given == "unspentGiven"
<1>0. s \in Issuers /\ s \notin {"thirdParty", "customPool", "poolIfMissing", "fivePools"} /\ given \in Plain
  BY DEF Issuers, Plain
<1>1. CASE At(c, s, 0) /\ Issue(c, Sudo, Amount) /\ Goto(c, 1)
  BY <1>0, <1>1, IssueKeeps, Amounts
<1>2. CASE /\ At(c, s, 1)
           /\ Send(c, <<Mint(Id(c), Eve, Amount * 2), Mint(Native, Eve, Amount * 2),
                        CreatePool(Eve, Native, Amount, Id(c), Amount)>>)
           /\ Goto(c, 2) /\ UNCHANGED loc
  <2>1. Id(c) \in 0..(chain.next - 1) /\ Native \in 0..(chain.next - 1)
    BY <1>0, <1>2, IssuedId, TokenIds
  <2>2. /\ Good(Mint(Id(c), Eve, Amount * 2), chain.next) /\ Good(Mint(Native, Eve, Amount * 2), chain.next)
        /\ Good(CreatePool(Eve, Native, Amount, Id(c), Amount), chain.next)
    BY <2>1, GoodCalls, GoodCreatePool, Amounts
  <2>3. GoodBatch(<<Mint(Id(c), Eve, Amount * 2), Mint(Native, Eve, Amount * 2),
                    CreatePool(Eve, Native, Amount, Id(c), Amount)>>, chain.next)
    BY <2>2, BatchThree
  <2>4. Follows(s, 1, 2)
    BY <1>0, IssuerFollows
  <2> QED
    BY <1>2, <2>3, <2>4, SendGotoKeeps
<1>3. CASE At(c, s, 2) /\ ReadLiquidity(c, Native, Id(c)) /\ Goto(c, 3)
  BY <1>0, <1>3, ReadLiquidityKeeps
<1>4. CASE /\ At(c, given, 0) /\ Look /\ Goto(c, 1)
           /\ loc' = [loc EXCEPT ![c].ids = <<Given>>, ![c].liq = LiqId(chain, Native, Given),
                                 ![c].read = Held(chain.free, <<Eve, Given>>)]
  <2> DEFINE l == [f \in Fields |-> IF f = "ids" THEN <<Given>>
                                    ELSE IF f = "liq" THEN LiqId(chain, Native, Given)
                                    ELSE Held(chain.free, <<Eve, Given>>)]
  <2>1. loc' = [loc EXCEPT ![c] = l]
    <3>1. DOMAIN loc = Clients /\ DOMAIN loc[c] = Fields
      BY DEF Inv
    <3> QED
      BY <1>4, <3>1 DEF Fields
  <2>2. DOMAIN l = Fields
    OBVIOUS
  <2> HIDE DEF l, given
  <2>3. Local(chain', given, 1, "running", l)
    BY <1>0, PlainLocal
  <2>4. Steady
    BY <1>4, LookSteady
  <2>5. At(c, given, 0) /\ Goto(c, 1) /\ 1 \in 0..8
    BY <1>4
  <2> QED
    BY <2>1, <2>2, <2>3, <2>4, <2>5, ReplaceGotoKeeps
<1>5. CASE At(c, given, 1) /\ UNCHANGED loc /\ Throw(c) /\ Look
  BY <1>0, <1>5, ThrowKeeps
<1>6. CASE /\ At(c, given, 1) /\ UNCHANGED loc
           /\ Send(c, <<Mint(Native, Eve, Amount), Mint(loc[c].liq, Eve, Amount * 2)>>) /\ Goto(c, 3)
  <2>1. GoodBatch(<<Mint(Native, Eve, Amount), Mint(loc[c].liq, Eve, Amount * 2)>>, chain.next)
    BY GoodCalls, Amounts, BatchPair
  <2>2. Follows(given, 1, 3)
    BY <1>0, PlainFollows
  <2> QED
    BY <1>6, <2>1, <2>2, SendGotoKeeps
<1>7. ASSUME NEW t \in {s, given}, At(c, t, 3), UNCHANGED loc, Throw(c), Look
      PROVE  Inv'
  BY <1>0, <1>7, ThrowKeeps
<1>8. ASSUME NEW t \in {s, given}, At(c, t, 3), UNCHANGED loc, Send(c, Vests(Eve, Id(c), loc[c].liq)), Goto(c, 4)
      PROVE  Inv'
  <2> DEFINE half == Amount \div 2  liq == loc[c].liq
  <2>1. /\ Good(AddStaking(liq), chain.next) /\ Good(Promote(liq), chain.next)
        /\ Good(ReserveVested(Eve, liq), chain.next)
    BY GoodCalls
  <2>2. Good(Vest(Sudo, Eve, half), chain.next) /\ Good(MintVested(Eve, Id(c), half, Amount), chain.next)
    BY GoodRewards, Amounts
  <2>3. GoodBatch(<<AddStaking(liq), Vest(Sudo, Eve, half), Promote(liq),
                    MintVested(Eve, Id(c), half, Amount), ReserveVested(Eve, liq)>>, chain.next)
    BY <2>1, <2>2, BatchFive
  <2>4. GoodBatch(Vests(Eve, Id(c), liq), chain.next)
    BY <2>3 DEF Vests
  <2>5. Follows(t, 3, 4)
    BY <1>0, PlainFollows, IssuerFollows
  <2> QED
    BY <1>8, <2>4, <2>5, SendGotoKeeps
<1>9. ASSUME NEW t \in {s, given}, At(c, t, 4), Look, UNCHANGED loc,
             Return(c, Held(chain.unspent, <<Eve, loc[c].liq>>) > 0)
      PROVE  Inv'
  <2>1. Ends(c)
    BY <1>9 DEF Return, Ends, Outcomes
  <2> QED
    BY <1>0, <1>9, <2>1, LookEndKeeps
<1> QED
  BY <1>1, <1>2, <1>3, <1>4, <1>5, <1>6, <1>7, <1>8, <1>9 DEF AddUnspentReserves

-----------------------------------------------------------------------------
\* clearMgaFromWhitelisted and addMgaToWhitelisted, close and vetoMotion, and
\* the batches of one call.

\* A script that need not know anything reads something.
LEMMA LookLearnPlainKeeps ==
  ASSUME Inv, NEW c \in Clients, NEW s \in Plain, NEW k, At(c, s, k), Look,
         NEW m \in 0..8, Goto(c, m), NEW f \in Fields, NEW v, Learn(c, f, v)
  PROVE  Inv'
<1>1. Local(chain', s, m, "running", [loc[c] EXCEPT ![f] = v])
  BY PlainLocal
<1> QED
  BY <1>1, LookLearnKeeps

\* The fee is read, and written some blocks later.
LEMMA FeeKeeps ==
  ASSUME Inv, NEW c \in Clients, NEW s \in {"feeClear", "feeAdd"}, NEW done, NEW listed,
         ReadFee(c, s, done) \/ WriteFee(c, s, listed) \/ FeeWritten(c, s, done)
  PROVE  Inv'
<1>0. s \in Plain /\ s \notin {"poolIfMissing", "fivePools"} /\ "read" \in Fields
  BY DEF Plain, Fields
<1>1. CASE ReadFee(c, s, done)
  <2>1. At(c, s, 0) /\ Look
    BY <1>1 DEF ReadFee
  <2>2. \/ Throw(c) /\ UNCHANGED loc
        \/ Ends(c) /\ UNCHANGED loc
        \/ Learn(c, "read", chain.fee) /\ Goto(c, 1)
    BY <1>1 DEF ReadFee, Return, Ends, Outcomes
  <2> QED
    BY <1>0, <2>1, <2>2, ThrowKeeps, LookEndKeeps, LookLearnPlainKeeps
<1>2. CASE WriteFee(c, s, listed)
  <2> DEFINE fee == [loc[c].read EXCEPT !.threshold = Threshold, !.listed = listed]
  <2>1. At(c, s, 1) /\ UNCHANGED loc
    BY <1>2 DEF WriteFee
  <2>2. \/ Throw(c) /\ Look
        \/ Send(c, <<SetFee(fee)>>) /\ Goto(c, 2)
    BY <1>2 DEF WriteFee
  <2> HIDE DEF fee
  <2>3. GoodBatch(<<SetFee(fee)>>, chain.next)
    BY GoodCalls, BatchOne
  <2>4. Follows(s, 1, 2)
    BY <1>0, PlainFollows
  <2> QED
    BY <1>0, <2>1, <2>2, <2>3, <2>4, ThrowKeeps, SendGotoKeeps
<1>3. CASE FeeWritten(c, s, done)
  <2>1. Ends(c)
    BY <1>3 DEF FeeWritten, Return, Ends, Outcomes
  <2> QED
    BY <1>0, <1>3, <2>1, LookEndKeeps DEF FeeWritten
<1> QED
  BY <1>1, <1>2, <1>3

\* clearMgaFromWhitelisted and addMgaToWhitelisted.
LEMMA FeesKeep ==
  ASSUME Inv, NEW c \in Clients, ClearMgaFromWhitelisted(c) \/ AddMgaToWhitelisted(c)
  PROVE  Inv'
<1>1. CASE ClearMgaFromWhitelisted(c)
  <2> DEFINE done == Cleared(chain.fee)
  <2>1. ReadFee(c, "feeClear", done) \/ WriteFee(c, "feeClear", FALSE) \/ FeeWritten(c, "feeClear", done)
    BY <1>1 DEF ClearMgaFromWhitelisted
  <2> HIDE DEF done
  <2> QED
    BY <2>1, FeeKeeps
<1>2. CASE AddMgaToWhitelisted(c)
  <2> DEFINE done == Added(chain.fee)
  <2>1. ReadFee(c, "feeAdd", done) \/ WriteFee(c, "feeAdd", TRUE) \/ FeeWritten(c, "feeAdd", done)
    BY <1>2 DEF AddMgaToWhitelisted
  <2> HIDE DEF done
  <2> QED
    BY <2>1, FeeKeeps
<1> QED
  BY <1>1, <1>2

\* A motion is looked up and ended.
LEMMA EndMotionKeeps ==
  ASSUME Inv, NEW c \in Clients, NEW s \in {"close", "veto"}, NEW call, Good(call, chain.next),
         EndMotion(c, s, call)
  PROVE  Inv'
<1>0. s \in Plain /\ s \notin {"poolIfMissing", "fivePools"} /\ "read" \in Fields
  BY DEF Plain, Fields
<1>1. CASE At(c, s, 0) /\ Look /\ Throw(c) /\ UNCHANGED loc
  BY <1>0, <1>1, ThrowKeeps
<1>2. CASE At(c, s, 0) /\ Look /\ Learn(c, "read", {Motion} \cap DOMAIN chain.ayes) /\ Goto(c, 1)
  BY <1>0, <1>2, LookLearnPlainKeeps
<1>3. CASE /\ At(c, s, 1) /\ UNCHANGED loc
           /\ Send(c, IF loc[c].read = {} THEN <<>> ELSE <<call>>)
           /\ Return(c, Motion \notin DOMAIN chain'.ayes)
  <2> DEFINE calls == IF loc[c].read = {} THEN <<>> ELSE <<call>>
  <2>1. GoodBatch(calls, chain.next)
    BY BatchNone, BatchOne
  <2>2. Ends(c)
    BY <1>3 DEF Return, Ends, Outcomes
  <2>3. Send(c, calls)
    BY <1>3
  <2> HIDE DEF calls
  <2> QED
    BY <1>0, <1>3, <2>1, <2>2, <2>3, SendEndKeeps
<1> QED
  BY <1>1, <1>2, <1>3 DEF EndMotion

\* close and vetoMotion.
LEMMA MotionsKeep ==
  ASSUME Inv, NEW c \in Clients, CloseMotion(c) \/ VetoMotion(c)
  PROVE  Inv'
<1>1. Good(Close(Motion), chain.next) /\ Good(Veto(Motion), chain.next)
  BY GoodCalls
<1> QED
  BY <1>1, EndMotionKeeps DEF CloseMotion, VetoMotion

\* The command that mints to a user.
LEMMA MintTokenToUserKeeps ==
  ASSUME Inv, NEW c \in Clients, MintTokenToUser(c)
  PROVE  Inv'
<1>1. PICK t \in {Given, GivenPool, Wanted} : Send(c, <<Tge, Issuance, Mint(t, Eve, Amount)>>)
  BY DEF MintTokenToUser
<1>2. GoodBatch(<<Tge, Issuance, Mint(t, Eve, Amount)>>, chain.next)
  BY GoodCalls, Amounts, BatchThree
<1>3. At(c, "mint", 0) /\ UNCHANGED loc /\ Ends(c)
  BY DEF MintTokenToUser, Return, Ends, Outcomes
<1> QED
  BY <1>1, <1>2, <1>3, SendEndKeeps

\* The command that makes a liquidity token fit for staking.
LEMMA EnableLiquidityTokenKeeps ==
  ASSUME Inv, NEW c \in Clients, EnableLiquidityToken(c)
  PROVE  Inv'
<1>1. GoodBatch(<<AddStaking(GivenPool)>>, chain.next)
  BY GoodCalls, BatchOne
<1>2. At(c, "enable", 0) /\ UNCHANGED loc /\ Ends(c) /\ Send(c, <<AddStaking(GivenPool)>>)
  BY DEF EnableLiquidityToken, Return, Ends, Outcomes
<1> QED
  BY <1>1, <1>2, SendEndKeeps

-----------------------------------------------------------------------------
\* The council.

\* A council of two is finite.
LEMMA PairFinite ==
  ASSUME NEW a, NEW b
  PROVE  IsFiniteSet({a, b})
<1>1. IsFiniteSet({a}) /\ {a, b} = {a} \cup {b}
  BY FS_Singleton
<1> QED
  BY <1>1, FS_AddElement

\* setupACouncilWithDefaultUsers.
LEMMA SetupACouncilKeeps ==
  ASSUME Inv, NEW c \in Clients, SetupACouncil(c)
  PROVE  Inv'
<1> DEFINE s == "council"
<1>0. s \in Issuers /\ s \notin {"thirdParty", "customPool", "poolIfMissing", "fivePools"}
  BY DEF Issuers
<1>1. CASE At(c, s, 0) /\ Issue(c, Sudo, Amount) /\ Goto(c, 1)
  BY <1>0, <1>1, IssueKeeps, Amounts
<1>2. CASE /\ At(c, s, 1)
           /\ Send(c, MintAll(Id(c), DefaultUsers, Amount) \o MintAll(Native, DefaultUsers, Amount))
           /\ Goto(c, 2) /\ UNCHANGED loc
  <2>1. /\ GoodBatch(MintAll(Id(c), DefaultUsers, Amount), chain.next)
        /\ GoodBatch(MintAll(Native, DefaultUsers, Amount), chain.next)
    BY BatchMintAll, Users, Amounts
  <2>2. GoodBatch(MintAll(Id(c), DefaultUsers, Amount) \o MintAll(Native, DefaultUsers, Amount), chain.next)
    BY <2>1, BatchTwo
  <2>3. Follows(s, 1, 2)
    BY <1>0, IssuerFollows
  <2> QED
    BY <1>2, <2>2, <2>3, SendGotoKeeps
<1>3. CASE /\ At(c, s, 2) /\ UNCHANGED loc
           /\ Send(c, <<SetMembers(Range(DefaultUsers))>>)
           /\ Return(c, chain'.members = Range(DefaultUsers))
  <2>1. IsFiniteSet(Range(DefaultUsers))
    <3>1. Range(DefaultUsers) = {Bob, Eve}
      BY DEF Range, DefaultUsers
    <3> QED
      BY <3>1, PairFinite
  <2>2. GoodBatch(<<SetMembers(Range(DefaultUsers))>>, chain.next)
    BY <2>1, GoodMembers, BatchOne
  <2>3. Ends(c)
    BY <1>3 DEF Return, Ends, Outcomes
  <2> QED
    BY <1>0, <1>3, <2>2, <2>3, SendEndKeeps
<1> QED
  BY <1>1, <1>2, <1>3 DEF SetupACouncil

\* setupMaintenanceTests.
LEMMA SetupMaintenanceTestsKeep ==
  ASSUME Inv, NEW c \in Clients, SetupMaintenanceTests(c)
  PROVE  Inv'
<1> DEFINE s == "maintenance"
<1>0. s \in Plain /\ s \notin {"poolIfMissing", "fivePools"}
  BY DEF Plain
<1>1. CASE /\ At(c, s, 0)
           /\ Send(c, MintAll(Native, Own(c), Amount) \o <<SetMembers(Range(Own(c)))>>)
           /\ Goto(c, 1) /\ UNCHANGED loc
  <2>1. IsFiniteSet(Range(Own(c)))
    <3>1. Range(Own(c)) = {Fresh(c, 1), Fresh(c, 2)}
      BY DEF Range, Own
    <3> QED
      BY <3>1, PairFinite
  <2>2. GoodBatch(MintAll(Native, Own(c), Amount), chain.next)
    BY BatchMintAll, Users, Amounts
  <2>3. GoodBatch(<<SetMembers(Range(Own(c)))>>, chain.next)
    BY <2>1, GoodMembers, BatchOne
  <2>4. GoodBatch(MintAll(Native, Own(c), Amount) \o <<SetMembers(Range(Own(c)))>>, chain.next)
    BY <2>2, <2>3, BatchTwo
  <2>5. Follows(s, 0, 1)
    BY <1>0, PlainFollows
  <2> QED
    BY <1>1, <2>4, <2>5, SendGotoKeeps
<1>2. CASE At(c, s, 1) /\ Send(c, <<Propose(Own(c)[1], <<c, 0>>, 2)>>) /\ Goto(c, 2) /\ UNCHANGED loc
  <2>1. GoodBatch(<<Propose(Own(c)[1], <<c, 0>>, 2)>>, chain.next)
    BY GoodCalls, BatchOne
  <2>2. Follows(s, 1, 2)
    BY <1>0, PlainFollows
  <2> QED
    BY <1>2, <2>1, <2>2, SendGotoKeeps
<1>3. ASSUME At(c, s, 2), NEW on, Send(c, <<Switch(on)>>), UNCHANGED loc, Throw(c) \/ Ends(c)
      PROVE  Inv'
  <2>1. GoodBatch(<<Switch(on)>>, chain.next)
    BY GoodCalls, BatchOne
  <2>2. Ends(c)
    BY <1>3 DEF Throw, Ends, Outcomes
  <2> QED
    BY <1>0, <1>3, <2>1, <2>2, SendEndKeeps
<1>4. CASE At(c, s, 2) /\ ~ (pc[c] = 0) /\ ~ (pc[c] = 1)
  <2>1. PICK on \in BOOLEAN : Send(c, <<Switch(on)>>) /\ UNCHANGED loc /\ (Throw(c) \/ Ends(c))
    BY <1>4 DEF SetupMaintenanceTests, At, Return, Ends, Outcomes
  <2> QED
    BY <1>3, <1>4, <2>1
<1> QED
  BY <1>1, <1>2, <1>4 DEF SetupMaintenanceTests, At

\* The members as a sequence.
LEMMA ListOf ==
  ASSUME NEW S, IsFiniteSet(S)
  PROVE  SetToSeq(S) \in Seq(Range(SetToSeq(S)))
<1> DEFINE n == Cardinality(S)  F == [1..n -> S]  f == SetToSeq(S)
<1>1. n \in Nat /\ ExistsBijection(1..n, S)
  BY FS_CardinalityType
<1>2. PICK m \in F : IsInjective(m)
  BY <1>1 DEF ExistsBijection, Bijection, Injection
<1>3. f = CHOOSE g \in F : IsInjective(g)
  BY DEF SetToSeq
<1>4. f \in F
  BY <1>2, <1>3
<1> HIDE DEF f, n
<1>5. f \in [1..n -> Range(f)]
  BY <1>4 DEF Range
<1>6. f \in Seq(Range(f))
  BY <1>1, <1>5
<1> QED
  BY <1>6 DEF f

\* vote: the members are read once, and each of them is signed for.
LEMMA VoteMotionKeeps ==
  ASSUME Inv, NEW c \in Clients, VoteMotion(c)
  PROVE  Inv'
<1> DEFINE s == "vote"
<1>0. s \notin {"poolIfMissing", "fivePools"} /\ s \notin Issuers /\ {"read", "ids"} \subseteq Fields
  BY DEF Issuers, Fields
<1>1. CASE At(c, s, 0) /\ Look /\ Throw(c) /\ UNCHANGED loc
  BY <1>0, <1>1, ThrowKeeps
<1>2. CASE At(c, s, 0) /\ Look /\ Learn(c, "read", {Motion} \cap DOMAIN chain.ayes) /\ Goto(c, 1)
  <2> DEFINE l == [loc[c] EXCEPT !["read"] = {Motion} \cap DOMAIN chain.ayes]
  <2>1. Local(chain', s, 1, "running", l)
    BY <1>0 DEF Local
  <2> QED
    BY <1>0, <1>2, <2>1, LookLearnKeeps
<1>3. CASE At(c, s, 1) /\ Look /\ Learn(c, "ids", SetToSeq(chain.members)) /\ Goto(c, 2)
  <2> DEFINE v == SetToSeq(chain.members)  l == [loc[c] EXCEPT !["ids"] = v]
  <2>1. v \in Seq(Range(v))
    BY ListOf DEF Inv, Sound, CouncilSound
  <2>2. l.ids = v
    BY <1>0, Learned
  <2> HIDE DEF v, l
  <2>3. Local(chain', s, 2, "running", l)
    BY <1>0, <2>1, <2>2 DEF Local
  <2>4. Learn(c, "ids", v) /\ Local(chain', s, 2, "running", [loc[c] EXCEPT !["ids"] = v]) /\ 2 \in 0..8
    BY <1>3, <2>3 DEF v, l
  <2> QED
    BY <1>0, <1>3, <2>4, LookLearnKeeps
<1>4. CASE /\ At(c, s, 2) /\ UNCHANGED loc
           /\ Send(c, IF loc[c].read = {} THEN <<>>
                      ELSE [i \in DOMAIN loc[c].ids |-> Vote(loc[c].ids[i], Motion)])
           /\ Return(c, Motion \in DOMAIN chain'.ayes /\ chain'.ayes[Motion] = chain'.members)
  <2> DEFINE ids == loc[c].ids  each == [i \in DOMAIN ids |-> Vote(ids[i], Motion)]
             calls == IF loc[c].read = {} THEN <<>> ELSE each
  <2>1. ids \in Seq(Range(ids))
    <3>1. Local(chain, s, 2, "running", loc[c])
      BY <1>4 DEF Inv, At
    <3> QED
      BY <3>1 DEF Local
  <2>2. Send(c, calls) /\ Ends(c)
    BY <1>4 DEF Return, Ends, Outcomes
  <2> HIDE DEF ids
  <2>3. Len(ids) \in Nat /\ DOMAIN ids = 1..Len(ids)
    BY <2>1
  <2>4. each = [i \in 1..Len(ids) |-> each[i]] /\ \A i \in 1..Len(ids) : Good(each[i], chain.next)
    BY <2>3, GoodCalls
  <2> HIDE DEF each
  <2>5. GoodBatch(each, chain.next)
    BY <2>3, <2>4, BatchEach
  <2>6. GoodBatch(calls, chain.next)
    BY <2>5, BatchNone
  <2> HIDE DEF calls
  <2> QED
    BY <1>0, <1>4, <2>2, <2>6, SendEndKeeps
<1> QED
  BY <1>1, <1>2, <1>3, <1>4 DEF VoteMotion

-----------------------------------------------------------------------------
\* Prices, and what a user owns.

\* The given pool has the native token and the given one, and something of each.
LEMMA GivenReserves ==
  ASSUME NEW ch, Sound(ch), GivenPool \in DOMAIN ch.pools
  PROVE  /\ DOMAIN ch.pools[GivenPool].res = {Native, Given}
         /\ ch.pools[GivenPool].res[Native] \in Nat \ {0} /\ ch.pools[GivenPool].res[Given] \in Nat \ {0}
         /\ ch.pools[GivenPool].total \in Nat \ {0}
         /\ OtherToken(ch, GivenPool) = Given
<1>1. /\ DOMAIN ch.pools[GivenPool].res = {Native, Given}
      /\ ch.pools[GivenPool].total \in Nat \ {0}
      /\ \A t \in DOMAIN ch.pools[GivenPool].res : ch.pools[GivenPool].res[t] \in Nat \ {0}
  BY DEF Sound, PoolsSound
<1>2. Native # Given
  BY DEF Native, Given
<1>3. OtherToken(ch, GivenPool) = Given
  <2>1. OtherToken(ch, GivenPool) = CHOOSE t \in {Native, Given} : t # Native
    BY <1>1 DEF OtherToken
  <2> QED
    BY <1>2, <2>1
<1> QED
  BY <1>1, <1>3

\* A buy price is a natural number, also for the whole reserve.
LEMMA PriceNatural ==
  ASSUME NEW p, NEW t, p.res[Native] \in Nat \ {0}, p.res[t] \in Nat, NEW n \in Nat
  PROVE  BuyPrice(p, t, n) \in Nat
<1>1. CASE n >= p.res[Native]
  BY <1>1 DEF BuyPrice
<1>2. CASE ~ (n >= p.res[Native])
  <2> DEFINE a == p.res[Native]  b == p.res[t]  above == b * n * 1000  below == (a - n) * 997
  <2>1. a \in Nat /\ b \in Nat /\ a - n \in Nat \ {0}
    BY <1>2
  <2>2. b * n \in Nat
    BY <2>1, TimesNatural
  <2> HIDE DEF a, b
  <2>3. above \in Nat /\ below \in Nat \ {0}
    BY <2>1, <2>2
  <2> HIDE DEF above, below
  <2>4. above \div below \in Nat
    BY <2>3, DivNatural
  <2>5. BuyPrice(p, t, n) = above \div below + 1
    BY <1>2 DEF BuyPrice, above, below, a, b
  <2> QED
    BY <2>4, <2>5
<1> QED
  BY <1>1, <1>2

\* What burnAllTokensFromPool takes a user to own is a number, negative perhaps.
LEMMA OwnedInteger ==
  ASSUME NEW ch, Sound(ch), NEW u, NEW l
  PROVE  Owned(ch, u, l) \in Int
<1>1. /\ Held(ch.free, <<u, l>>) \in Nat /\ Held(ch.active, <<u, l>>) \in Nat
      /\ Held(ch.bonded, <<u, l>>) \in Nat /\ Held(ch.unspent, <<u, l>>) \in Nat
  BY HeldNatural DEF Sound
<1> DEFINE K == {k \in DOMAIN ch.active3 : k[1] = u /\ k[2] = l}  S == Coins(ch.active3, K)
<1>2. S \subseteq Coins(ch.active3, DOMAIN ch.active3)
  BY DEF Coins
<1>3. IsFiniteSet(S)
  BY <1>2, FS_Subset DEF Sound
<1>4. Cardinality(S) \in Nat
  BY <1>3, FS_CardinalityType
<1> HIDE DEF S
<1>5. Locked(ch, u, l) \in Nat
  BY <1>1, <1>4 DEF Locked, S
<1>6. Burnable(ch, u, l) \in Nat
  BY <1>1 DEF Burnable
<1> QED
  BY <1>5, <1>6 DEF Owned

-----------------------------------------------------------------------------
\* giveTokensToUser and burnAllTokensFromPool.

\* giveTokensToUser.
LEMMA GiveTokensToUserKeeps ==
  ASSUME Inv, NEW c \in Clients, GiveTokensToUser(c)
  PROVE  Inv'
<1> DEFINE s == "giveTokens"
<1>0. s \notin {"poolIfMissing", "fivePools"} /\ s \notin Issuers /\ "read" \in Fields
  BY DEF Issuers, Fields
<1>1. CASE /\ At(c, s, 0) /\ GivenPool \in DOMAIN chain.pools /\ Look /\ Goto(c, 1)
           /\ Learn(c, "read", BuyPrice(chain.pools[GivenPool], OtherToken(chain, GivenPool), Joining))
  <2> DEFINE v == BuyPrice(chain.pools[GivenPool], OtherToken(chain, GivenPool), Joining)
             l == [loc[c] EXCEPT !["read"] = v]
  <2>1. v \in Nat
    BY <1>1, GivenReserves, PriceNatural, Amounts, TokenIds
  <2>2. l.read = v
    BY <1>0, Learned
  <2> HIDE DEF v, l
  <2>3. Local(chain', s, 1, "running", l)
    BY <1>0, <2>1, <2>2 DEF Local
  <2>4. Learn(c, "read", v) /\ Local(chain', s, 1, "running", [loc[c] EXCEPT !["read"] = v]) /\ 1 \in 0..8
    BY <1>1, <2>3 DEF v, l
  <2> QED
    BY <1>0, <1>1, <2>4, LookLearnKeeps
<1>2. CASE /\ At(c, s, 0) /\ Send(c, <<Mint(GivenPool, Eve, Amount)>>)
           /\ UNCHANGED loc /\ Return(c, Burnable(chain', Eve, GivenPool) > 0)
  <2>1. GoodBatch(<<Mint(GivenPool, Eve, Amount)>>, chain.next)
    BY GoodCalls, Amounts, BatchOne
  <2>2. Ends(c)
    BY <1>2 DEF Return, Ends, Outcomes
  <2> QED
    BY <1>0, <1>2, <2>1, <2>2, SendEndKeeps
<1>3. CASE /\ At(c, s, 1) /\ UNCHANGED loc
           /\ Send(c, <<Mint(Given, Eve, loc[c].read * Lots), Mint(Native, Eve, Joining * Lots),
                        MintLiquidity(Eve, Native, Given, Joining * 2, loc[c].read * 4)>>)
           /\ Return(c, Burnable(chain', Eve, GivenPool) > Burnable(chain, Eve, GivenPool))
  <2>1. loc[c].read \in Nat
    <3>1. Local(chain, s, 1, "running", loc[c])
      BY <1>3 DEF Inv, At
    <3> QED
      BY <3>1 DEF Local
  <2>2. loc[c].read * Lots \in Nat
    BY <2>1 DEF Lots
  <2>3. GoodBatch(<<Mint(Given, Eve, loc[c].read * Lots), Mint(Native, Eve, Joining * Lots),
                    MintLiquidity(Eve, Native, Given, Joining * 2, loc[c].read * 4)>>, chain.next)
    BY <2>2, GoodCalls, Amounts, BatchThree
  <2>4. Ends(c)
    BY <1>3 DEF Return, Ends, Outcomes
  <2> QED
    BY <1>0, <1>3, <2>3, <2>4, SendEndKeeps
<1> QED
  BY <1>1, <1>2, <1>3 DEF GiveTokensToUser

\* burnAllTokensFromPool: what each user owns is read, then burnt.
LEMMA BurnAllTokensFromPoolKeeps ==
  ASSUME Inv, NEW c \in Clients, BurnAllTokensFromPool(c)
  PROVE  Inv'
<1> DEFINE s == "burnAll"
<1>0. s \notin {"poolIfMissing", "fivePools"} /\ s \notin Issuers /\ "ids" \in Fields
  BY DEF Issuers, Fields
<1>1. ASSUME NEW i \in 1..2, At(c, s, i - 1), Look, Goto(c, i),
             Learn(c, "ids", Append(loc[c].ids, Owned(chain, DefaultUsers[i], GivenPool)))
      PROVE  Inv'
  <2> DEFINE q == loc[c].ids  n == Owned(chain, DefaultUsers[i], GivenPool)  v == Append(q, n)
             l == [loc[c] EXCEPT !["ids"] = v]
  <2>1. q \in Seq(Int) /\ Len(q) = i - 1
    <3>1. Local(chain, s, i - 1, "running", loc[c])
      BY <1>1 DEF Inv, At
    <3> QED
      BY <3>1 DEF Local
  <2>2. n \in Int
    BY OwnedInteger, TokenIds
  <2>3. l.ids = v /\ Learn(c, "ids", v)
    <3>1. Learn(c, "ids", v)
      BY <1>1
    <3> HIDE DEF v
    <3>2. l.ids = v
      BY <1>0, Learned
    <3> QED
      BY <3>1, <3>2
  <2> HIDE DEF q, n
  <2>4. v \in Seq(Int) /\ Len(v) = i
    BY <2>1, <2>2
  <2> HIDE DEF v, l
  <2>5. Local(chain', s, i, "running", l)
    BY <1>0, <2>3, <2>4 DEF Local
  <2>6. Local(chain', s, i, "running", [loc[c] EXCEPT !["ids"] = v]) /\ i \in 0..8
    BY <2>5 DEF l
  <2> QED
    BY <1>0, <1>1, <2>3, <2>6, LookLearnKeeps
<1>2. CASE /\ At(c, s, 2) /\ UNCHANGED loc /\ Ends(c)
           /\ Send(c, [i \in DOMAIN DefaultUsers |-> BurnLiquidity(DefaultUsers[i], GivenPool, loc[c].ids[i])])
  <2> DEFINE q == loc[c].ids  calls == [i \in DOMAIN DefaultUsers |-> BurnLiquidity(DefaultUsers[i], GivenPool, q[i])]
  <2>1. q \in Seq(Int) /\ Len(q) = 2
    <3>1. Local(chain, s, 2, "running", loc[c])
      BY <1>2 DEF Inv, At
    <3> QED
      BY <3>1 DEF Local
  <2>2. Send(c, calls)
    BY <1>2
  <2> HIDE DEF q
  <2>3. \A i \in 1..2 : q[i] \in Int
    <3>1. \A i \in 1..2 : i \in 1..Len(q)
      BY <2>1
    <3> QED
      BY <2>1, <3>1, Element
  <2>4. calls = [i \in 1..2 |-> BurnLiquidity(DefaultUsers[i], GivenPool, q[i])]
    BY DEF DefaultUsers
  <2>5. calls = [i \in 1..2 |-> calls[i]] /\ \A i \in 1..2 : Good(calls[i], chain.next)
    BY <2>3, <2>4, GoodBurn
  <2> HIDE DEF calls
  <2>6. GoodBatch(calls, chain.next)
    BY <2>5, BatchEach
  <2> QED
    BY <1>0, <1>2, <2>2, <2>6, SendEndKeeps
<1>3. DOMAIN DefaultUsers = 1..2 /\ Len(DefaultUsers) = 2
  BY DEF DefaultUsers
<1>4. CASE At(c, s, Len(DefaultUsers))
  <2>1. \A i \in 1..2 : i - 1 # 2
    OBVIOUS
  <2>2. Ends(c) /\ UNCHANGED loc
        /\ Send(c, [i \in DOMAIN DefaultUsers |-> BurnLiquidity(DefaultUsers[i], GivenPool, loc[c].ids[i])])
    BY <1>3, <1>4, <2>1 DEF BurnAllTokensFromPool, At, Return, Ends, Outcomes
  <2> QED
    BY <1>2, <1>3, <1>4, <2>2
<1> QED
  BY <1>1, <1>3, <1>4 DEF BurnAllTokensFromPool

-----------------------------------------------------------------------------
\* Candidates and delegators.

\* Where the steps of joinAsCandidate are: in its own script, or at the end of
\* the command line's.
JoinsAt(s, k) ==
  \/ s = "join" /\ k = 1
  \/ s = "collator" /\ k = 7

\* The steps of joinAsCandidate.
LEMMA JoinStepsKeep ==
  ASSUME Inv, NEW c \in Clients, NEW s, NEW k, JoinsAt(s, k), JoinSteps(c, s, k)
  PROVE  Inv'
<1> DEFINE liq == loc[c].liq  token == IF liq = GivenPool THEN Given ELSE Id(c)
<1>0. /\ s \notin {"poolIfMissing", "fivePools"} /\ k \in Nat /\ k + 1 \in 0..8
      /\ Follows(s, k, k + 1)
  <2>1. Follows("join", 1, 2) /\ Follows("collator", 7, 8)
    BY PlainFollows, IssuerFollows DEF Plain, Issuers
  <2> QED
    BY <2>1 DEF JoinsAt
<1>1. CASE /\ At(c, s, k) /\ UNCHANGED loc /\ Goto(c, k + 1)
           /\ Send(c, IF liq = Native THEN <<Mint(Native, Eve, Joining * Lots)>>
                      ELSE <<Mint(token, Eve, Joining * Lots), Mint(Native, Eve, Joining * Lots),
                             MintLiquidity(Eve, Native, token, Joining * 2, Joining * Lots)>>)
  <2> DEFINE one == <<Mint(Native, Eve, Joining * Lots)>>
             three == <<Mint(token, Eve, Joining * Lots), Mint(Native, Eve, Joining * Lots),
                        MintLiquidity(Eve, Native, token, Joining * 2, Joining * Lots)>>
             calls == IF liq = Native THEN one ELSE three
  <2>1. GoodBatch(one, chain.next)
    BY GoodCalls, Amounts, BatchOne
  <2> HIDE DEF token
  <2>2. GoodBatch(three, chain.next)
    BY GoodCalls, Amounts, BatchThree
  <2>3. Send(c, calls)
    BY <1>1 DEF token
  <2> HIDE DEF one, three
  <2>4. GoodBatch(calls, chain.next)
    BY <2>1, <2>2
  <2> HIDE DEF calls
  <2> QED
    BY <1>0, <1>1, <2>3, <2>4, SendGotoKeeps
<1>2. CASE /\ At(c, s, k + 1) /\ UNCHANGED loc
           /\ Send(c, <<IF liq = Native THEN Bond(Eve, Native, Joining * 2, "free")
                        ELSE Bond(Eve, liq, Joining, "active")>>)
           /\ Return(c, IsBonded(chain', Eve))
  <2> DEFINE x == IF liq = Native THEN Bond(Eve, Native, Joining * 2, "free") ELSE Bond(Eve, liq, Joining, "active")
  <2>1. Good(x, chain.next)
    BY GoodBond, Amounts
  <2>2. Send(c, <<x>>)
    BY <1>2
  <2> HIDE DEF x
  <2>3. GoodBatch(<<x>>, chain.next)
    BY <2>1, BatchOne
  <2>4. Ends(c)
    BY <1>2 DEF Return, Ends, Outcomes
  <2> QED
    BY <1>0, <1>2, <2>2, <2>3, <2>4, SendEndKeeps
<1> QED
  BY <1>1, <1>2 DEF JoinSteps

\* joinAsCandidate.
LEMMA JoinAsCandidateKeeps ==
  ASSUME Inv, NEW c \in Clients, JoinAsCandidate(c)
  PROVE  Inv'
<1>0. "join" \in Plain /\ "liq" \in Fields
  BY DEF Plain, Fields
<1>1. CASE JoinSteps(c, "join", 1)
  <2>1. JoinsAt("join", 1)
    BY DEF JoinsAt
  <2> QED
    BY <1>1, <2>1, JoinStepsKeep
<1>2. CASE At(c, "join", 0) /\ Look /\ Throw(c) /\ UNCHANGED loc
  BY <1>2, ThrowKeeps
<1>3. ASSUME At(c, "join", 0), Look, NEW liq, Learn(c, "liq", liq), Goto(c, 1)
      PROVE  Inv'
  BY <1>0, <1>3, LookLearnPlainKeeps
<1> QED
  BY <1>1, <1>2, <1>3 DEF JoinAsCandidate

\* The command that sets up a collator: a pool with rewards, then the candidate.
LEMMA SetupACollatorKeeps ==
  ASSUME Inv, NEW c \in Clients, SetupACollator(c)
  PROVE  Inv'
<1> DEFINE s == "collator"
<1>0. s \in Issuers /\ s \notin {"poolIfMissing", "fivePools"} /\ "liq" \in Fields /\ "ids" \in Fields
  BY DEF Issuers, Fields
<1>1. CASE RewardPoolSteps(c, s)
  BY <1>1, RewardPoolStepsKeep
<1>2. CASE At(c, s, 4) /\ Look /\ UNCHANGED loc /\ Goto(c, 5)
  <2>1. Follows(s, 4, 5)
    BY <1>0 DEF Follows, Local
  <2> QED
    BY <1>2, <2>1, LookGotoKeeps
<1>3. CASE At(c, s, 4) /\ Look /\ UNCHANGED loc /\ Throw(c)
  BY <1>0, <1>3, ThrowKeeps
<1>4. CASE At(c, s, 0) /\ Look /\ Learn(c, "liq", GivenPool) /\ Goto(c, 5)
  <2> DEFINE l == [loc[c] EXCEPT !["liq"] = GivenPool]
  <2>1. l.ids = loc[c].ids
    BY <1>0, Learned
  <2>2. Local(chain', s, 0, "running", loc[c])
    BY <1>4, LookSteady, StillLocal
  <2> HIDE DEF l
  <2>3. Local(chain', s, 5, "running", l)
    BY <1>0, <2>1, <2>2 DEF Local
  <2>4. Local(chain', s, 5, "running", [loc[c] EXCEPT !["liq"] = GivenPool])
    BY <2>3 DEF l
  <2> QED
    BY <1>0, <1>4, <2>4, LookLearnKeeps
<1>5. CASE At(c, s, 5) /\ UNCHANGED loc /\ Send(c, <<AddStaking(loc[c].liq)>>) /\ Goto(c, 6)
  <2>1. GoodBatch(<<AddStaking(loc[c].liq)>>, chain.next)
    BY GoodCalls, BatchOne
  <2>2. Follows(s, 5, 6)
    BY <1>0, IssuerFollows
  <2> QED
    BY <1>5, <2>1, <2>2, SendGotoKeeps
<1>6. CASE At(c, s, 6) /\ Look /\ UNCHANGED loc /\ Goto(c, 7)
  <2>1. Follows(s, 6, 7)
    BY <1>0, IssuerFollows
  <2> QED
    BY <1>6, <2>1, LookGotoKeeps
<1>7. CASE At(c, s, 6) /\ Look /\ UNCHANGED loc /\ Throw(c)
  BY <1>0, <1>7, ThrowKeeps
<1>8. CASE JoinSteps(c, s, 7)
  <2>1. JoinsAt(s, 7)
    BY DEF JoinsAt
  <2> QED
    BY <1>8, <2>1, JoinStepsKeep
<1> QED
  BY <1>1, <1>2, <1>3, <1>4, <1>5, <1>6, <1>7, <1>8 DEF SetupACollator

\* Two users get what they join with, and join one after the other.
LEMMA JoinBothKeeps ==
  ASSUME Inv, NEW c \in Clients, NEW s \in {"joinFew", "delegators"}, NEW k \in {2, 4},
         s = "joinFew" => k = 4, NEW mints,
         At(c, s, k) => GoodBatch(mints, chain.next), JoinBoth(c, s, k, mints)
  PROVE  Inv'
<1>0. /\ s \notin {"poolIfMissing", "fivePools"} /\ s \notin Issuers
      /\ Follows(s, k, k + 1) /\ Follows(s, k + 1, k + 2)
  BY DEF Issuers, Follows, Local
<1>1. CASE At(c, s, k) /\ UNCHANGED loc /\ Send(c, mints) /\ Goto(c, k + 1)
  <2>1. k + 1 \in 0..8
    OBVIOUS
  <2> QED
    BY <1>0, <1>1, <2>1, SendGotoKeeps
<1>2. ASSUME NEW i \in 1..2, At(c, s, k + i), UNCHANGED loc,
             Send(c, <<Bond(Joiners(c)[i], loc[c].liq, loc[c].read,
                            IF loc[c].liq = Native THEN "free" ELSE "active")>>),
             (i = 1 /\ Goto(c, k + 2)) \/ Ends(c)
      PROVE  Inv'
  <2> DEFINE from == IF loc[c].liq = Native THEN "free" ELSE "active"
             x == Bond(Joiners(c)[i], loc[c].liq, loc[c].read, from)
  <2>1. loc[c].read \in Nat
    <3>1. Local(chain, s, k + i, "running", loc[c]) /\ k + i >= 2
      BY <1>2 DEF Inv, At
    <3> QED
      BY <3>1 DEF Local
  <2>2. Good(x, chain.next) /\ Send(c, <<x>>)
    BY <1>2, <2>1, GoodBond
  <2> HIDE DEF x
  <2>3. GoodBatch(<<x>>, chain.next)
    BY <2>2, BatchOne
  <2>4. k + 2 \in 0..8
    OBVIOUS
  <2>5. CASE i = 1 /\ Goto(c, k + 2)
    <3>1. At(c, s, k + 1)
      BY <1>2, <2>5
    <3> QED
      BY <1>0, <1>2, <2>2, <2>3, <2>4, <2>5, <3>1, SendGotoKeeps
  <2>6. CASE Ends(c)
    BY <1>0, <1>2, <2>2, <2>3, <2>6, SendEndKeeps
  <2> QED
    BY <1>2, <2>5, <2>6
<1>3. ASSUME NEW i \in 1..2, At(c, s, k + i), UNCHANGED loc,
             Send(c, <<Bond(Joiners(c)[i], loc[c].liq, loc[c].read,
                            IF loc[c].liq = Native THEN "free" ELSE "active")>>),
             IF i = 1 THEN Goto(c, k + 2) ELSE Return(c, \A u \in Range(Joiners(c)) : IsBonded(chain', u))
      PROVE  Inv'
  <2>1. CASE i = 1
    BY <1>2, <1>3, <2>1
  <2>2. CASE i # 1
    <3>1. Return(c, \A u \in Range(Joiners(c)) : IsBonded(chain', u))
      BY <1>3, <2>2
    <3>2. Ends(c)
      BY <3>1 DEF Return, Ends, Outcomes
    <3> QED
      BY <1>2, <1>3, <3>2
  <2> QED
    BY <2>1, <2>2
<1> QED
  BY <1>1, <1>3 DEF JoinBoth

\* what the users that join are given first
LEMMA WithLiquidityGood ==
  ASSUME NEW c, NEW next, loc[c].ids[1] \in Nat, NEW n \in Nat
  PROVE  GoodBatch(WithLiquidity(c, n), next)
<1> DEFINE calls(u) == <<Mint(Given, u, loc[c].ids[1] * Lots), Mint(Native, u, Joining * Lots),
                         MintLiquidity(u, Native, Given, n, Amount * Amount)>>
<1>1. loc[c].ids[1] * Lots \in Nat
  BY DEF Lots
<1>2. ASSUME NEW u PROVE GoodBatch(calls(u), next)
  <2>1. /\ Good(Mint(Given, u, loc[c].ids[1] * Lots), next) /\ Good(Mint(Native, u, Joining * Lots), next)
        /\ Good(MintLiquidity(u, Native, Given, n, Amount * Amount), next)
    BY <1>1, GoodCalls, Amounts
  <2> QED
    BY <2>1, BatchThree
<1>3. WithLiquidity(c, n) = calls(Joiners(c)[1]) \o calls(Joiners(c)[2])
  BY DEF WithLiquidity
<1> HIDE DEF calls
<1>4. GoodBatch(calls(Joiners(c)[1]) \o calls(Joiners(c)[2]), next)
  BY <1>2, BatchTwo
<1> QED
  BY <1>3, <1>4

\* The price of what one joins with is a natural number.
LEMMA PriceOfJoining ==
  ASSUME Inv
  PROVE  Price(chain) \in Nat
<1>1. CASE GivenPool \in DOMAIN chain.pools
  <2>1. BuyPrice(chain.pools[GivenPool], Given, Joining) \in Nat
    BY <1>1, GivenReserves, PriceNatural, Amounts, TokenIds
  <2> QED
    BY <1>1, <2>1, Amounts DEF Price
<1>2. CASE GivenPool \notin DOMAIN chain.pools
  BY <1>2, Amounts DEF Price
<1> QED
  BY <1>1, <1>2

\* joinAFewCandidates.
LEMMA JoinAFewCandidatesKeeps ==
  ASSUME Inv, NEW c \in Clients, JoinAFewCandidates(c)
  PROVE  Inv'
<1> DEFINE s == "joinFew"
<1>0. s \notin {"poolIfMissing", "fivePools"} /\ s \notin Issuers /\ Fields = {"ids", "liq", "read"}
  BY DEF Issuers, Fields
<1>1. CASE JoinBoth(c, s, 4, WithLiquidity(c, Joining * 10))
  <2>1. ASSUME At(c, s, 4)
        PROVE  GoodBatch(WithLiquidity(c, Joining * 10), chain.next)
    <3>1. Local(chain, s, 4, "running", loc[c])
      BY <2>1 DEF Inv, At
    <3>2. loc[c].ids \in Seq(Nat) /\ Len(loc[c].ids) = 1
      BY <3>1 DEF Local
    <3>3. 1 \in 1..Len(loc[c].ids)
      BY <3>2
    <3>4. loc[c].ids[1] \in Nat
      BY <3>2, <3>3, Element
    <3> QED
      BY <3>4, WithLiquidityGood, Amounts
  <2> QED
    BY <1>1, <2>1, JoinBothKeeps
<1>2. CASE \/ At(c, s, 0) /\ Look /\ Throw(c) /\ UNCHANGED loc
           \/ At(c, s, 2) /\ Look /\ Throw(c) /\ UNCHANGED loc
  BY <1>0, <1>2, ThrowKeeps
\* one more read: what is known of the client at the next step
<1>3. ASSUME NEW k \in {0, 1, 2, 3}, At(c, s, k), Look, Goto(c, k + 1), NEW f \in Fields, NEW v, Learn(c, f, v),
             (k >= 1 /\ f = "read") => v \in Nat, k = 0 => f = "liq", k \in {1, 2} => f = "read",
             k = 3 => f = "ids" /\ v \in Seq(Nat) /\ Len(v) = 1
      PROVE  Inv'
  <2> DEFINE l == [loc[c] EXCEPT ![f] = v]
  <2>1. /\ l.read = (IF f = "read" THEN v ELSE loc[c].read)
        /\ l.ids = (IF f = "ids" THEN v ELSE loc[c].ids)
    BY <1>0, <1>3, Learned DEF Inv
  <2>2. Local(chain, s, k, "running", loc[c])
    BY <1>3 DEF Inv, At
  <2>3. k >= 2 => loc[c].read \in Nat
    BY <2>2 DEF Local
  <2> HIDE DEF l
  <2>4. k + 1 >= 2 => l.read \in Nat
    BY <1>3, <2>1, <2>3
  <2>5. k + 1 >= 4 => l.ids \in Seq(Nat) /\ Len(l.ids) = 1
    BY <1>3, <2>1
  <2>6. Local(chain', s, k + 1, "running", l)
    BY <1>0, <2>4, <2>5 DEF Local
  <2>7. Local(chain', s, k + 1, "running", [loc[c] EXCEPT ![f] = v]) /\ k + 1 \in 0..8
    BY <2>6 DEF l
  <2> QED
    BY <1>0, <1>3, <2>7, LookLearnKeeps
<1>4. CASE At(c, s, 0) /\ Look /\ Learn(c, "liq", GivenPool) /\ Goto(c, 1)
  <2>1. 0 \in {0, 1, 2, 3} /\ 0 + 1 = 1 /\ "liq" \in Fields
    BY <1>0
  <2> QED
    BY <1>3, <1>4, <2>1
<1>5. CASE At(c, s, 1) /\ Look /\ Learn(c, "read", Issued(chain, GivenPool)) /\ Goto(c, 2)
  <2>1. Issued(chain, GivenPool) \in Nat
    BY GivenReserves, TokenIds DEF Issued
  <2>2. 1 \in {0, 1, 2, 3} /\ 1 + 1 = 2 /\ "read" \in Fields
    BY <1>0
  <2> QED
    BY <1>3, <1>5, <2>1, <2>2
<1>6. CASE /\ At(c, s, 2) /\ Look /\ ~ NoPoolToken(c) /\ Goto(c, 3)
           /\ Learn(c, "read", (Joining * loc[c].read) \div chain.pools[GivenPool].res[Native] + 1)
  <2> DEFINE n == (Joining * loc[c].read) \div chain.pools[GivenPool].res[Native] + 1
  <2>1. n \in Nat
    <3>1. Local(chain, s, 2, "running", loc[c])
      BY <1>6 DEF Inv, At
    <3>2. loc[c].read \in Nat
      BY <3>1 DEF Local
    <3>3. chain.pools[GivenPool].res[Native] \in Nat \ {0}
      BY <1>6, GivenReserves, TokenIds DEF NoPoolToken
    <3>4. (Joining * loc[c].read) \div chain.pools[GivenPool].res[Native] \in Nat
      BY <3>2, <3>3, TimesNatural, DivNatural, Amounts
    <3> QED
      BY <3>4
  <2>2. 2 \in {0, 1, 2, 3} /\ 2 + 1 = 3 /\ "read" \in Fields /\ Learn(c, "read", n)
    BY <1>0, <1>6
  <2> HIDE DEF n
  <2> QED
    BY <1>3, <1>6, <2>1, <2>2
<1>7. CASE At(c, s, 3) /\ Look /\ Learn(c, "ids", <<Price(chain)>>) /\ Goto(c, 4)
  <2> DEFINE v == <<Price(chain)>>
  <2>1. v \in Seq(Nat) /\ Len(v) = 1
    BY PriceOfJoining
  <2>2. 3 \in {0, 1, 2, 3} /\ 3 + 1 = 4 /\ "ids" \in Fields /\ Learn(c, "ids", v)
    BY <1>0, <1>7
  <2> HIDE DEF v
  <2> QED
    BY <1>3, <1>7, <2>1, <2>2
<1> QED
  BY <1>1, <1>2, <1>4, <1>5, <1>6, <1>7 DEF JoinAFewCandidates

\* fillWithDelegators.
LEMMA FillWithDelegatorsKeeps ==
  ASSUME Inv, NEW c \in Clients, FillWithDelegators(c)
  PROVE  Inv'
<1> DEFINE s == "delegators"
<1>0. s \notin {"poolIfMissing", "fivePools"} /\ s \notin Issuers
  BY DEF Issuers
<1>1. ASSUME NEW mints, JoinBoth(c, s, 2, mints),
             mints = IF loc[c].liq = Native THEN MintAll(Native, Joiners(c), Joining * Lots)
                     ELSE WithLiquidity(c, Joining * 2)
      PROVE  Inv'
  <2>1. ASSUME At(c, s, 2)
        PROVE  GoodBatch(mints, chain.next)
    <3>0. Local(chain, s, 2, "running", loc[c])
      BY <2>1 DEF Inv, At
    <3>1. CASE loc[c].liq = Native
      <4>1. GoodBatch(MintAll(Native, Joiners(c), Joining * Lots), chain.next)
        BY BatchMintAll, Users, Amounts
      <4> QED
        BY <1>1, <3>1, <4>1
    <3>2. CASE loc[c].liq # Native
      <4>1. loc[c].ids \in Seq(Nat) /\ Len(loc[c].ids) = 1
        BY <3>0, <3>2 DEF Local
      <4>2. 1 \in 1..Len(loc[c].ids)
        BY <4>1
      <4>3. loc[c].ids[1] \in Nat
        BY <4>1, <4>2, Element
      <4>4. GoodBatch(WithLiquidity(c, Joining * 2), chain.next)
        BY <4>3, WithLiquidityGood, Amounts
      <4> QED
        BY <1>1, <3>2, <4>4
    <3> QED
      BY <3>1, <3>2
  <2> QED
    BY <1>1, <2>1, JoinBothKeeps
<1>2. CASE At(c, s, 0) /\ Look /\ Throw(c) /\ UNCHANGED loc
  BY <1>0, <1>2, ThrowKeeps
<1>3. ASSUME NEW k \in {0, 1}, At(c, s, k), Look, Goto(c, 2), NEW l, loc' = [loc EXCEPT ![c] = l], DOMAIN l = Fields,
             l.read \in Nat, l.liq # Native => l.ids \in Seq(Nat) /\ Len(l.ids) = 1
      PROVE  Inv'
  <2>1. Local(chain', s, 2, "running", l)
    BY <1>0, <1>3 DEF Local
  <2>2. Steady /\ 2 \in 0..8
    BY <1>3, LookSteady
  <2> QED
    BY <1>3, <2>1, <2>2, ReplaceGotoKeeps
<1>4. CASE /\ At(c, s, 1) /\ Look /\ Goto(c, 2)
           /\ loc' = [loc EXCEPT ![c] = [ids |-> <<Price(chain)>>, liq |-> GivenPool, read |-> Joining]]
  <2> DEFINE l == [ids |-> <<Price(chain)>>, liq |-> GivenPool, read |-> Joining]
  <2>1. Price(chain) \in Nat
    BY PriceOfJoining
  <2>2. DOMAIN l = Fields /\ l.read \in Nat /\ l.ids \in Seq(Nat) /\ Len(l.ids) = 1
    BY <2>1, Amounts DEF Fields
  <2>3. loc' = [loc EXCEPT ![c] = l]
    BY <1>4
  <2> HIDE DEF l
  <2> QED
    BY <1>3, <1>4, <2>2, <2>3
<1>5. CASE /\ At(c, s, 0) /\ Look /\ Goto(c, 2)
           /\ loc' = [loc EXCEPT ![c] = [ids |-> <<>>, liq |-> Native, read |-> Joining * 3]]
  <2> DEFINE l == [ids |-> <<>>, liq |-> Native, read |-> Joining * 3]
  <2>1. DOMAIN l = Fields /\ l.read \in Nat /\ l.liq = Native
    BY Amounts DEF Fields
  <2>2. loc' = [loc EXCEPT ![c] = l]
    BY <1>5
  <2> HIDE DEF l
  <2> QED
    BY <1>3, <1>5, <2>1, <2>2
<1>6. CASE At(c, s, 0) /\ Look /\ Learn(c, "liq", GivenPool) /\ Goto(c, 1)
  <2>1. Local(chain', s, 1, "running", [loc[c] EXCEPT !["liq"] = GivenPool])
    BY <1>0 DEF Local
  <2>2. "liq" \in Fields /\ 1 \in 0..8
    BY DEF Fields
  <2> QED
    BY <1>0, <1>6, <2>1, <2>2, LookLearnKeeps
<1> QED
  BY <1>1, <1>2, <1>4, <1>5, <1>6 DEF FillWithDelegators

-----------------------------------------------------------------------------
\* addStakedUnactivatedReserves.

\* It issues a token, makes a pool, and bonds its liquidity.
LEMMA AddStakedReservesKeeps ==
  ASSUME Inv, NEW c \in Clients, AddStakedReserves(c)
  PROVE  Inv'
<1> DEFINE s == "addStaked"
<1>0. s \in Issuers /\ s \notin {"thirdParty", "customPool", "poolIfMissing", "fivePools"} /\ {"ids", "read"} \subseteq Fields
  BY DEF Issuers, Fields
<1>1. CASE At(c, s, 0) /\ Throw(c) /\ Look /\ UNCHANGED loc
  BY <1>0, <1>1, ThrowKeeps
<1>2. CASE At(c, s, 0) /\ Issue(c, Eve, Amount) /\ Goto(c, 1)
  BY <1>0, <1>2, IssueKeeps, Amounts
<1>9. CASE /\ At(c, s, 0) /\ Learn(c, "liq", GivenPool)
           /\ Send(c, <<Mint(Native, Eve, Amount * 2), Mint(GivenPool, Eve, Amount * 2)>>) /\ Goto(c, 3)
  <2> DEFINE l == [loc[c] EXCEPT !["liq"] = GivenPool]
  <2>1. Good(Mint(Native, Eve, Amount * 2), chain.next) /\ Good(Mint(GivenPool, Eve, Amount * 2), chain.next)
    BY GoodCalls, Amounts
  <2>2. GoodBatch(<<Mint(Native, Eve, Amount * 2), Mint(GivenPool, Eve, Amount * 2)>>, chain.next)
    BY <2>1, BatchPair
  <2>3. Steady
    BY <1>9, <2>2, SentSteady DEF Send
  <2>4. DOMAIN l = Fields /\ l.ids = loc[c].ids /\ loc' = [loc EXCEPT ![c] = l]
    BY <1>0, <1>9 DEF Inv, Fields, Learn
  <2>5. Local(chain', s, 0, "running", loc[c])
    BY <1>9, <2>3, StillLocal
  <2> HIDE DEF l
  <2>6. Local(chain', s, 3, "running", l) /\ 3 \in 0..8
    BY <1>0, <2>4, <2>5 DEF Local
  <2> QED
    BY <1>9, <2>3, <2>4, <2>6, ReplaceGotoKeeps
<1>3. CASE /\ At(c, s, 1)
           /\ Send(c, <<Mint(Native, Eve, Amount * 2), Mint(Native, Sudo, Amount * 2),
                        CreatePool(Eve, Native, Amount, Id(c), Amount)>>)
           /\ Goto(c, 2) /\ UNCHANGED loc
  <2>1. Id(c) \in 0..(chain.next - 1) /\ Native \in 0..(chain.next - 1)
    BY <1>0, <1>3, IssuedId, TokenIds
  <2>2. /\ Good(Mint(Native, Eve, Amount * 2), chain.next) /\ Good(Mint(Native, Sudo, Amount * 2), chain.next)
        /\ Good(CreatePool(Eve, Native, Amount, Id(c), Amount), chain.next)
    BY <2>1, GoodCalls, GoodCreatePool, Amounts
  <2>3. GoodBatch(<<Mint(Native, Eve, Amount * 2), Mint(Native, Sudo, Amount * 2),
                    CreatePool(Eve, Native, Amount, Id(c), Amount)>>, chain.next)
    BY <2>2, BatchThree
  <2>4. Follows(s, 1, 2)
    BY <1>0, IssuerFollows
  <2> QED
    BY <1>3, <2>3, <2>4, SendGotoKeeps
<1>4. CASE At(c, s, 2) /\ ReadLiquidity(c, Native, Id(c)) /\ Goto(c, 3)
  BY <1>0, <1>4, ReadLiquidityKeeps
<1>5. CASE At(c, s, 3) /\ UNCHANGED loc /\ Throw(c) /\ Look
  BY <1>0, <1>5, ThrowKeeps
<1>6. CASE At(c, s, 3) /\ UNCHANGED loc /\ Send(c, <<AddStaking(loc[c].liq)>>) /\ Goto(c, 4)
  <2>1. GoodBatch(<<AddStaking(loc[c].liq)>>, chain.next)
    BY GoodCalls, BatchOne
  <2>2. Follows(s, 3, 4)
    BY <1>0, IssuerFollows
  <2> QED
    BY <1>6, <2>1, <2>2, SendGotoKeeps
<1>7. CASE At(c, s, 4) /\ Learn(c, "read", Held(chain.free, <<Eve, loc[c].liq>>)) /\ Look /\ Goto(c, 5)
  <2> DEFINE v == Held(chain.free, <<Eve, loc[c].liq>>)  l == [loc[c] EXCEPT !["read"] = v]
  <2>1. v \in Nat
    BY HeldNatural, TokenIds DEF Sound
  <2>2. Learn(c, "read", v)
    BY <1>7
  <2> HIDE DEF v
  <2>3. l.read = v /\ l.ids = loc[c].ids
    BY <1>0, Learned
  <2>4. Local(chain', s, 4, "running", loc[c])
    BY <1>7, LookSteady, StillLocal
  <2> HIDE DEF l
  <2>5. Local(chain', s, 5, "running", l)
    BY <1>0, <2>1, <2>3, <2>4 DEF Local
  <2>6. Local(chain', s, 5, "running", [loc[c] EXCEPT !["read"] = v]) /\ 5 \in 0..8
    BY <2>5 DEF l
  <2> QED
    BY <1>0, <1>7, <2>2, <2>6, LookLearnKeeps
<1>8. CASE /\ At(c, s, 5) /\ UNCHANGED loc
           /\ Send(c, <<Bond(Eve, loc[c].liq, loc[c].read, "free")>>)
           /\ Return(c, Held(chain'.bonded, <<Eve, loc[c].liq>>) > 0)
  <2>1. loc[c].read \in Nat
    <3>1. Local(chain, s, 5, "running", loc[c])
      BY <1>8 DEF Inv, At
    <3> QED
      BY <3>1 DEF Local
  <2>2. Good(Bond(Eve, loc[c].liq, loc[c].read, "free"), chain.next)
    BY <2>1, GoodBond
  <2>3. GoodBatch(<<Bond(Eve, loc[c].liq, loc[c].read, "free")>>, chain.next)
    BY <2>2, BatchOne
  <2>4. Ends(c)
    BY <1>8 DEF Return, Ends, Outcomes
  <2> QED
    BY <1>0, <1>8, <2>3, <2>4, SendEndKeeps
<1> QED
  BY <1>1, <1>2, <1>3, <1>4, <1>5, <1>6, <1>7, <1>8, <1>9 DEF AddStakedReserves

-----------------------------------------------------------------------------
\* setupAPoolForUsers, and what it has in common with setup5PoolsChained.

\* A batch of wrapped and then bare calls, or none of it.
LEMMA SendAllSteady ==
  ASSUME Inv, NEW c, NEW calls, GoodBatch(calls, chain.next), NEW bare, GoodBatch(bare, chain.next),
         SendAll(c, calls, bare) \/ SendUntil(c, calls, bare)
  PROVE  Steady
<1>1. Sound(chain)
  BY DEF Inv
<1>2. Sound(Wrapped(chain, calls)) /\ Kept(chain, Wrapped(chain, calls))
  BY <1>1, WrappedKeeps
<1>3. GoodBatch(bare, Wrapped(chain, calls).next)
  BY <1>2, BatchLater
<1>4. /\ Sound(Wrapped(Wrapped(chain, calls), bare))
      /\ Kept(Wrapped(chain, calls), Wrapped(Wrapped(chain, calls), bare))
  BY <1>2, <1>3, WrappedKeeps
<1>5. Kept(chain, Wrapped(Wrapped(chain, calls), bare))
  BY <1>2, <1>4, KeptAll
<1>6. \/ Look
      \/ chain' = Wrapped(chain, calls)
      \/ chain' = Wrapped(Wrapped(chain, calls), bare)
  BY DEF SendAll, SendUntil, SendBoth, Send
<1> QED
  BY <1>2, <1>4, <1>5, <1>6, LookSteady DEF Steady

\* A client ends with something that it has read.
LEMMA LearnEndKeeps ==
  ASSUME Inv, NEW c \in Clients, NEW s, NEW k, At(c, s, k), Steady, NEW f \in Fields, NEW v, Learn(c, f, v),
         NEW o \in Outcomes, outcome' = [outcome EXCEPT ![c] = o], script' = script, pc' = pc,
         Local(chain', s, k, o, [loc[c] EXCEPT ![f] = v])
  PROVE  Inv'
<1>1. script[c] = s /\ pc[c] = k
  BY DEF At
<1>2. /\ loc' = [loc EXCEPT ![c] = [loc[c] EXCEPT ![f] = v]] /\ DOMAIN loc = Clients /\ DOMAIN loc[c] = Fields
  BY DEF Learn, Inv
<1>3. loc'[c] = [loc[c] EXCEPT ![f] = v] /\ DOMAIN loc'[c] = Fields
  BY <1>2
<1>4. Moves(c) /\ pc'[c] = k /\ outcome'[c] = o
  BY <1>1, <1>2 DEF Moves, Inv
<1> QED
  BY <1>1, <1>3, <1>4, MoveKeeps DEF Steady

\* The ids that a client gets from the token pool have been issued.
LEMMA DryIds ==
  ASSUME Inv, NEW c \in Clients, NEW dry, NEW ids, ids = Undefined(dry, Granted[c])
  PROVE  /\ \A i \in 1..5 : ids[i] \in 0..(chain.next - 1)
         /\ ids = [i \in 1..5 |-> ids[i]]
         /\ \A i \in 1..5 : ids[i] = IF i \in dry THEN Native ELSE Granted[c][i]
<1>1. ids = [i \in 1..5 |-> IF i \in dry THEN Native ELSE Granted[c][i]]
  BY DEF Undefined
<1>2. \A i \in 1..5 : Granted[c][i] < chain.next /\ Granted[c][i] \in Nat
  BY SetupAssumption DEF Inv
<1>3. Native \in 0..(chain.next - 1) /\ chain.next \in Nat
  BY TokenIds
<1> QED
  BY <1>1, <1>2, <1>3

\* setupAPoolForUsers.
LEMMA SetupAPoolForUsersKeeps ==
  ASSUME Inv, NEW c \in Clients, SetupAPoolForUsers(c)
  PROVE  Inv'
<1> DEFINE s == "aPool"  next == chain.next  half == Amount \div 2
<1>0. s \in Plain /\ "ids" \in Fields
  BY DEF Plain, Fields
<1>1. ASSUME At(c, s, 0), NEW dry, NEW ids, ids = Undefined(dry, Granted[c]), NEW mints, NEW pool,
             mints = <<Mint(ids[1], Sudo, Amount), Mint(ids[2], Sudo, Amount),
                       Mint(Native, Fresh(c, 1), Amount), Mint(ids[1], Fresh(c, 1), Amount)>>,
             pool = <<CreatePool(Sudo, ids[1], half, ids[2], half)>>,
             SendAll(c, mints, pool), Learn(c, "ids", SubSeq(ids, 1, 2)),
             NEW o \in Outcomes, outcome' = [outcome EXCEPT ![c] = o], script' = script, pc' = pc
      PROVE  Inv'
  <2>1. ids[1] \in 0..(next - 1) /\ ids[2] \in 0..(next - 1)
    BY <1>1, DryIds
  <2> HIDE DEF next
  <2>2. Good(CreatePool(Sudo, ids[1], half, ids[2], half), next)
    BY <2>1, GoodCreatePool, Amounts
  <2>3. GoodBatch(pool, next)
    BY <1>1, <2>2, BatchOne
  <2>4. /\ Good(Mint(ids[1], Sudo, Amount), next) /\ Good(Mint(ids[2], Sudo, Amount), next)
        /\ Good(Mint(Native, Fresh(c, 1), Amount), next) /\ Good(Mint(ids[1], Fresh(c, 1), Amount), next)
    BY GoodCalls, Amounts
  <2>5. GoodBatch(mints, next)
    BY <1>1, <2>4, BatchFour
  <2>6. Steady
    BY <1>1, <2>3, <2>5, SendAllSteady DEF next
  <2>7. \A l : Local(chain', s, 0, o, l)
    BY <1>0, PlainLocal
  <2> QED
    BY <1>0, <1>1, <2>6, <2>7, LearnEndKeeps
<1>2. PICK dry \in {D \in SUBSET (1..2) : Cardinality(D) <= MaxDry} :
        LET ids == Undefined(dry, Granted[c])
            mints == <<Mint(ids[1], Sudo, Amount), Mint(ids[2], Sudo, Amount),
                       Mint(Native, Fresh(c, 1), Amount), Mint(ids[1], Fresh(c, 1), Amount)>>
            pool == <<CreatePool(Sudo, ids[1], half, ids[2], half)>>
        IN /\ SendAll(c, mints, pool)
           /\ Learn(c, "ids", SubSeq(ids, 1, 2))
           /\ IF RunsAll(Wrapped(chain, mints), pool) THEN Return(c, TRUE) ELSE Throw(c)
  BY DEF SetupAPoolForUsers
<1>3. At(c, s, 0)
  BY DEF SetupAPoolForUsers
<1> DEFINE ids == Undefined(dry, Granted[c])
           mints == <<Mint(ids[1], Sudo, Amount), Mint(ids[2], Sudo, Amount),
                      Mint(Native, Fresh(c, 1), Amount), Mint(ids[1], Fresh(c, 1), Amount)>>
           pool == <<CreatePool(Sudo, ids[1], half, ids[2], half)>>
<1>4. SendAll(c, mints, pool) /\ Learn(c, "ids", SubSeq(ids, 1, 2))
  BY <1>2
<1>5. \E o \in Outcomes : outcome' = [outcome EXCEPT ![c] = o] /\ script' = script /\ pc' = pc
  BY <1>2 DEF Return, Throw, Outcomes
<1> QED
  BY <1>1, <1>3, <1>4, <1>5

-----------------------------------------------------------------------------
\* setup5PoolsChained.

\* A pool that is made in a batch is there at its end.
LEMMA PoolStays ==
  ASSUME NEW ch, Sound(ch), NEW calls, GoodBatch(calls, ch.next), NEW a, NEW b,
         NEW i \in 0..Len(calls), HasPool(Ledgers(ch, calls)[i], a, b)
  PROVE  \A j \in i..Len(calls) : HasPool(Ledgers(ch, calls)[j], a, b)
<1> DEFINE N == Len(calls)  led == Ledgers(ch, calls)
           D == {j \in 0..N : j < i \/ HasPool(led[j], a, b)}
<1>1. N \in Nat /\ \A j \in 1..N : Good(calls[j], ch.next)
  BY BatchCalls
<1>2. \A j \in 1..N : led[j] = Applied(led[j - 1], calls[j])
  BY <1>1, LedgersOf
<1>3. \A j \in 0..N : Sound(led[j]) /\ Kept(ch, led[j])
  BY LedgersKeep
<1>4. HasPool(led[i], a, b) /\ i \in 0..N
  OBVIOUS
<1> HIDE DEF N, led
<1>5. 0 \in D
  BY <1>1, <1>4
<1>6. ASSUME NEW j \in 0..N, j # N, j \in D
      PROVE  j + 1 \in D
  <2>1. j + 1 \in 1..N /\ j + 1 \in 0..N /\ (j + 1) - 1 = j
    BY <1>1, <1>6
  <2>2. CASE j + 1 < i
    BY <2>1, <2>2
  <2>3. CASE j + 1 = i
    BY <1>4, <2>1, <2>3
  <2>4. CASE j >= i
    <3>1. HasPool(led[j], a, b)
      BY <1>4, <1>6, <2>4
    <3>2. Sound(led[j]) /\ Kept(ch, led[j]) /\ led[j + 1] = Applied(led[j], calls[j + 1]) /\ Good(calls[j + 1], ch.next)
      BY <1>1, <1>2, <1>3, <2>1
    <3>3. Good(calls[j + 1], led[j].next)
      BY <3>2, GoodLater DEF Kept
    <3>4. Kept(led[j], led[j + 1])
      BY <3>2, <3>3, AppliedKeeps
    <3>5. HasPool(led[j + 1], a, b)
      BY <3>1, <3>4, HasPoolLater
    <3> QED
      BY <2>1, <3>5
  <2> QED
    BY <1>4, <1>6, <2>2, <2>3, <2>4
<1> HIDE DEF D
<1>7. \A j \in 0..N : j \in D
  BY <1>1, <1>5, <1>6, UpTo
<1>8. \A j \in i..N : HasPool(led[j], a, b)
  BY <1>1, <1>4, <1>7 DEF D
<1> QED
  BY <1>8 DEF N, led

\* createPool, when it fits: there was no pool of the two tokens, and now there is.
LEMMA PoolMade ==
  ASSUME NEW ch, Sound(ch), NEW calls, GoodBatch(calls, ch.next), RunsAll(ch, calls),
         NEW i \in 1..Len(calls), calls[i].op = "createPool"
  PROVE  /\ calls[i].a # calls[i].b /\ PoolsOf(Ledgers(ch, calls)[i - 1], calls[i].a, calls[i].b) = {}
         /\ \A j \in i..Len(calls) : HasPool(Ledgers(ch, calls)[j], calls[i].a, calls[i].b)
<1> DEFINE N == Len(calls)  led == Ledgers(ch, calls)  x == calls[i]  old == led[i - 1]
<1>1. N \in Nat /\ DOMAIN calls = 1..N /\ Good(x, ch.next)
  BY BatchCalls
<1>2. i - 1 \in 0..N /\ i \in 0..N
  BY <1>1
<1>3. led[i] = Applied(old, x) /\ Fits(old, x)
  BY <1>1, LedgersOf DEF RunsAll
<1>4. Sound(old) /\ Kept(ch, old)
  BY <1>2, LedgersKeep
<1>5. x.op = "createPool"
  OBVIOUS
<1> HIDE DEF N, led, x, old
<1>6. Good(x, old.next)
  BY <1>1, <1>4, GoodLater DEF Kept
<1>7. x.n \in Int /\ x.m \in Int /\ x.a \in 0..(old.next - 1) /\ x.b \in 0..(old.next - 1)
  BY <1>5, <1>6 DEF Good, Quiet
<1>8. led[i] = After(old, x)
  BY <1>3 DEF Applied
<1>9. HasPool(led[i], x.a, x.b)
  BY <1>3, <1>4, <1>5, <1>7, <1>8, CreatePoolKeeps DEF HasPool
<1>10. x.a # x.b /\ PoolsOf(old, x.a, x.b) = {}
  BY <1>3, <1>5 DEF Fits
<1>11. \A j \in i..Len(calls) : HasPool(Ledgers(ch, calls)[j], x.a, x.b)
  BY <1>2, <1>9, PoolStays DEF led, N
<1> QED
  BY <1>10, <1>11 DEF old, led, x

\* Two pools of one batch are of different pairs of tokens.
MakesPool(calls, i) == i \in 1..Len(calls) /\ calls[i].op = "createPool"

\* If both fit in one batch, the earlier one's pool is still there when the later one's
\* is made, which fits only for another pair.
LEMMA PairsDiffer ==
  ASSUME NEW ch, Sound(ch), NEW calls, GoodBatch(calls, ch.next), RunsAll(ch, calls),
         NEW i, MakesPool(calls, i), NEW j, MakesPool(calls, j), i < j
  PROVE  {calls[i].a, calls[i].b} # {calls[j].a, calls[j].b}
<1>1. Len(calls) \in Nat
  BY BatchCalls
<1>2. j - 1 \in i..Len(calls)
  BY <1>1 DEF MakesPool
<1>3. HasPool(Ledgers(ch, calls)[j - 1], calls[i].a, calls[i].b)
  BY <1>2, PoolMade DEF MakesPool
<1>4. PoolsOf(Ledgers(ch, calls)[j - 1], calls[j].a, calls[j].b) = {}
  BY PoolMade DEF MakesPool
<1>5. PoolsOf(Ledgers(ch, calls)[j - 1], calls[i].a, calls[i].b) # {}
  BY <1>3, PoolFound
<1> QED
  BY <1>4, <1>5 DEF PoolsOf

\* Five ids, equal only when the token pool gave none for both, each in a pool
\* with the next and the last with the native token: if the pools are of five
\* pairs, then the ids are five.
FivePairs(ids, g) ==
  /\ \A i \in 1..5 : ids[i] = Native \/ ids[i] = g[i]
  /\ (\A i \in 1..5 : g[i] # Native) /\ \A i, j \in 1..5 : g[i] = g[j] => i = j
  /\ \A i \in 1..5 : ids[i] # Next5(ids, i)
  /\ \A i, j \in 1..5 : i < j => {ids[i], Next5(ids, i)} # {ids[j], Next5(ids, j)}

\* Were two of the ids equal, both would be the native token, and the last pool would be
\* one of a token with itself, or two of the pools would have the same pair.
LEMMA FiveDiffer ==
  ASSUME NEW ids, NEW g, FivePairs(ids, g)
  PROVE  \A i, j \in 1..5 : ids[i] = ids[j] => i = j
<1>1. /\ Next5(ids, 1) = ids[2] /\ Next5(ids, 2) = ids[3] /\ Next5(ids, 3) = ids[4]
      /\ Next5(ids, 4) = ids[5] /\ Next5(ids, 5) = Native
  BY DEF Next5
<1>2. ids[1] # ids[2] /\ ids[2] # ids[3] /\ ids[3] # ids[4] /\ ids[4] # ids[5] /\ ids[5] # Native
  BY <1>1 DEF FivePairs
<1>3. {ids[1], ids[2]} # {ids[2], ids[3]}
  BY <1>1 DEF FivePairs
<1>4. {ids[4], ids[5]} # {ids[5], Native}
  BY <1>1 DEF FivePairs
<1>5. ids[1] # ids[3] /\ ids[4] # Native
  BY <1>3, <1>4
<1>6. \A i, j \in 1..5 : ids[i] = ids[j] => i = j \/ ids[i] = Native
  BY DEF FivePairs
<1> QED
  BY <1>2, <1>5, <1>6

\* the pools of setup5PoolsChained
ChainCalls(ids, half) == [i \in 1..5 |-> CreatePool(Sudo, ids[i], half, Next5(ids, i), half)]

\* They are good calls, whichever ids the token pool left out.
LEMMA FivePoolsGood ==
  ASSUME Inv, NEW c \in Clients, NEW dry, NEW ids, ids = Undefined(dry, Granted[c]), NEW half, half = Amount \div 2,
         NEW pools, pools = ChainCalls(ids, half)
  PROVE  GoodBatch(pools, chain.next) /\ Len(pools) = 5
<1> DEFINE next == chain.next
<1>1. \A i \in 1..5 : ids[i] \in 0..(next - 1)
  BY DryIds
<1>2. Native \in 0..(next - 1)
  BY TokenIds
<1>3. half \in Int
  BY Amounts
<1> HIDE DEF next
<1>4. \A i \in 1..5 : Next5(ids, i) \in 0..(next - 1)
  <2> TAKE i \in 1..5
  <2>1. CASE i = 5
    BY <1>2, <2>1 DEF Next5
  <2>2. CASE i # 5
    <3>1. i + 1 \in 1..5 /\ Next5(ids, i) = ids[i + 1]
      BY <2>2 DEF Next5
    <3> QED
      BY <1>1, <3>1
  <2> QED
    BY <2>1, <2>2
<1>5. \A i \in 1..5 : Good(CreatePool(Sudo, ids[i], half, Next5(ids, i), half), next)
  BY <1>1, <1>3, <1>4, GoodCreatePool
<1>6. pools = [i \in 1..5 |-> pools[i]] /\ \A i \in 1..5 : Good(pools[i], next)
  BY <1>5 DEF ChainCalls
<1>7. Len(pools) = 5
  BY <1>6
<1>8. GoodBatch(pools, next)
  BY <1>6, BatchEach
<1> QED
  BY <1>7, <1>8 DEF next

\* If all five fit one after the other, they chain.
LEMMA FiveChain ==
  ASSUME Inv, NEW c \in Clients, NEW dry, NEW ids, ids = Undefined(dry, Granted[c]), NEW half, half = Amount \div 2,
         NEW pools, pools = ChainCalls(ids, half),
         NEW ch, Sound(ch), Kept(chain, ch), RunsAll(ch, pools)
  PROVE  Chained(Wrapped(ch, pools), ids)
<1>1. GoodBatch(pools, chain.next) /\ Len(pools) = 5
  BY FivePoolsGood
<1>2. GoodBatch(pools, ch.next)
  BY <1>1, BatchLater
<1>3. \A i \in 1..5 : pools[i].op = "createPool" /\ pools[i].a = ids[i] /\ pools[i].b = Next5(ids, i)
  BY DEF CreatePool, ChainCalls
<1> DEFINE last == Wrapped(ch, pools)
<1> HIDE DEF last
<1>4. \A i \in 1..5 : ids[i] # Next5(ids, i) /\ HasPool(last, ids[i], Next5(ids, i))
  <2> TAKE i \in 1..5
  <2>1. ids[i] # Next5(ids, i) /\ \A j \in i..Len(pools) : HasPool(Ledgers(ch, pools)[j], ids[i], Next5(ids, i))
    <3>1. i \in 1..Len(pools)
      BY <1>1
    <3> QED
      BY <1>2, <1>3, <3>1, PoolMade
  <2>2. Len(pools) \in i..Len(pools)
    <3>1. 5 \in i..5
      OBVIOUS
    <3> QED
      BY <1>1, <3>1
  <2> QED
    BY <2>1, <2>2 DEF Wrapped, last
<1>5. ASSUME NEW i \in 1..5, NEW j \in 1..5, i < j
      PROVE  {ids[i], Next5(ids, i)} # {ids[j], Next5(ids, j)}
  <2>1. i \in 1..Len(pools) /\ j \in 1..Len(pools)
    BY <1>1
  <2>2. MakesPool(pools, i) /\ MakesPool(pools, j)
    BY <1>3, <2>1 DEF MakesPool
  <2>3. {pools[i].a, pools[i].b} # {pools[j].a, pools[j].b}
    BY <1>2, <1>5, <2>2, PairsDiffer
  <2> QED
    BY <1>3, <2>3
<1> DEFINE g == Granted[c]
<1>6. /\ \A i \in 1..5 : ids[i] = Native \/ ids[i] = g[i]
      /\ ids = [i \in 1..5 |-> ids[i]]
  BY DryIds
<1>7. (\A i \in 1..5 : g[i] # Native) /\ \A i, j \in 1..5 : g[i] = g[j] => i = j
  BY SetupAssumption
<1> HIDE DEF g
<1>8. \A i, j \in 1..5 : ids[i] = ids[j] => i = j
  <2>1. FivePairs(ids, g)
    BY <1>4, <1>5, <1>6, <1>7 DEF FivePairs
  <2> QED
    BY <2>1, FiveDiffer
<1> QED
  BY <1>4, <1>6, <1>8 DEF Chained, last

\* setup5PoolsChained.
LEMMA Setup5PoolsChainedKeeps ==
  ASSUME Inv, NEW c \in Clients, Setup5PoolsChained(c)
  PROVE  Inv'
<1> DEFINE s == "fivePools"  half == Amount \div 2
<1>0. "ids" \in Fields /\ s \notin Issuers /\ {"met", "threw"} \subseteq Outcomes
  BY DEF Fields, Issuers, Outcomes
<1>1. PICK dry \in {D \in SUBSET (1..5) : Cardinality(D) <= MaxDry} :
        LET ids == Undefined(dry, Granted[c])
            mints == MintAll(ids[1], <<Sudo>>, Amount) \o MintAll(ids[2], <<Sudo>>, Amount)
                     \o MintAll(ids[3], <<Sudo>>, Amount) \o MintAll(ids[4], <<Sudo>>, Amount)
                     \o MintAll(ids[5], <<Sudo>>, Amount) \o MintAll(Native, <<Fresh(c, 1)>>, Amount)
                     \o MintAll(ids[1], <<Fresh(c, 1)>>, Amount) \o MintAll(ids[5], <<Fresh(c, 1)>>, Amount)
            pools == [i \in 1..5 |-> CreatePool(Sudo, ids[i], half, Next5(ids, i), half)]
        IN /\ SendAll(c, mints, pools)
           /\ Learn(c, "ids", ids)
           /\ IF RunsAll(Wrapped(chain, mints), pools) THEN Return(c, TRUE) ELSE Throw(c)
  BY DEF Setup5PoolsChained
<1> DEFINE ids == Undefined(dry, Granted[c])
           mints == MintAll(ids[1], <<Sudo>>, Amount) \o MintAll(ids[2], <<Sudo>>, Amount)
                    \o MintAll(ids[3], <<Sudo>>, Amount) \o MintAll(ids[4], <<Sudo>>, Amount)
                    \o MintAll(ids[5], <<Sudo>>, Amount) \o MintAll(Native, <<Fresh(c, 1)>>, Amount)
                    \o MintAll(ids[1], <<Fresh(c, 1)>>, Amount) \o MintAll(ids[5], <<Fresh(c, 1)>>, Amount)
           pools == [i \in 1..5 |-> CreatePool(Sudo, ids[i], half, Next5(ids, i), half)]
           l == [loc[c] EXCEPT !["ids"] = ids]
<1>2. At(c, s, 0)
  BY DEF Setup5PoolsChained
<1>3. SendAll(c, mints, pools) /\ Learn(c, "ids", ids)
  BY <1>1
<1>4. IF RunsAll(Wrapped(chain, mints), pools) THEN Return(c, TRUE) ELSE Throw(c)
  BY <1>1
<1>5. GoodBatch(mints, chain.next)
  <2> DEFINE M(t, users) == MintAll(t, users, Amount)
  <2>1. \A t : GoodBatch(M(t, <<Sudo>>), chain.next) /\ GoodBatch(M(t, <<Fresh(c, 1)>>), chain.next)
    BY BatchMintAll, Users, Amounts
  <2> HIDE DEF M, ids
  <2>2. GoodBatch(M(ids[1], <<Sudo>>) \o M(ids[2], <<Sudo>>) \o M(ids[3], <<Sudo>>) \o M(ids[4], <<Sudo>>)
                  \o M(ids[5], <<Sudo>>) \o M(Native, <<Fresh(c, 1)>>)
                  \o M(ids[1], <<Fresh(c, 1)>>) \o M(ids[5], <<Fresh(c, 1)>>), chain.next)
    BY <2>1, BatchTwo
  <2> QED
    BY <2>2 DEF M
<1>6. ids = Undefined(dry, Granted[c])
  OBVIOUS
<1> HIDE DEF ids, mints
<1>7. GoodBatch(pools, chain.next)
  BY <1>6, FivePoolsGood DEF ChainCalls
<1>8. pools = ChainCalls(ids, half)
  BY DEF ChainCalls
<1>9. half = Amount \div 2
  OBVIOUS
<1> HIDE DEF pools, half
<1>10. Steady
  BY <1>3, <1>5, <1>7, SendAllSteady
<1>11. l.ids = ids
  BY <1>0, Learned
<1>12. CASE RunsAll(Wrapped(chain, mints), pools)
  <2>1. outcome' = [outcome EXCEPT ![c] = "met"] /\ script' = script /\ pc' = pc
    BY <1>4, <1>12 DEF Return
  <2>2. chain' = Wrapped(Wrapped(chain, mints), pools)
    BY <1>3, <1>12 DEF SendAll, SendBoth
  <2>3. Sound(Wrapped(chain, mints)) /\ Kept(chain, Wrapped(chain, mints))
    BY <1>5, WrappedKeeps, TokenIds
  <2>4. Chained(chain', ids)
    BY <1>6, <1>8, <1>9, <1>12, <2>2, <2>3, FiveChain
  <2> HIDE DEF l
  <2>5. Local(chain', s, 0, "met", l)
    BY <1>0, <1>11, <2>4 DEF Local
  <2>6. Local(chain', s, 0, "met", [loc[c] EXCEPT !["ids"] = ids])
    BY <2>5 DEF l
  <2> QED
    BY <1>0, <1>2, <1>3, <1>10, <2>1, <2>6, LearnEndKeeps
<1>13. CASE ~ RunsAll(Wrapped(chain, mints), pools)
  <2>1. outcome' = [outcome EXCEPT ![c] = "threw"] /\ script' = script /\ pc' = pc
    BY <1>4, <1>13 DEF Throw
  <2> HIDE DEF l
  <2>2. Local(chain', s, 0, "threw", l)
    BY <1>0 DEF Local
  <2>3. Local(chain', s, 0, "threw", [loc[c] EXCEPT !["ids"] = ids])
    BY <2>2 DEF l
  <2> QED
    BY <1>0, <1>2, <1>3, <1>10, <2>1, <2>3, LearnEndKeeps
<1> QED
  BY <1>12, <1>13

-----------------------------------------------------------------------------
\* createPoolIfMissing.

\* A mint of a token that exists is always carried out.
LEMMA MintHeld ==
  ASSUME NEW ch, Sound(ch), NEW t \in 0..(ch.next - 1), NEW u, NEW n \in Nat, NEW new, new = Applied(ch, Mint(t, u, n))
  PROVE  /\ Held(new.free, <<u, t>>) = Held(ch.free, <<u, t>>) + n /\ Held(ch.free, <<u, t>>) \in Nat
         /\ \A k : k # <<u, t>> => Held(new.free, k) = Held(ch.free, k)
         /\ Sound(new) /\ ch.next <= new.next
<1> DEFINE x == Mint(t, u, n)
<1>1. x.op = "mint" /\ x.t = t /\ x.u = u /\ x.n = n
  BY DEF Mint
<1> HIDE DEF x
<1>2. Fits(ch, x)
  BY <1>1 DEF Fits
<1>3. new = After(ch, x)
  BY <1>2 DEF Applied, x
<1>4. /\ DOMAIN ch = LedgerFields /\ Naturals(ch.free) /\ ch.next \in Nat
      /\ IsFiniteSet(GivenCoins(ch.free))
  BY DEF Sound, PoolsSound, Backed
<1>5. new.free = Plus(ch.free, <<u, t>>, n)
  BY <1>1, <1>3, <1>4 DEF After, LedgerFields
<1>6. Sound(new) /\ Kept(ch, new)
  BY <1>1, <1>3, MintKeeps
<1>7. /\ Held(Plus(ch.free, <<u, t>>, n), <<u, t>>) = Held(ch.free, <<u, t>>) + n
      /\ \A k : k # <<u, t>> => Held(Plus(ch.free, <<u, t>>, n), k) = Held(ch.free, k)
  BY <1>4, GiveHolds
<1>8. Held(ch.free, <<u, t>>) \in Nat
  BY <1>4, HeldNatural
<1> QED
  BY <1>5, <1>6, <1>7, <1>8 DEF Kept

\* what createPoolIfMissing mints
MissingMints == <<Mint(Native, Sudo, Amount), Mint(Wanted, Sudo, Amount), Mint(Native, Sudo, Amount)>>

\* the pool that it makes
MissingCall == CreatePool(Sudo, Native, Amount \div 2, Wanted, Amount \div 2)

\* After the mints sudo has enough of both tokens.
LEMMA MissingMinted ==
  ASSUME Inv
  PROVE  /\ Has(Wrapped(chain, MissingMints), Sudo, Native, Amount \div 2)
         /\ Has(Wrapped(chain, MissingMints), Sudo, Wanted, Amount \div 2)
<1> DEFINE led == Ledgers(chain, MissingMints)  kn == <<Sudo, Native>>  kw == <<Sudo, Wanted>>
<1>0. Len(MissingMints) = 3 /\ MissingMints[1] = Mint(Native, Sudo, Amount)
      /\ MissingMints[2] = Mint(Wanted, Sudo, Amount) /\ MissingMints[3] = Mint(Native, Sudo, Amount)
  BY DEF MissingMints
<1>1. /\ led[0] = chain /\ led[1] = Applied(led[1 - 1], MissingMints[1])
      /\ led[2] = Applied(led[2 - 1], MissingMints[2]) /\ led[3] = Applied(led[3 - 1], MissingMints[3])
  BY <1>0, LedgersOf
<1> HIDE DEF led
<1>2. /\ led[0] = chain /\ led[1] = Applied(led[0], Mint(Native, Sudo, Amount))
      /\ led[2] = Applied(led[1], Mint(Wanted, Sudo, Amount)) /\ led[3] = Applied(led[2], Mint(Native, Sudo, Amount))
  BY <1>0, <1>1
<1>3. /\ Sound(led[0]) /\ led[0].next \in Nat /\ Native \in 0..(led[0].next - 1) /\ Wanted \in 0..(led[0].next - 1)
  BY <1>2, TokenIds
<1>4. kn # kw
  BY DEF Native, Wanted
<1>5. Amount \in Nat /\ Amount \div 2 <= Amount
  BY Amounts
<1>6. /\ Held(led[0].free, kn) \in Nat /\ Held(led[1].free, kn) = Held(led[0].free, kn) + Amount
      /\ Sound(led[1]) /\ led[0].next <= led[1].next
  BY <1>2, <1>3, <1>5, MintHeld
<1>7. Wanted \in 0..(led[1].next - 1) /\ led[1].next \in Nat
  BY <1>3, <1>6 DEF Sound, PoolsSound
<1>8. /\ Held(led[1].free, kw) \in Nat /\ Held(led[2].free, kw) = Held(led[1].free, kw) + Amount
      /\ Sound(led[2]) /\ led[1].next <= led[2].next /\ Held(led[2].free, kn) = Held(led[1].free, kn)
  BY <1>2, <1>4, <1>5, <1>6, <1>7, MintHeld
<1>9. Native \in 0..(led[2].next - 1)
  BY <1>3, <1>6, <1>7, <1>8 DEF Sound, PoolsSound
<1>10. Held(led[3].free, kn) = Held(led[2].free, kn) + Amount /\ Held(led[3].free, kw) = Held(led[2].free, kw)
  BY <1>2, <1>4, <1>5, <1>8, <1>9, MintHeld
<1>11. Held(led[3].free, kn) >= Amount \div 2 /\ Held(led[3].free, kw) >= Amount \div 2
  BY <1>5, <1>6, <1>8, <1>10
<1>12. Wrapped(chain, MissingMints) = led[3]
  BY <1>0 DEF Wrapped, led
<1> QED
  BY <1>11, <1>12 DEF Has

\* Whether createPool goes through or another made the pool first, it is there.
LEMMA MissingMade ==
  ASSUME Inv, NEW c, SendUntil(c, MissingMints, <<MissingCall>>)
  PROVE  Steady /\ HasPool(chain', Native, Wanted)
<1> DEFINE old == Wrapped(chain, MissingMints)  calls == <<MissingCall>>  x == MissingCall
<1>1. /\ Good(Mint(Native, Sudo, Amount), chain.next) /\ Good(Mint(Wanted, Sudo, Amount), chain.next)
  BY GoodCalls, Amounts
<1>2. GoodBatch(MissingMints, chain.next)
  BY <1>1, BatchThree DEF MissingMints
<1>3. Good(MissingCall, chain.next)
  BY GoodCreatePool, TokenIds, Amounts DEF MissingCall
<1>4. GoodBatch(<<MissingCall>>, chain.next)
  BY <1>3, BatchOne
<1>5. Steady
  BY <1>2, <1>4, SendAllSteady
<1>6. Sound(old) /\ Kept(chain, old)
  BY <1>2, WrappedKeeps, TokenIds
<1>7. GoodBatch(calls, old.next)
  BY <1>4, <1>6, BatchLater
<1>8. Len(calls) = 1 /\ calls[1] = x /\ DOMAIN calls = 1..1 /\ 1 \in 1..Len(calls)
  OBVIOUS
<1>9. x.op = "createPool" /\ x.a = Native /\ x.b = Wanted /\ x.u = Sudo /\ x.n = Amount \div 2 /\ x.m = Amount \div 2
  BY DEF MissingCall, CreatePool
<1>10. Has(old, Sudo, Native, Amount \div 2) /\ Has(old, Sudo, Wanted, Amount \div 2)
  BY MissingMinted
<1>11. RunsAll(old, calls) \/ chain' = old
  BY DEF SendUntil, Send
<1>12. RunsAll(old, calls) => chain' = Wrapped(old, calls)
  BY DEF SendUntil, SendBoth
<1> HIDE DEF old, x, calls
<1>13. CASE RunsAll(old, calls)
  <2>1. \A j \in 1..Len(calls) : HasPool(Ledgers(old, calls)[j], Native, Wanted)
    BY <1>6, <1>7, <1>8, <1>9, <1>13, PoolMade
  <2>2. HasPool(Wrapped(old, calls), Native, Wanted)
    BY <1>8, <2>1 DEF Wrapped
  <2> QED
    BY <1>5, <1>12, <1>13, <2>2
<1>14. CASE ~ RunsAll(old, calls)
  <2>1. Ledgers(old, calls)[0] = old
    BY <1>8, LedgersOf
  <2>2. ~ Fits(old, x)
    BY <1>8, <1>14, <2>1 DEF RunsAll
  <2>3. PoolsOf(old, Native, Wanted) # {}
    <3>1. Native # Wanted /\ Amount \div 2 > 0
      BY Amounts DEF Native, Wanted
    <3> QED
      BY <1>9, <1>10, <2>2, <3>1 DEF Fits
  <2>4. HasPool(old, Native, Wanted)
    <3>1. {Native, Wanted} # {Native, Given}
      BY DEF Native, Wanted, Given
    <3> QED
      BY <1>6, <2>3, <3>1, FoundPool
  <2> QED
    BY <1>5, <1>11, <1>14, <2>4
<1> QED
  BY <1>13, <1>14

\* A script ends as it is: what it knows is enough for how it ends.
LEMMA EndAsKeeps ==
  ASSUME Inv, NEW c \in Clients, NEW s, NEW k, At(c, s, k), Steady, UNCHANGED loc,
         NEW o \in Outcomes, outcome' = [outcome EXCEPT ![c] = o], script' = script, pc' = pc,
         Local(chain', s, k, o, loc[c])
  PROVE  Inv'
<1>1. script[c] = s /\ pc[c] = k
  BY DEF At
<1>2. Moves(c) /\ pc'[c] = k /\ outcome'[c] = o /\ loc'[c] = loc[c] /\ DOMAIN loc'[c] = Fields
  BY <1>1 DEF Moves, Inv
<1> QED
  BY <1>1, <1>2, MoveKeeps DEF Steady

\* The pool of the pair is the only one, and it is promoted.
LEMMA PromotedAll ==
  ASSUME NEW ch, Sound(ch), HasPool(ch, Native, Wanted), NEW liq, liq = LiqId(ch, Native, Wanted)
  PROVE  /\ liq # NoPool
         /\ LET new == Wrapped(ch, <<Promote(liq)>>) IN PoolsOf(new, Native, Wanted) \subseteq new.promoted
<1> DEFINE x == Promote(liq)  calls == <<x>>  new == Wrapped(ch, calls)
<1>1. PoolsSound(ch.pools, ch.next) /\ DOMAIN ch = LedgerFields
  BY DEF Sound
<1>2. PoolsOf(ch, Native, Wanted) # {}
  BY PoolFound
<1>3. liq \in DOMAIN ch.pools /\ \A l \in PoolsOf(ch, Native, Wanted) : l = liq
  BY <1>1, <1>2, PoolsOfPair
<1>4. liq # NoPool
  BY <1>1, <1>3 DEF PoolsSound, NoPool
<1>5. Len(calls) = 1 /\ calls[1] = x /\ Len(calls) \in Nat
  OBVIOUS
<1>6. x.op = "promote" /\ x.l = liq
  BY DEF Promote
<1> HIDE DEF x, calls
<1>7. new = Applied(ch, x)
  <2>1. Ledgers(ch, calls)[1] = Applied(Ledgers(ch, calls)[1 - 1], calls[1]) /\ Ledgers(ch, calls)[0] = ch
    BY <1>5, LedgersOf
  <2> QED
    BY <1>5, <2>1 DEF Wrapped
<1>8. new = [ch EXCEPT !.promoted = @ \cup {liq}]
  BY <1>6, <1>7 DEF Applied, Fits, After
<1> HIDE DEF new
<1>9. new.pools = ch.pools /\ liq \in new.promoted
  BY <1>1, <1>8 DEF LedgerFields
<1>10. PoolsOf(new, Native, Wanted) \subseteq new.promoted
  BY <1>3, <1>9 DEF PoolsOf
<1> QED
  BY <1>4, <1>10 DEF new, calls, x

\* createPoolIfMissing: whoever makes the pool, both find it and promote it.
LEMMA CreatePoolIfMissingKeeps ==
  ASSUME Inv, NEW c \in Clients, CreatePoolIfMissing(c)
  PROVE  Inv'
<1> DEFINE s == "poolIfMissing"
<1>0. {"read", "liq"} \subseteq Fields /\ s \notin Issuers /\ {"met", "running"} \subseteq Outcomes
  BY DEF Fields, Issuers, Outcomes
<1>1. CASE MissingPool(c)
  <2>1. At(c, s, 0) /\ Look /\ Steady
    BY <1>1, LookSteady DEF MissingPool
  <2>2. CASE Return(c, TRUE) /\ UNCHANGED loc
    <3>1. outcome' = [outcome EXCEPT ![c] = "met"] /\ script' = script /\ pc' = pc
      BY <2>2 DEF Return
    <3>2. Local(chain', s, 0, "met", loc[c])
      BY <1>0 DEF Local
    <3> QED
      BY <1>0, <2>1, <2>2, <3>1, <3>2, EndAsKeeps
  <2>3. ASSUME NEW promoted, Learn(c, "read", promoted), Goto(c, 1)
        PROVE  Inv'
    <3> DEFINE l == [loc[c] EXCEPT !["read"] = promoted]
    <3> HIDE DEF l
    <3>1. Local(chain', s, 1, "running", l)
      BY <1>0 DEF Local
    <3>2. Local(chain', s, 1, "running", [loc[c] EXCEPT !["read"] = promoted]) /\ 1 \in 0..8
      BY <3>1 DEF l
    <3> QED
      BY <1>0, <2>1, <2>3, <3>2, LookLearnKeeps
  <2> QED
    BY <1>1, <2>2, <2>3 DEF MissingPool
<1>2. CASE CreateMissingPool(c)
  <2>1. At(c, s, 1) /\ Goto(c, 2) /\ UNCHANGED loc /\ SendUntil(c, MissingMints, <<MissingCall>>)
    BY <1>2 DEF CreateMissingPool, MissingMints, MissingCall
  <2>2. Steady /\ HasPool(chain', Native, Wanted)
    BY <2>1, MissingMade
  <2>3. Local(chain', s, 2, "running", loc[c])
    BY <1>0, <2>2 DEF Local
  <2>4. Moves(c) /\ pc'[c] = 2 /\ outcome'[c] = "running" /\ loc'[c] = loc[c] /\ DOMAIN loc'[c] = Fields /\ script[c] = s
    BY <2>1 DEF Goto, Moves, At, Inv
  <2> QED
    BY <2>2, <2>3, <2>4, MoveKeeps DEF Steady
<1>3. CASE ReadMissingPool(c)
  <2> DEFINE v == LiqId(chain, Native, Wanted)  l == [loc[c] EXCEPT !["liq"] = v]
  <2>1. At(c, s, 2) /\ Look /\ Learn(c, "liq", v) /\ Steady
    BY <1>3, LookSteady DEF ReadMissingPool, ReadLiquidity
  <2>2. Local(chain, s, 2, "running", loc[c])
    BY <2>1, StillLocal
  <2>3. HasPool(chain, Native, Wanted)
    BY <2>2 DEF Local
  <2>4. l.liq = v
    BY <1>0, Learned
  <2>5. chain' = chain
    BY <2>1 DEF Look
  <2> HIDE DEF l
  <2>6. Local(chain', s, 3, "running", l) /\ Local(chain', s, 2, "met", l)
    BY <1>0, <2>3, <2>4, <2>5 DEF Local
  <2> HIDE DEF v
  <2>7. CASE Goto(c, 3)
    <3>1. Local(chain', s, 3, "running", [loc[c] EXCEPT !["liq"] = v]) /\ 3 \in 0..8
      BY <2>6 DEF l
    <3> QED
      BY <1>0, <2>1, <2>7, <3>1, LookLearnKeeps
  <2>8. CASE Return(c, PoolsOf(chain, Native, Wanted) # {})
    <3>1. outcome' = [outcome EXCEPT ![c] = "met"] /\ script' = script /\ pc' = pc
      BY <2>3, <2>8, PoolFound DEF Return
    <3>2. Local(chain', s, 2, "met", [loc[c] EXCEPT !["liq"] = v])
      BY <2>6 DEF l
    <3> QED
      BY <1>0, <2>1, <3>1, <3>2, LearnEndKeeps
  <2> QED
    BY <1>3, <2>7, <2>8 DEF ReadMissingPool
<1>4. CASE PromoteMissingPool(c)
  <2> DEFINE liq == loc[c].liq
  <2>1. At(c, s, 3) /\ UNCHANGED loc
    BY <1>4 DEF PromoteMissingPool
  <2>2. Local(chain, s, 3, "running", loc[c])
    BY <2>1 DEF Inv, At
  <2>3. HasPool(chain, Native, Wanted) /\ liq = LiqId(chain, Native, Wanted)
    BY <2>2 DEF Local
  <2>4. /\ liq # NoPool
        /\ LET new == Wrapped(chain, <<Promote(liq)>>) IN PoolsOf(new, Native, Wanted) \subseteq new.promoted
    BY <2>3, PromotedAll, TokenIds
  <2>5. Send(c, <<Promote(liq)>>) /\ Return(c, PoolsOf(chain', Native, Wanted) \subseteq chain'.promoted)
    BY <1>4, <2>4 DEF PromoteMissingPool
  <2>6. chain' = Wrapped(chain, <<Promote(liq)>>)
    BY <2>5 DEF Send
  <2>7. outcome' = [outcome EXCEPT ![c] = "met"] /\ script' = script /\ pc' = pc
    BY <2>4, <2>5, <2>6 DEF Return
  <2>8. GoodBatch(<<Promote(liq)>>, chain.next)
    BY GoodCalls, BatchOne
  <2>9. Steady
    BY <2>6, <2>8, SentSteady
  <2>10. Local(chain', s, 3, "running", loc[c])
    BY <2>1, <2>9, StillLocal
  <2>11. Local(chain', s, 3, "met", loc[c])
    BY <1>0, <2>10 DEF Local
  <2> QED
    BY <1>0, <2>1, <2>7, <2>9, <2>11, EndAsKeeps
<1> QED
  BY <1>1, <1>2, <1>3, <1>4 DEF CreatePoolIfMissing

-----------------------------------------------------------------------------
\* The invariant.

\* The ledgers that the scripts find are sound.
LEMMA InitInv ==
  ASSUME Init
  PROVE  Inv
<1>1. Sound(chain) /\ \A c \in Clients, i \in 1..5 : Granted[c][i] < chain.next
  BY ChainAssumption DEF Init
<1>2. /\ script \in [Clients -> Scripts] /\ pc \in [Clients -> 0..8] /\ outcome \in [Clients -> Outcomes]
      /\ DOMAIN loc = Clients
  BY DEF Init, Outcomes
<1>3. ASSUME NEW c \in Clients
      PROVE  DOMAIN loc[c] = Fields /\ Local(chain, script[c], pc[c], outcome[c], loc[c])
  <2>1. loc[c] = Nothing /\ pc[c] = 0 /\ outcome[c] = "running"
    BY DEF Init
  <2>2. DOMAIN Nothing = Fields /\ Nothing.ids = <<>>
    BY DEF Nothing, Fields
  <2>3. \A S : <<>> \in Seq(S) /\ Len(<<>>) = 0
    OBVIOUS
  <2>4. Local(chain, script[c], 0, "running", Nothing)
    BY <2>2, <2>3 DEF Local
  <2> QED
    BY <2>1, <2>2, <2>4
<1> QED
  BY <1>1, <1>2, <1>3 DEF Inv

\* A stutter keeps the invariant.
LEMMA UnchangedInv ==
  ASSUME Inv, UNCHANGED vars
  PROVE  Inv'
BY DEF Inv, vars

\* Every step of every script keeps it.
LEMMA NextInv ==
  ASSUME Inv, Next
  PROVE  Inv'
<1>1. PICK c \in Clients : Script(c)
  BY DEF Next
<1>2. CASE Setup5PoolsChained(c) \/ SetupAPoolForUsers(c) \/ CreatePoolIfMissing(c)
  BY <1>2, Setup5PoolsChainedKeeps, SetupAPoolForUsersKeeps, CreatePoolIfMissingKeeps
<1>3. CASE ClearMgaFromWhitelisted(c) \/ AddMgaToWhitelisted(c)
  BY <1>3, FeesKeep
<1>4. CASE PoolWithRewards(c) \/ TokenWithRewards(c) \/ CustomPool(c) \/ ThirdPartyRewards(c)
  BY <1>4, PoolWithRewardsKeeps, TokenWithRewardsKeeps, CustomPoolKeeps, ThirdPartyRewardsKeep
<1>5. CASE AddActivatedLiquidity(c) \/ AddUnspentReserves(c)
  BY <1>5, AddActivatedLiquidityKeeps, AddUnspentReservesKeeps
<1>6. CASE GiveTokensToUser(c) \/ BurnAllTokensFromPool(c) \/ MintTokenToUser(c) \/ EnableLiquidityToken(c)
  BY <1>6, GiveTokensToUserKeeps, BurnAllTokensFromPoolKeeps, MintTokenToUserKeeps, EnableLiquidityTokenKeeps
<1>7. CASE SetupACollator(c) \/ JoinAsCandidate(c) \/ JoinAFewCandidates(c) \/ FillWithDelegators(c)
  BY <1>7, SetupACollatorKeeps, JoinAsCandidateKeeps, JoinAFewCandidatesKeeps, FillWithDelegatorsKeeps
<1>8. CASE AddStakedReserves(c) \/ SetupACouncil(c) \/ SetupMaintenanceTests(c)
  BY <1>8, AddStakedReservesKeeps, SetupACouncilKeeps, SetupMaintenanceTestsKeep
<1>9. CASE VoteMotion(c) \/ CloseMotion(c) \/ VetoMotion(c)
  BY <1>9, VoteMotionKeeps, MotionsKeep
<1> QED
  BY <1>1, <1>2, <1>3, <1>4, <1>5, <1>6, <1>7, <1>8, <1>9 DEF Script

\* The invariant holds always.
LEMMA Invariance == Spec => []Inv
<1>1. Init => Inv
  BY InitInv
<1>2. Inv /\ [Next]_vars => Inv'
  BY UnchangedInv, NextInv
<1> QED
  BY <1>1, <1>2, PTL DEF Spec

\* Whatever set-ups run at the same time, on whatever sound ledger they start: no
\* balance becomes negative, no two pools share a pair, no pool is empty or issues
\* less liquidity than is held of the given one, only members have votes, and the ids
\* that a script takes for those of its tokens have been issued
\* (setupsOnTheGo.ts:141-1735, Assets.ts:131-171, sudo.ts:11-47).
THEOREM TypeCorrect == Spec => []TypeOK
<1>1. Inv => TypeOK
  <2> SUFFICES ASSUME Inv PROVE TypeOK
    OBVIOUS
  <2>1. ASSUME NEW c \in Clients, script[c] \in Issuers
        PROVE  Range(loc[c].ids) \subseteq 0..(chain.next - 1)
    <3> DEFINE S == 0..(chain.next - 1)  q == loc[c].ids
    <3>1. q \in Seq(S)
      BY <2>1 DEF Inv, Local
    <3> HIDE DEF S, q
    <3>2. Range(q) \subseteq S
      BY <3>1 DEF Range
    <3> QED
      BY <3>2 DEF S, q
  <2> QED
    BY <2>1 DEF Inv, TypeOK, Outcomes
<1> QED
  BY <1>1, Invariance, PTL

\* setup5PoolsChained returns only when its five ids differ and each has a pool with
\* the next, the last one with the native token, however many ids the token pool left
\* undefined and whatever other clients do meanwhile: when a pool cannot be made, the
\* batch of bare calls is refused and the set-up throws (setup.ts:102-144).
THEOREM FivePoolsChained == Spec => []FiveChained
<1>1. Inv => FiveChained
  <2> SUFFICES ASSUME Inv, NEW c \in Clients, script[c] = "fivePools", outcome[c] = "met"
               PROVE  /\ Cardinality(Range(loc[c].ids)) = 5
                      /\ \A i \in 1..5 : PoolsOf(chain, loc[c].ids[i], Next5(loc[c].ids, i)) # {}
    BY DEF FiveChained
  <2> DEFINE ids == loc[c].ids
  <2>1. Chained(chain, ids)
    <3>1. Local(chain, "fivePools", pc[c], "met", loc[c])
      BY DEF Inv
    <3> QED
      BY <3>1 DEF Local
  <2> HIDE DEF ids
  <2>2. \A i \in 1..5 : PoolsOf(chain, ids[i], Next5(ids, i)) # {}
    BY <2>1, PoolFound DEF Chained
  <2>3. Cardinality(Range(ids)) = 5
    <3>1. ids \in [1..5 -> Range(ids)]
      BY <2>1 DEF Chained, Range
    <3>2. \A a, b \in 1..5 : ids[a] = ids[b] => a = b
      BY <2>1 DEF Chained
    <3>3. ids \in Injection(1..5, Range(ids))
      BY <3>1, <3>2 DEF Injection, IsInjective
    <3>4. ids \in Surjection(1..5, Range(ids))
      BY <3>1 DEF Surjection, Range
    <3>5. ExistsBijection(1..5, Range(ids))
      BY <3>3, <3>4 DEF ExistsBijection, Bijection
    <3>6. IsFiniteSet(1..5) /\ Cardinality(1..5) = 5
      <4>1. 1 \in Int /\ 5 \in Int /\ (IF 1 > 5 THEN 0 ELSE 5 - 1 + 1) = 5
        OBVIOUS
      <4>2. IsFiniteSet(1..5) /\ Cardinality(1..5) = IF 1 > 5 THEN 0 ELSE 5 - 1 + 1
        BY <4>1, FS_Interval, Zenon
      <4> QED
        BY <4>1, <4>2
    <3> QED
      BY <3>5, <3>6, FS_Bijection
  <2> QED
    BY <2>2, <2>3 DEF ids
<1> QED
  BY <1>1, Invariance, PTL

\* createPoolIfMissing never throws, and when it ends there is a pool of its two tokens,
\* promoted if it was to promote it, also if another client made the pool between its
\* look and its batch: its own createPool is refused then, and it finds the other's
\* pool when it reads again (tx.ts:816-868).
THEOREM MissingPoolsCreated == Spec => []MissingPoolCreated
<1>1. Inv => MissingPoolCreated
  <2> SUFFICES ASSUME Inv, NEW c \in Clients, script[c] = "poolIfMissing", outcome[c] # "running"
               PROVE  outcome[c] = "met"
    BY DEF MissingPoolCreated, Ended
  <2>1. Local(chain, "poolIfMissing", pc[c], outcome[c], loc[c])
    BY DEF Inv
  <2> QED
    BY <2>1 DEF Local
<1> QED
  BY <1>1, Invariance, PTL
=============================================================================
