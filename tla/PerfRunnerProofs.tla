-------------------------- MODULE PerfRunnerProofs --------------------------
(***************************************************************************)
(* Proofs about PerfRunner, for any number of threads and transactions,    *)
(* any window, and any number of callbacks that overlap.                   *)
(***************************************************************************)
EXTENDS PerfRunner, FiniteSetTheorems, TLAPS

Nonces(S) == {tx.nonce : tx \in S}

\* What a thread keeps of its transactions, and what the chain has queued.
Finite == \A t \in Threads : IsFiniteSet(myTxs[t]) /\ IsFiniteSet(queued[t])

\* What a callback has read of the queue has reached it.
Seen ==
  \A t \in Threads :
    /\ Nonces(queue[t]) \subseteq queued[t]
    /\ \A cb \in active[t] : Nonces(cb.queue) \subseteq queued[t]

\* What the queue shows, or a callback has read of it.
Among(q, cbs) == q \cup UNION {cb.queue : cb \in cbs}
Shown(t) == Among(queue[t], active[t])

\* What waits in the pool is in flight, under a nonce of its own that was never
\* queued; what the queue has shown has a nonce of its own too; and whatever is
\* made next is new.
OnChain ==
  \A t \in Threads :
    /\ pool[t] \subseteq myTxs[t]
    /\ \A x, y \in pool[t] : x.nonce = y.nonce => x = y
    /\ \A x \in pool[t] : x.nonce \notin queued[t]
    /\ \A x, y \in Shown(t) : x.nonce = y.nonce => x = y
    /\ \A x \in myTxs[t] \cup Shown(t) : x.id < sent[t]

\* Whoever is counted is not in flight any more, or not shown: a transaction
\* that was refused may be in flight under the nonce of another.
Done(t) == queued[t] \ Nonces(myTxs[t] \cap Shown(t))
Counted == \A t \in Threads : counter[t] <= Cardinality(Done(t))

\* Until a send of a thread is refused, a callback that signs has fixed its
\* nonces no later than the offset; if nobody has moved that since, the window
\* still has the room it has found.
RoomKept(t) ==
  /\ Cardinality(myTxs[t]) <= Load
  /\ \A cb \in active[t] : cb.phase = "signing" =>
       /\ cb.from <= offset[t]
       /\ cb.from = offset[t] => Cardinality(myTxs[t]) + cb.count <= Load
Windows == \A t \in Threads : ~ refused[t] => RoomKept(t)

\* Callbacks that do not overlap: nobody moves the offset of the one that signs.
OneAtATime ==
  steady => \A t \in Threads :
    /\ ~ refused[t]
    /\ \A cb, other \in active[t] : cb = other
    /\ \A cb \in active[t] : cb.phase = "signing" => cb.from = offset[t]

\* Nothing but a refusal ends the process.
RejectionsOnly == crashed => \E t \in Threads : refused[t]

PInv ==
  /\ TypeOK /\ Finite /\ Seen /\ OnChain /\ Counted
  /\ Windows /\ OneAtATime /\ RejectionsOnly /\ NoncesConsecutive

-----------------------------------------------------------------------------
\* The load is a natural number.
LEMMA LoadNat == Load \in Nat /\ Limit \in Nat /\ N \in Nat \ {0}
<1>1. N \in Nat \ {0}
  <2>1. Cardinality(Threads) \in Nat
    BY ParamsAssumption, FS_CardinalityType
  <2>2. Cardinality(Threads) # 0
    BY ParamsAssumption, FS_EmptySet
  <2> QED
    BY <2>1, <2>2 DEF N
<1>2. ASSUME NEW a \in Nat PROVE CeilDiv(a, N) \in Nat
  BY <1>1 DEF CeilDiv
<1>3. Limit \in Nat
  BY <1>2, ParamsAssumption DEF Limit
<1>4. CeilDiv(Pending, N) \in Nat
  BY <1>2, ParamsAssumption
<1> QED
  BY <1>1, <1>3, <1>4 DEF Load, Smaller

\* Nonces of more transactions are more, and those of a union are a union.
LEMMA NoncesOf ==
  ASSUME NEW S, NEW T
  PROVE  /\ Nonces(S \cup T) = Nonces(S) \cup Nonces(T)
         /\ S \subseteq T => Nonces(S) \subseteq Nonces(T)
         /\ Nonces({}) = {}
BY DEF Nonces

\* What is shown is in the queue or was read by a callback.
LEMMA AmongIs ==
  ASSUME NEW q, NEW cbs, NEW x
  PROVE  x \in Among(q, cbs) <=> x \in q \/ \E cb \in cbs : x \in cb.queue
BY DEF Among

\* A finite set of transactions has finitely many nonces.
LEMMA NoncesFinite ==
  ASSUME NEW S, IsFiniteSet(S)
  PROVE  IsFiniteSet(Nonces(S))
<1> DEFINE g == [tx \in S |-> tx.nonce]
<1>1. g \in Surjection(S, Nonces(S))
  BY DEF Surjection, Nonces
<1> QED
  BY <1>1, FS_Surjection

\* What a callback makes is as many transactions as it was asked for, at most.
Made(cb, n) == {Tx(cb.from + i, n + i) : i \in 0 .. (cb.count - 1)}
LEMMA MadeBounds ==
  ASSUME NEW cb \in Callbacks, NEW n \in Nat
  PROVE  /\ Made(cb, n) \subseteq Txs
         /\ IsFiniteSet(Made(cb, n)) /\ Cardinality(Made(cb, n)) <= cb.count
         /\ \A x, y \in Made(cb, n) : x.nonce = y.nonce => x = y
         /\ \A x \in Made(cb, n) : n <= x.id /\ x.id < n + cb.count
         /\ Nonces(Made(cb, n)) = cb.from .. (cb.from + cb.count - 1)
<1>1. cb.from \in Nat /\ cb.count \in Nat
  BY DEF Callbacks
<1> DEFINE M == Made(cb, n)
           g == [i \in 0 .. (cb.count - 1) |-> Tx(cb.from + i, n + i)]
<1>2. M \subseteq Txs
  BY <1>1 DEF Made, Tx, Txs
<1>3. g \in Surjection(0 .. (cb.count - 1), M)
  BY DEF Surjection, Made
<1>4. IsFiniteSet(0 .. (cb.count - 1)) /\ Cardinality(0 .. (cb.count - 1)) = cb.count
  BY <1>1, FS_Interval
<1>5. IsFiniteSet(M) /\ Cardinality(M) <= cb.count
  BY <1>3, <1>4, FS_Surjection
<1>6. \A x, y \in M : x.nonce = y.nonce => x = y
  <2> SUFFICES ASSUME NEW i \in 0 .. (cb.count - 1), NEW j \in 0 .. (cb.count - 1),
                      Tx(cb.from + i, n + i).nonce = Tx(cb.from + j, n + j).nonce
               PROVE  Tx(cb.from + i, n + i) = Tx(cb.from + j, n + j)
    BY DEF Made
  <2>1. cb.from + i = cb.from + j
    BY DEF Tx
  <2>2. i = j
    BY <1>1, <2>1
  <2> QED
    BY <2>2
<1>7. Nonces(M) = cb.from .. (cb.from + cb.count - 1)
  <2>1. ASSUME NEW m \in cb.from .. (cb.from + cb.count - 1) PROVE m \in Nonces(M)
    <3>1. m - cb.from \in 0 .. (cb.count - 1) /\ cb.from + (m - cb.from) = m
      BY <1>1
    <3>2. Tx(cb.from + (m - cb.from), n + (m - cb.from)) \in M
      BY <3>1 DEF Made
    <3>3. Tx(cb.from + (m - cb.from), n + (m - cb.from)).nonce = m
      BY <3>1 DEF Tx
    <3> QED
      BY <3>2, <3>3 DEF Nonces
  <2>2. ASSUME NEW m \in Nonces(M) PROVE m \in cb.from .. (cb.from + cb.count - 1)
    <3>1. PICK i \in 0 .. (cb.count - 1) : m = Tx(cb.from + i, n + i).nonce
      BY DEF Made, Nonces
    <3>2. m = cb.from + i
      BY <3>1 DEF Tx
    <3> QED
      BY <1>1, <3>2
  <2> QED
    BY <2>1, <2>2
<1>8. \A x \in M : n <= x.id /\ x.id < n + cb.count
  BY <1>1 DEF Made, Tx
<1> QED
  BY <1>2, <1>5, <1>6, <1>7, <1>8

-----------------------------------------------------------------------------
\* Nothing is in flight when the threads start.
LEMMA PInit == Init => PInv
<1> SUFFICES ASSUME Init PROVE PInv
  OBVIOUS
<1>1. TypeOK
  <2>1. Reading(0, {}) \in Callbacks
    BY DEF Reading, Callbacks
  <2>2. active \in [Threads -> SUBSET Callbacks]
    BY <2>1 DEF Init
  <2> QED
    BY <2>2 DEF Init, TypeOK
<1>2. Cardinality({}) = 0 /\ IsFiniteSet({})
  BY FS_EmptySet
<1>3. Finite
  BY <1>2 DEF Init, Finite
<1>4. Seen
  BY DEF Init, Seen, Nonces, Reading
<1>5. \A t \in Threads : Shown(t) = {} /\ Done(t) = {}
  BY DEF Init, Shown, Among, Reading, Done
<1>6. OnChain
  BY <1>5 DEF Init, OnChain
<1>7. Counted
  BY <1>2, <1>5 DEF Init, Counted
<1>8. ASSUME NEW t \in Threads
      PROVE  myTxs[t] = {} /\ active[t] = {Reading(0, {})} /\ ~ refused[t]
  BY DEF Init
<1>9. Reading(0, {}).phase = "reading"
  BY DEF Reading
<1>10. OneAtATime /\ Windows /\ RejectionsOnly
  <2>1. \A t \in Threads : Cardinality(myTxs[t]) <= Load
    BY <1>2, <1>8, LoadNat
  <2>2. ~ crashed
    BY DEF Init
  <2> QED
    BY <1>8, <1>9, <2>1, <2>2 DEF OneAtATime, Windows, RoomKept, RejectionsOnly
<1>11. NoncesConsecutive
  <2>1. \A t \in Threads :
          {tx.nonce : tx \in pool[t]} = {} /\ queued[t] = {} /\ offset[t] = 0 /\ sent[t] = 0
    BY DEF Init
  <2>2. 0 .. (0 - 1) = {}
    OBVIOUS
  <2> QED
    BY <2>1, <2>2 DEF NoncesConsecutive
<1> QED
  BY <1>1, <1>3, <1>4, <1>6, <1>7, <1>10, <1>11 DEF PInv

-----------------------------------------------------------------------------
\* A block: what enters the queue is in the pool, so it is in flight and its
\* nonces are nobody else's.
LEMMA NewBlockKeeps ==
  ASSUME PInv, NewBlock
  PROVE  PInv'
<1>1. ~crashed /\ ~crashed' /\ UNCHANGED <<steady, myTxs, counter, offset, sent, resolved, refused, crashed>>
  BY DEF NewBlock
<1>2. PICK k \in [Threads -> 0 .. BlockSize], stays \in SUBSET UNION {queue[t] : t \in Threads} :
        LET enters(t) == Ready(t, k[t])
            shown == [t \in Threads |-> (queue[t] \cap stays) \cup enters(t)]
        IN /\ pool' = [t \in Threads |-> pool[t] \ enters(t)]
           /\ queue' = shown
           /\ queued' = [t \in Threads |-> queued[t] \cup {tx.nonce : tx \in enters(t)}]
           /\ active' = [t \in Threads |->
                           IF resolved[t] THEN active[t]
                           ELSE active[t] \cup {Reading(height + 1, shown[t])}]
  BY DEF NewBlock
<1> DEFINE enters(t) == Ready(t, k[t])
           shown(t) == (queue[t] \cap stays) \cup enters(t)
<1>3. ASSUME NEW t \in Threads
      PROVE  /\ pool'[t] = pool[t] \ enters(t)
             /\ queue'[t] = shown(t)
             /\ queued'[t] = queued[t] \cup Nonces(enters(t))
             /\ active'[t] = IF resolved[t] THEN active[t]
                             ELSE active[t] \cup {Reading(height + 1, shown(t))}
  BY <1>2 DEF Nonces
<1>4. \A t \in Threads : enters(t) \subseteq pool[t]
  BY DEF Ready
<1>5. \A t \in Threads : pool[t] \subseteq Txs /\ queue[t] \subseteq Txs /\ queued[t] \subseteq Nat
  BY DEF PInv, TypeOK
<1>6. \A t \in Threads : Nonces(enters(t)) \subseteq Nat
  BY <1>4, <1>5 DEF Nonces, Txs
<1>7. TypeOK'
  <2>1. height \in Nat /\ height' = height + 1
    BY DEF PInv, TypeOK, NewBlock
  <2>2. pool' \in [Threads -> SUBSET Txs] /\ queue' \in [Threads -> SUBSET Txs]
    BY <1>2, <1>4, <1>5
  <2>3. queued' \in [Threads -> SUBSET Nat]
    BY <1>2, <1>5, <1>6 DEF Nonces
  <2>4. ASSUME NEW t \in Threads PROVE active'[t] \subseteq Callbacks
    <3>1. Reading(height + 1, shown(t)) \in Callbacks
      BY <1>4, <1>5, <2>1 DEF Reading, Callbacks
    <3> QED
      BY <1>3, <3>1 DEF PInv, TypeOK
  <2>5. active' \in [Threads -> SUBSET Callbacks]
    BY <1>2, <2>4
  <2> QED
    BY <1>1, <2>1, <2>2, <2>3, <2>5 DEF PInv, TypeOK
<1> HIDE DEF enters
<1>8. Finite'
  <2> SUFFICES ASSUME NEW t \in Threads PROVE IsFiniteSet(queued'[t])
    BY <1>1 DEF Finite, PInv
  <2>1. enters(t) \in SUBSET myTxs[t]
    BY <1>4 DEF PInv, OnChain
  <2>2. IsFiniteSet(enters(t))
    BY <2>1, FS_Subset DEF PInv, Finite
  <2>3. IsFiniteSet(queued[t]) /\ IsFiniteSet(Nonces(enters(t)))
    BY <2>2, NoncesFinite DEF PInv, Finite
  <2>4. IsFiniteSet(queued[t] \cup Nonces(enters(t)))
    BY <2>3, FS_Union
  <2> QED
    BY <1>3, <2>4
<1>9. Seen'
  <2> SUFFICES ASSUME NEW t \in Threads
               PROVE  /\ Nonces(queue'[t]) \subseteq queued'[t]
                      /\ \A cb \in active'[t] : Nonces(cb.queue) \subseteq queued'[t]
    BY DEF Seen, Nonces
  <2>1. Nonces(queue[t]) \subseteq queued[t] /\ \A cb \in active[t] : Nonces(cb.queue) \subseteq queued[t]
    BY DEF PInv, Seen
  <2>2. Nonces(shown(t)) \subseteq queued'[t]
    <3>1. Nonces(shown(t)) = Nonces(queue[t] \cap stays) \cup Nonces(enters(t))
      BY NoncesOf
    <3>2. Nonces(queue[t] \cap stays) \subseteq Nonces(queue[t])
      BY DEF Nonces
    <3> HIDE DEF shown
    <3> QED
      BY <1>3, <2>1, <3>1, <3>2
  <2>3. Reading(height + 1, shown(t)).queue = shown(t)
    BY DEF Reading
  <2>4. queued[t] \subseteq queued'[t]
    BY <1>3
  <2> HIDE DEF shown
  <2> QED
    BY <1>3, <2>1, <2>2, <2>3, <2>4
<1>10. ASSUME NEW t \in Threads, NEW x
       PROVE  x \in Shown(t)' => x \in Shown(t) \/ x \in enters(t)
  <2>1. Reading(height + 1, shown(t)).queue = shown(t)
    BY DEF Reading
  <2>2. x \in shown(t) => x \in queue[t] \/ x \in enters(t)
    OBVIOUS
  <2>3. Shown(t)' = Among(queue'[t], active'[t])
    BY DEF Shown
  <2> HIDE DEF shown
  <2>4. x \in queue'[t] \/ (\E cb \in active'[t] : x \in cb.queue) =>
          x \in queue[t] \/ x \in enters(t) \/ \E cb \in active[t] : x \in cb.queue
    BY <1>3, <2>1, <2>2
  <2> QED
    BY <2>3, <2>4, AmongIs DEF Shown
<1>11. ASSUME NEW t \in Threads
       PROVE  /\ enters(t) \subseteq pool[t] /\ pool[t] \subseteq myTxs[t]
              /\ \A x, y \in pool[t] : x.nonce = y.nonce => x = y
              /\ \A x \in pool[t] : x.nonce \notin queued[t]
              /\ \A x, y \in Shown(t) : x.nonce = y.nonce => x = y
              /\ \A x \in myTxs[t] \cup Shown(t) : x.id < sent[t]
              /\ \A x \in Shown(t) : x.nonce \in queued[t]
  <2>1. \A x \in Shown(t) : x.nonce \in queued[t]
    BY AmongIs DEF PInv, Seen, Shown, Nonces
  <2> QED
    BY <1>4, <2>1 DEF PInv, OnChain
<1>12. OnChain'
  <2> SUFFICES ASSUME NEW t \in Threads
               PROVE  /\ pool'[t] \subseteq myTxs[t]
                      /\ \A x, y \in pool'[t] : x.nonce = y.nonce => x = y
                      /\ \A x \in pool'[t] : x.nonce \notin queued'[t]
                      /\ \A x, y \in Shown(t)' : x.nonce = y.nonce => x = y
                      /\ \A x \in myTxs[t] \cup Shown(t)' : x.id < sent[t]
    BY <1>1 DEF OnChain
  <2> HIDE DEF shown
  <2>1. ASSUME NEW x \in pool'[t] PROVE x.nonce \notin queued'[t]
    <3>1. x \in pool[t] /\ x \notin enters(t)
      BY <1>3
    <3>2. x.nonce \notin queued[t] /\ \A y \in enters(t) : y.nonce # x.nonce
      BY <1>11, <3>1
    <3>3. x.nonce \notin Nonces(enters(t))
      BY <3>2 DEF Nonces
    <3>4. queued'[t] = queued[t] \cup Nonces(enters(t))
      BY <1>3
    <3> QED
      BY <3>2, <3>3, <3>4
  <2>2. ASSUME NEW x \in Shown(t)', NEW y \in Shown(t)', x.nonce = y.nonce PROVE x = y
    BY <1>10, <1>11, <2>2
  <2>3. \A x \in myTxs[t] \cup Shown(t)' : x.id < sent[t]
    BY <1>10, <1>11
  <2>4. pool'[t] \subseteq pool[t]
    BY <1>3
  <2> QED
    BY <1>11, <2>1, <2>2, <2>3, <2>4
<1>13. Counted'
  <2> SUFFICES ASSUME NEW t \in Threads PROVE counter[t] <= Cardinality(Done(t)')
    BY <1>1 DEF Counted
  <2>1. Done(t) \subseteq Done(t)'
    <3> SUFFICES ASSUME NEW n \in queued[t], n \notin Nonces(myTxs[t] \cap Shown(t)),
                        NEW x \in myTxs[t] \cap Shown(t)', x.nonce = n
                 PROVE  FALSE
      BY <1>1, <1>3 DEF Done, Nonces
    <3>1. x \in Shown(t) \/ x \in enters(t)
      BY <1>10
    <3> QED
      BY <1>11, <3>1 DEF Nonces
  <2>2. IsFiniteSet(Done(t)')
    BY <1>8, FS_Subset DEF Finite, Done
  <2>3. IsFiniteSet(Done(t)) /\ Cardinality(Done(t)) <= Cardinality(Done(t)')
    BY <2>1, <2>2, FS_Subset
  <2>4. Cardinality(Done(t)) \in Nat /\ Cardinality(Done(t)') \in Nat /\ counter[t] \in Nat
    BY <2>2, <2>3, FS_CardinalityType DEF PInv, TypeOK
  <2>5. counter[t] <= Cardinality(Done(t))
    BY DEF PInv, Counted
  <2> QED
    BY <2>3, <2>4, <2>5
<1>14. Windows' /\ RejectionsOnly'
  <2> SUFFICES ASSUME NEW t \in Threads, ~ refused[t]
               PROVE  RoomKept(t)'
    BY <1>1 DEF Windows, RejectionsOnly
  <2>1. RoomKept(t)
    BY DEF PInv, Windows
  <2>2. \A cb \in active'[t] : cb \in active[t] \/ cb.phase = "reading"
    <3>1. Reading(height + 1, shown(t)).phase = "reading"
      BY DEF Reading
    <3> HIDE DEF shown
    <3> QED
      BY <1>3, <3>1
  <2> QED
    BY <1>1, <2>1, <2>2 DEF RoomKept
<1>15. OneAtATime'
  <2> SUFFICES ASSUME steady, NEW t \in Threads
               PROVE  /\ ~ refused[t]
                      /\ \A cb, other \in active'[t] : cb = other
                      /\ \A cb \in active'[t] : cb.phase = "signing" => cb.from = offset[t]
    BY <1>1 DEF OneAtATime
  <2>1. /\ ~ refused[t]
        /\ \A cb, other \in active[t] : cb = other
        /\ \A cb \in active[t] : cb.phase = "signing" => cb.from = offset[t]
    BY DEF PInv, OneAtATime
  <2>2. CASE resolved[t]
    BY <1>3, <2>1, <2>2
  <2>3. CASE ~resolved[t]
    <3>1. Cardinality(active[t]) < 1
      BY <2>3 DEF NewBlock
    <3>2. active[t] = {}
      <4> SUFFICES ASSUME NEW cb \in active[t] PROVE FALSE
        OBVIOUS
      <4>1. active[t] = {cb}
        BY <2>1
      <4>2. Cardinality({cb}) = 1
        BY FS_Singleton
      <4> QED
        BY <3>1, <4>1, <4>2
    <3>3. active'[t] = {Reading(height + 1, shown(t))}
      BY <1>3, <2>3, <3>2
    <3> HIDE DEF shown
    <3> QED
      BY <2>1, <3>3 DEF Reading
  <2> QED
    BY <2>2, <2>3
<1>16. NoncesConsecutive'
  <2> SUFFICES ASSUME NEW t \in Threads, ~ refused[t]
               PROVE  /\ Nonces(pool'[t]) \cup queued'[t] = 0 .. (offset[t] - 1)
                      /\ Nonces(pool'[t]) \cap queued'[t] = {}
                      /\ offset[t] = sent[t]
    BY <1>1 DEF NoncesConsecutive, Nonces
  <2>1. Nonces(pool[t]) \cup queued[t] = 0 .. (offset[t] - 1) /\ offset[t] = sent[t]
    BY DEF PInv, NoncesConsecutive, Nonces
  <2>2. Nonces(pool'[t]) \cup queued'[t] = Nonces(pool[t]) \cup queued[t]
    <3>1. pool[t] = pool'[t] \cup enters(t)
      BY <1>3, <1>4
    <3>2. Nonces(pool[t]) = Nonces(pool'[t]) \cup Nonces(enters(t))
      BY <3>1, NoncesOf
    <3> QED
      BY <1>3, <3>2
  <2>3. Nonces(pool'[t]) \cap queued'[t] = {}
    BY <1>12 DEF OnChain, Nonces
  <2> QED
    BY <2>1, <2>2, <2>3
<1> QED
  BY <1>7, <1>8, <1>9, <1>12, <1>13, <1>14, <1>15, <1>16 DEF PInv

-----------------------------------------------------------------------------
\* A callback that has read the queue counts what is in flight: its nonces were
\* queued, and were nobody's that is counted already.
LEMMA ScanKeeps ==
  ASSUME PInv, NEW t \in Threads, NEW cb \in active[t], Scan(t, cb)
  PROVE  PInv'
<1> DEFINE rest == active[t] \ {cb}
           found == myTxs[t] \cap cb.queue
           left == myTxs[t] \ found
           new == [cb EXCEPT !.phase = "signing", !.queue = {}, !.from = offset[t],
                             !.count = Load - Cardinality(left)]
<1>1. /\ ~crashed /\ cb.phase = "reading"
      /\ UNCHANGED <<steady, height, pool, queue, queued, offset, sent, refused>>
  BY DEF Scan, chain
<1>2. /\ counter' = [counter EXCEPT ![t] = @ + Cardinality(found)]
      /\ myTxs' = [myTxs EXCEPT ![t] = left]
  BY DEF Scan, Count
<1>3. /\ pool[t] \subseteq Txs /\ myTxs \in [Threads -> SUBSET Txs] /\ queued[t] \subseteq Nat
      /\ counter \in [Threads -> Nat] /\ offset[t] \in Nat /\ active \in [Threads -> SUBSET Callbacks]
  BY DEF PInv, TypeOK
<1>4. myTxs'[t] = left /\ counter'[t] = counter[t] + Cardinality(found)
  BY <1>2, <1>3
<1>5. IsFiniteSet(myTxs[t]) /\ IsFiniteSet(queued[t])
  BY DEF PInv, Finite
<1>6. IsFiniteSet(left) /\ Cardinality(left) <= Cardinality(myTxs[t]) /\ IsFiniteSet(found)
  BY <1>5, FS_Subset
<1>7. Cardinality(left) \in Nat /\ Cardinality(found) \in Nat /\ Cardinality(myTxs[t]) \in Nat
  BY <1>5, <1>6, FS_CardinalityType
<1> HIDE DEF found, left
<1>8. \/ active' = [active EXCEPT ![t] = rest] /\ (crashed' => Cardinality(left) > Load)
      \/ /\ active' = [active EXCEPT ![t] = rest \cup {new}]
         /\ ~crashed' /\ Cardinality(left) <= Load
  <2>1. CASE Over(cb, counter'[t])
    BY <1>1, <2>1 DEF Scan
  <2>2. CASE ~Over(cb, counter'[t]) /\ Cardinality(left) > Load
    BY <1>4, <2>2 DEF Scan
  <2>3. CASE ~Over(cb, counter'[t]) /\ ~(Cardinality(left) > Load)
    BY <1>1, <1>4, <1>7, <2>3, LoadNat DEF Scan, Room
  <2> QED
    BY <2>1, <2>2, <2>3
<1>9. cb \in Callbacks
  BY <1>3
<1>10. Cardinality(left) <= Load => new \in Callbacks
  <2> SUFFICES ASSUME Cardinality(left) <= Load PROVE new \in Callbacks
    OBVIOUS
  <2>1. Load - Cardinality(left) \in Nat
    BY <1>7, LoadNat
  <2>2. [cb EXCEPT !.phase = "signing"] \in Callbacks
    BY <1>9 DEF Callbacks
  <2>3. [[cb EXCEPT !.phase = "signing"] EXCEPT !.queue = {}] \in Callbacks
    BY <2>2 DEF Callbacks
  <2>4. [[[cb EXCEPT !.phase = "signing"] EXCEPT !.queue = {}] EXCEPT !.from = offset[t]] \in Callbacks
    BY <1>3, <2>3 DEF Callbacks
  <2>5. [[[[cb EXCEPT !.phase = "signing"] EXCEPT !.queue = {}] EXCEPT !.from = offset[t]]
           EXCEPT !.count = Load - Cardinality(left)] \in Callbacks
    BY <2>1, <2>4 DEF Callbacks
  <2> QED
    BY <2>5
<1>11. crashed' \in BOOLEAN /\ resolved' \in [Threads -> BOOLEAN]
  BY DEF Scan, PInv, TypeOK
<1>12. TypeOK'
  <2>1. myTxs' \in [Threads -> SUBSET Txs]
    BY <1>2, <1>3 DEF left
  <2>2. counter' \in [Threads -> Nat]
    BY <1>2, <1>3, <1>7
  <2>3. active' \in [Threads -> SUBSET Callbacks]
    BY <1>3, <1>8, <1>10
  <2> QED
    BY <1>1, <1>11, <2>1, <2>2, <2>3 DEF PInv, TypeOK
<1>13. Finite'
  BY <1>1, <1>2, <1>3, <1>6 DEF PInv, Finite
<1>14. Seen'
  <2> SUFFICES ASSUME NEW u \in Threads, NEW c \in active'[u]
               PROVE  Nonces(c.queue) \subseteq queued[u]
    BY <1>1 DEF PInv, Seen, Nonces
  <2>1. c \in active[u] \/ c = new
    BY <1>3, <1>8
  <2>2. CASE c \in active[u]
    BY <2>2 DEF PInv, Seen
  <2>3. CASE c = new
    <3>1. new.queue = {}
      BY <1>9 DEF Callbacks
    <3> QED
      BY <2>3, <3>1, NoncesOf
  <2> QED
    BY <2>1, <2>2, <2>3
<1>15. Nonces(found) \subseteq queued[t]
  <2>1. Nonces(cb.queue) \subseteq queued[t]
    BY DEF PInv, Seen
  <2> QED
    BY <2>1 DEF found, Nonces
<1>16. ASSUME NEW u \in Threads, NEW x \in Shown(u)' PROVE x \in Shown(u)
  <2>1. ASSUME NEW c \in active'[u], x \in c.queue PROVE c \in active[u]
    <3>1. c \in active[u] \/ c = new
      BY <1>3, <1>8
    <3>2. Cardinality(left) <= Load => new.queue = {}
      BY <1>9 DEF Callbacks
    <3>3. c \in active[u] \/ (c = new /\ Cardinality(left) <= Load)
      BY <1>3, <1>8
    <3> QED
      BY <2>1, <3>2, <3>3
  <2>2. x \in queue[u] \/ \E c \in active'[u] : x \in c.queue
    BY <1>1, AmongIs DEF Shown
  <2> QED
    BY <2>1, <2>2, AmongIs DEF Shown
<1>17. ASSUME NEW u \in Threads PROVE myTxs'[u] \subseteq myTxs[u]
  BY <1>2, <1>3 DEF left
<1>18. ASSUME NEW x \in found PROVE x \in Shown(t) /\ x.nonce \in queued[t] /\ x \notin pool[t]
  <2>1. x \in Shown(t)
    BY AmongIs DEF found, Shown
  <2>2. x.nonce \in queued[t]
    BY <1>15 DEF Nonces
  <2> QED
    BY <2>1, <2>2 DEF PInv, OnChain
<1>19. OnChain'
  <2> SUFFICES ASSUME NEW u \in Threads PROVE pool[u] \subseteq myTxs'[u]
    BY <1>1, <1>16, <1>17 DEF PInv, OnChain
  <2>1. CASE u # t
    BY <1>2, <1>3, <2>1 DEF PInv, OnChain
  <2>2. CASE u = t
    BY <1>4, <1>18, <2>2 DEF PInv, OnChain, left
  <2> QED
    BY <2>1, <2>2
<1>20. Counted'
  <2> SUFFICES ASSUME NEW u \in Threads PROVE counter'[u] <= Cardinality(Done(u)')
    BY DEF Counted
  <2> DEFINE D == Done(u)
             E == Done(u)'
  <2>1. D \subseteq E
    BY <1>1, <1>16, <1>17 DEF Done, Nonces
  <2>2. IsFiniteSet(E) /\ IsFiniteSet(E \ D) /\ IsFiniteSet(D)
    <3>1. E \in SUBSET queued[u]
      BY <1>1 DEF Done
    <3> QED
      BY <2>1, <3>1, FS_Subset DEF PInv, Finite
  <2>3. Cardinality(D) <= Cardinality(E) /\ Cardinality(E \ D) = Cardinality(E) - Cardinality(D)
    <3>1. E \cap D = D
      BY <2>1
    <3> HIDE DEF D, E
    <3> QED
      BY <2>1, <2>2, <3>1, FS_Difference, FS_Subset
  <2>4. Cardinality(E) \in Nat /\ Cardinality(D) \in Nat /\ Cardinality(E \ D) \in Nat
    BY <2>2, FS_CardinalityType
  <2>5. counter[u] <= Cardinality(D) /\ counter[u] \in Nat
    BY <1>3 DEF PInv, Counted
  <2>6. CASE u # t
    <3>1. counter'[u] = counter[u]
      BY <1>2, <1>3, <2>6
    <3> HIDE DEF D
    <3> QED
      BY <2>3, <2>4, <2>5, <3>1 DEF E
  <2>7. CASE u = t
    <3> DEFINE g == [x \in found |-> x.nonce]
    <3>1. \A x, y \in found : x.nonce = y.nonce => x = y
      BY <1>18 DEF PInv, OnChain
    <3>2. ASSUME NEW x \in found PROVE x.nonce \in E \ D
      <4>1. x \in myTxs[t] /\ x \in Shown(t) /\ x.nonce \in queued[t] /\ x \notin left
        BY <1>18 DEF found, left
      <4>2. ASSUME NEW y \in myTxs'[t], y \in Shown(t)', y.nonce = x.nonce PROVE FALSE
        <5>1. y \in Shown(t) /\ y \in left
          BY <1>4, <1>16, <4>2
        <5>2. y = x
          BY <4>1, <4>2, <5>1 DEF PInv, OnChain
        <5> QED
          BY <4>1, <5>1, <5>2
      <4>3. x.nonce \notin Nonces(myTxs'[t] \cap Shown(t)')
        BY <4>2 DEF Nonces
      <4>4. x.nonce \in Nonces(myTxs[t] \cap Shown(t))
        BY <4>1 DEF Nonces
      <4> QED
        BY <1>1, <2>7, <4>1, <4>3, <4>4 DEF Done
    <3> HIDE DEF D, E
    <3>3. g \in Injection(found, E \ D)
      BY <3>1, <3>2 DEF Injection, IsInjective
    <3>4. Cardinality(found) <= Cardinality(E \ D)
      BY <2>2, <3>3, FS_Injection
    <3>5. counter'[u] <= Cardinality(E)
      BY <1>4, <1>7, <2>3, <2>4, <2>5, <2>7, <3>4
    <3> QED
      BY <3>5 DEF E
  <2> QED
    BY <2>6, <2>7
<1>21. ASSUME ~ refused[t] PROVE Cardinality(left) <= Load
  <2>1. Cardinality(myTxs[t]) <= Load
    BY <1>21 DEF PInv, Windows, RoomKept
  <2> QED
    BY <1>6, <1>7, <2>1, LoadNat
<1>22. new.phase = "signing" /\ new.from = offset[t] /\ new.count = Load - Cardinality(left)
  BY <1>9 DEF Callbacks
<1> HIDE DEF new
<1>23. Windows'
  <2> SUFFICES ASSUME NEW u \in Threads, ~ refused[u] PROVE RoomKept(u)'
    BY <1>1 DEF Windows
  <2>1. RoomKept(u)
    BY DEF PInv, Windows
  <2>2. CASE u # t
    <3>1. active'[u] = active[u] /\ myTxs'[u] = myTxs[u]
      BY <1>2, <1>3, <1>8, <2>2
    <3> QED
      BY <1>1, <2>1, <3>1 DEF RoomKept
  <2>3. CASE u = t
    <3>1. Cardinality(left) <= Load
      BY <1>21, <2>3
    <3>2. ASSUME NEW c \in active'[t], c.phase = "signing"
          PROVE  c.from <= offset[t] /\ (c.from = offset[t] => Cardinality(left) + c.count <= Load)
      <4>1. c \in active[t] \/ c = new
        BY <1>3, <1>8
      <4>2. CASE c = new
        BY <1>3, <1>7, <1>22, <4>2, LoadNat
      <4>3. CASE c \in active[t]
        <5>1. c.from <= offset[t] /\ (c.from = offset[t] => Cardinality(myTxs[t]) + c.count <= Load)
          BY <2>1, <2>3, <3>2, <4>3 DEF RoomKept
        <5>2. c.count \in Nat
          BY <1>3, <4>3 DEF Callbacks
        <5> QED
          BY <1>6, <1>7, <5>1, <5>2, LoadNat
      <4> QED
        BY <4>1, <4>2, <4>3
    <3> QED
      BY <1>1, <1>4, <2>3, <3>1, <3>2 DEF RoomKept
  <2> QED
    BY <2>2, <2>3
<1>24. OneAtATime'
  <2> SUFFICES ASSUME steady, NEW u \in Threads
               PROVE  /\ ~ refused[u]
                      /\ \A c, other \in active'[u] : c = other
                      /\ \A c \in active'[u] : c.phase = "signing" => c.from = offset[u]
    BY <1>1 DEF OneAtATime
  <2>1. ~ refused[u] /\ rest = {}
    BY DEF PInv, OneAtATime
  <2>2. active'[t] \subseteq {new}
    BY <1>3, <1>8, <2>1
  <2> HIDE DEF rest
  <2>3. CASE u = t
    BY <1>22, <2>1, <2>2, <2>3
  <2>4. CASE u # t
    <3>1. active'[u] = active[u]
      BY <1>3, <1>8, <2>4
    <3> QED
      BY <2>1, <3>1 DEF PInv, OneAtATime
  <2> QED
    BY <2>3, <2>4
<1>25. RejectionsOnly'
  <2>1. crashed' => refused[t]
    BY <1>7, <1>8, <1>21, LoadNat
  <2> QED
    BY <1>1, <2>1 DEF RejectionsOnly
<1>26. NoncesConsecutive'
  BY <1>1 DEF PInv, NoncesConsecutive
<1> QED
  BY <1>12, <1>13, <1>14, <1>19, <1>20, <1>23, <1>24, <1>25, <1>26 DEF PInv

-----------------------------------------------------------------------------
\* The transactions of a callback are sent: if none of their nonces is in use
\* they are new to the window; else the send is refused.
LEMMA SendKeeps ==
  ASSUME PInv, NEW t \in Threads, NEW cb \in active[t], Send(t, cb)
  PROVE  PInv'
<1> DEFINE made == Made(cb, sent[t])
           InUse(n) == n \in queued[t] \/ \E tx \in pool[t] : tx.nonce = n
           accepted == {tx \in made : ~InUse(tx.nonce)}
<1>1. /\ ~crashed /\ cb.phase = "signing"
      /\ UNCHANGED <<steady, height, queue, queued, counter, resolved, crashed>>
      /\ active' = [active EXCEPT ![t] = @ \ {cb}]
      /\ offset' = [offset EXCEPT ![t] = @ + cb.count]
      /\ sent' = [sent EXCEPT ![t] = @ + cb.count]
  BY DEF Send, Submit
<1>2. /\ myTxs' = [myTxs EXCEPT ![t] = @ \cup made]
      /\ pool' = [pool EXCEPT ![t] = @ \cup accepted]
      /\ refused' = [refused EXCEPT ![t] = @ \/ \E tx \in made : InUse(tx.nonce)]
  BY DEF Send, Submit, Made
<1>3. /\ pool \in [Threads -> SUBSET Txs] /\ myTxs \in [Threads -> SUBSET Txs]
      /\ queued \in [Threads -> SUBSET Nat] /\ offset \in [Threads -> Nat]
      /\ sent \in [Threads -> Nat] /\ counter \in [Threads -> Nat]
      /\ active \in [Threads -> SUBSET Callbacks] /\ refused \in [Threads -> BOOLEAN]
  BY DEF PInv, TypeOK
<1>4. cb \in Callbacks /\ sent[t] \in Nat
  BY <1>3
<1>5. cb.from \in Nat /\ cb.count \in Nat
  BY <1>4 DEF Callbacks
<1>6. /\ made \subseteq Txs /\ IsFiniteSet(made) /\ Cardinality(made) <= cb.count
      /\ \A x, y \in made : x.nonce = y.nonce => x = y
      /\ \A x \in made : sent[t] <= x.id /\ x.id < sent[t] + cb.count
      /\ Nonces(made) = cb.from .. (cb.from + cb.count - 1)
  BY <1>4, MadeBounds
<1>7. /\ myTxs'[t] = myTxs[t] \cup made /\ pool'[t] = pool[t] \cup accepted
      /\ active'[t] = active[t] \ {cb} /\ offset'[t] = offset[t] + cb.count
      /\ sent'[t] = sent[t] + cb.count
      /\ (refused'[t] <=> refused[t] \/ \E tx \in made : InUse(tx.nonce))
  BY <1>1, <1>2, <1>3
<1>8. ASSUME NEW u \in Threads, u # t
      PROVE  /\ myTxs'[u] = myTxs[u] /\ pool'[u] = pool[u] /\ active'[u] = active[u]
             /\ offset'[u] = offset[u] /\ sent'[u] = sent[u] /\ refused'[u] = refused[u]
  BY <1>1, <1>2, <1>3, <1>8
<1> HIDE DEF made
<1>9. TypeOK'
  <2>1. accepted \subseteq Txs
    BY <1>6
  <2> HIDE DEF accepted
  <2>2. pool' \in [Threads -> SUBSET Txs] /\ myTxs' \in [Threads -> SUBSET Txs]
    BY <1>2, <1>3, <1>6, <2>1
  <2>3. offset' \in [Threads -> Nat] /\ sent' \in [Threads -> Nat]
    BY <1>1, <1>3, <1>5
  <2>4. active' \in [Threads -> SUBSET Callbacks]
    BY <1>1, <1>3
  <2>5. refused' \in [Threads -> BOOLEAN]
    BY <1>2, <1>3
  <2> QED
    BY <1>1, <2>2, <2>3, <2>4, <2>5 DEF PInv, TypeOK
<1>10. Finite'
  <2>1. IsFiniteSet(myTxs[t] \cup made)
    BY <1>6, FS_Union DEF PInv, Finite
  <2> QED
    BY <1>1, <1>7, <1>8, <2>1 DEF PInv, Finite
<1>11. Seen'
  <2>1. \A u \in Threads : active'[u] \subseteq active[u]
    BY <1>7, <1>8
  <2> QED
    BY <1>1, <2>1 DEF PInv, Seen, Nonces
<1>12. ~ refused'[t] => ~ refused[t] /\ accepted = made /\ \A tx \in made : ~InUse(tx.nonce)
  BY <1>7
<1>13. ASSUME NEW u \in Threads, NEW x \in Shown(u)' PROVE x \in Shown(u)
  <2>1. active'[u] \subseteq active[u]
    BY <1>7, <1>8
  <2> QED
    BY <1>1, <2>1, AmongIs DEF Shown
<1>14. /\ pool[t] \subseteq myTxs[t]
       /\ \A x, y \in pool[t] : x.nonce = y.nonce => x = y
       /\ \A x \in pool[t] : x.nonce \notin queued[t]
       /\ \A x, y \in Shown(t) : x.nonce = y.nonce => x = y
       /\ \A x \in myTxs[t] \cup Shown(t) : x.id < sent[t]
  BY DEF PInv, OnChain
<1>15. ASSUME NEW x \in Shown(t) PROVE x.id \in Nat
  <2>1. x \in Txs
    BY <1>3, AmongIs DEF PInv, TypeOK, Shown, Callbacks
  <2> QED
    BY <2>1 DEF Txs
<1>16. ASSUME NEW x \in Shown(t) PROVE x \notin made
  BY <1>4, <1>6, <1>14, <1>15
<1>17. OnChain'
  <2> SUFFICES ASSUME NEW u \in Threads
               PROVE  /\ pool'[u] \subseteq myTxs'[u]
                      /\ \A x, y \in pool'[u] : x.nonce = y.nonce => x = y
                      /\ \A x \in pool'[u] : x.nonce \notin queued[u]
                      /\ \A x, y \in Shown(u)' : x.nonce = y.nonce => x = y
                      /\ \A x \in myTxs'[u] \cup Shown(u)' : x.id < sent'[u]
    BY <1>1 DEF OnChain
  <2>1. CASE u # t
    BY <1>8, <1>13, <2>1 DEF PInv, OnChain
  <2>2. CASE u = t
    <3>1. /\ accepted \subseteq made
          /\ \A x \in accepted : x.nonce \notin queued[t] /\ \A y \in pool[t] : x.nonce # y.nonce
      OBVIOUS
    <3> HIDE DEF accepted
    <3>2. /\ \A x, y \in pool'[t] : x.nonce = y.nonce => x = y
          /\ \A x \in pool'[t] : x.nonce \notin queued[t]
      BY <1>6, <1>7, <1>14, <3>1
    <3>3. \A x \in myTxs[t] \cup Shown(t) : x.id < sent'[t]
      <4> SUFFICES ASSUME NEW x \in myTxs[t] \cup Shown(t) PROVE x.id < sent'[t]
        OBVIOUS
      <4>1. x.id \in Nat
        <5>1. x \in myTxs[t] => x \in Txs
          BY <1>3
        <5> QED
          BY <1>15, <5>1 DEF Txs
      <4> QED
        BY <1>4, <1>5, <1>7, <1>14, <4>1
    <3>4. \A x \in made : x.id < sent'[t]
      BY <1>6, <1>7
    <3>5. pool'[t] \subseteq myTxs'[t]
      BY <1>7, <1>14, <3>1
    <3>6. \A x, y \in Shown(t)' : x.nonce = y.nonce => x = y
      BY <1>13, <1>14
    <3>7. \A x \in myTxs'[t] \cup Shown(t)' : x.id < sent'[t]
      BY <1>7, <1>13, <3>3, <3>4
    <3> QED
      BY <2>2, <3>2, <3>5, <3>6, <3>7
  <2> QED
    BY <2>1, <2>2
<1>18. Counted'
  <2> SUFFICES ASSUME NEW u \in Threads PROVE counter[u] <= Cardinality(Done(u)')
    BY <1>1 DEF Counted
  <2>1. Done(u) \subseteq Done(u)'
    <3>1. myTxs'[u] \cap Shown(u)' \subseteq myTxs[u] \cap Shown(u)
      BY <1>7, <1>8, <1>13, <1>16
    <3> QED
      BY <1>1, <3>1 DEF Done, Nonces
  <2>2. IsFiniteSet(Done(u)')
    <3>1. Done(u)' \in SUBSET queued[u]
      BY <1>1 DEF Done
    <3> QED
      BY <3>1, FS_Subset DEF PInv, Finite
  <2>3. IsFiniteSet(Done(u)) /\ Cardinality(Done(u)) <= Cardinality(Done(u)')
    BY <2>1, <2>2, FS_Subset
  <2>4. Cardinality(Done(u)) \in Nat /\ Cardinality(Done(u)') \in Nat /\ counter[u] \in Nat
    BY <1>3, <2>2, <2>3, FS_CardinalityType
  <2>5. counter[u] <= Cardinality(Done(u))
    BY DEF PInv, Counted
  <2> QED
    BY <2>3, <2>4, <2>5
<1>19. ASSUME ~ refused[t]
       PROVE  /\ Nonces(pool[t]) \cup queued[t] = 0 .. (offset[t] - 1)
              /\ Nonces(pool[t]) \cap queued[t] = {}
              /\ offset[t] = sent[t]
              /\ cb.from <= offset[t]
              /\ cb.from = offset[t] => Cardinality(myTxs[t]) + cb.count <= Load
              /\ Cardinality(myTxs[t]) <= Load
  BY <1>1, <1>19 DEF PInv, NoncesConsecutive, Windows, RoomKept, Nonces
<1>20. ASSUME ~ refused'[t]
       PROVE  (cb.count = 0 /\ made = {}) \/ cb.from = offset[t]
  <2>1. CASE cb.count = 0
    <3>1. Cardinality(made) = 0
      BY <1>6, <2>1, FS_CardinalityType
    <3> QED
      BY <1>6, <2>1, <3>1, FS_EmptySet
  <2>2. CASE cb.count # 0
    <3>1. cb.from \in Nonces(made)
      BY <1>5, <1>6, <2>2
    <3>2. cb.from \notin Nonces(pool[t]) \cup queued[t]
      BY <1>12, <1>20, <3>1 DEF Nonces
    <3>3. offset[t] \in Nat
      BY <1>3
    <3> QED
      BY <1>5, <1>12, <1>19, <1>20, <3>2, <3>3
  <2> QED
    BY <2>1, <2>2
<1>21. Windows'
  <2> SUFFICES ASSUME NEW u \in Threads, ~ refused'[u] PROVE RoomKept(u)'
    BY DEF Windows
  <2>1. CASE u # t
    BY <1>8, <2>1 DEF PInv, Windows, RoomKept
  <2>2. CASE u = t
    <3>1. RoomKept(t)
      BY <1>12, <2>2 DEF PInv, Windows
    <3>2. Cardinality(myTxs[t] \cup made) = Cardinality(myTxs[t]) + Cardinality(made) - Cardinality(myTxs[t] \cap made)
      BY <1>6, FS_Union DEF PInv, Finite
    <3>3. IsFiniteSet(myTxs[t]) /\ IsFiniteSet(myTxs[t] \cap made) /\ IsFiniteSet(myTxs[t] \cup made)
      BY <1>6, FS_Union, FS_Intersection DEF PInv, Finite
    <3>4. /\ Cardinality(myTxs[t]) \in Nat /\ Cardinality(myTxs[t] \cap made) \in Nat
          /\ Cardinality(made) \in Nat /\ Cardinality(myTxs[t] \cup made) \in Nat
      BY <1>6, <3>3, FS_CardinalityType
    <3>5. CASE cb.count = 0 /\ made = {}
      <4>1. myTxs'[t] = myTxs[t] /\ offset'[t] = offset[t] /\ active'[t] \subseteq active[t]
        BY <1>3, <1>7, <3>5
      <4> QED
        BY <2>2, <3>1, <4>1 DEF RoomKept
    <3>6. CASE cb.from = offset[t] /\ ~ (cb.count = 0)
      <4>1. Cardinality(myTxs[t] \cup made) <= Load
        BY <1>5, <1>6, <1>12, <1>19, <2>2, <3>2, <3>4, <3>6, LoadNat
      <4>2. ASSUME NEW c \in active'[t], c.phase = "signing"
            PROVE  c.from <= offset'[t] /\ c.from # offset'[t]
        <5>1. c \in active[t] /\ c.from \in Nat
          BY <1>3, <1>7 DEF Callbacks
        <5>2. c.from <= offset[t]
          BY <3>1, <4>2, <5>1 DEF RoomKept
        <5>3. offset[t] \in Nat /\ offset'[t] = offset[t] + cb.count
          BY <1>3, <1>7
        <5> QED
          BY <1>5, <3>6, <5>1, <5>2, <5>3
      <4> QED
        BY <1>7, <2>2, <4>1, <4>2 DEF RoomKept
    <3>7. cb.count = 0 => made = {}
      BY <1>6, <3>4, FS_EmptySet
    <3> QED
      BY <1>20, <2>2, <3>5, <3>6, <3>7
  <2> QED
    BY <2>1, <2>2
<1>22. ASSUME steady PROVE ~ refused'[t] /\ cb.from = offset[t]
  <2>1. cb.from = offset[t] /\ ~ refused[t]
    BY <1>1, <1>22 DEF PInv, OneAtATime
  <2>2. ASSUME NEW tx \in made PROVE ~InUse(tx.nonce)
    <3>1. tx.nonce \in offset[t] .. (offset[t] + cb.count - 1)
      BY <1>6, <2>1 DEF Nonces
    <3>2. offset[t] \in Nat
      BY <1>3
    <3>3. tx.nonce \notin 0 .. (offset[t] - 1)
      BY <1>5, <3>1, <3>2
    <3> QED
      BY <1>19, <2>1, <3>3 DEF Nonces
  <2> QED
    BY <1>7, <2>1, <2>2
<1>23. OneAtATime'
  <2> SUFFICES ASSUME steady, NEW u \in Threads
               PROVE  /\ ~ refused'[u]
                      /\ \A c, other \in active'[u] : c = other
                      /\ \A c \in active'[u] : c.phase = "signing" => c.from = offset'[u]
    BY <1>1 DEF OneAtATime
  <2>1. CASE u # t
    BY <1>8, <2>1 DEF PInv, OneAtATime
  <2>2. CASE u = t
    <3>1. active'[t] = {}
      BY <1>7 DEF PInv, OneAtATime
    <3> QED
      BY <1>22, <2>2, <3>1
  <2> QED
    BY <2>1, <2>2
<1>24. RejectionsOnly'
  BY <1>1 DEF RejectionsOnly
<1>25. NoncesConsecutive'
  <2> SUFFICES ASSUME NEW u \in Threads, ~ refused'[u]
               PROVE  /\ Nonces(pool'[u]) \cup queued[u] = 0 .. (offset'[u] - 1)
                      /\ Nonces(pool'[u]) \cap queued[u] = {}
                      /\ offset'[u] = sent'[u]
    BY <1>1 DEF NoncesConsecutive, Nonces
  <2>1. CASE u # t
    BY <1>8, <2>1 DEF PInv, NoncesConsecutive, Nonces
  <2>2. CASE u = t
    <3>1. Nonces(pool'[t]) = Nonces(pool[t]) \cup Nonces(made)
      BY <1>7, <1>12, <2>2, NoncesOf
    <3>2. offset[t] \in Nat /\ offset'[t] = offset[t] + cb.count /\ offset'[t] = sent'[t]
      BY <1>3, <1>7, <1>12, <1>19, <2>2
    <3>3. (0 .. (offset[t] - 1)) \cup Nonces(made) = 0 .. (offset'[t] - 1)
      <4>1. CASE cb.count = 0 /\ made = {}
        BY <3>2, <4>1, NoncesOf
      <4>2. CASE cb.from = offset[t]
        <5>1. Nonces(made) = offset[t] .. (offset[t] + cb.count - 1)
          BY <1>6, <4>2
        <5> QED
          BY <1>5, <3>2, <5>1
      <4> QED
        BY <1>20, <2>2, <4>1, <4>2
    <3>4. Nonces(made) \cap queued[t] = {}
      BY <1>12, <2>2 DEF Nonces
    <3> QED
      BY <1>12, <1>19, <2>2, <3>1, <3>2, <3>3, <3>4
  <2> QED
    BY <2>1, <2>2
<1> QED
  BY <1>9, <1>10, <1>11, <1>17, <1>18, <1>21, <1>23, <1>24, <1>25 DEF PInv

\* The rejection of a send ends the process.
LEMMA RejectKeeps ==
  ASSUME PInv, Reject
  PROVE  PInv'
<1>1. /\ UNCHANGED <<steady, height, pool, queue, queued, active, myTxs, counter, offset,
                     sent, resolved, refused>>
      /\ crashed' = TRUE /\ \E t \in Threads : refused[t]
  BY DEF Reject, chain
<1>2. TypeOK' /\ RejectionsOnly'
  BY <1>1 DEF PInv, TypeOK, RejectionsOnly
<1>3. \A t \in Threads : Shown(t)' = Shown(t) /\ Done(t)' = Done(t) /\ RoomKept(t)' = RoomKept(t)
  BY <1>1 DEF Shown, Done, Nonces, RoomKept
<1>4. (Finite /\ Seen /\ OnChain /\ Counted)'
  BY <1>1, <1>3 DEF PInv, Finite, Seen, OnChain, Counted, Nonces
<1>5. (Windows /\ OneAtATime /\ NoncesConsecutive)'
  BY <1>1, <1>3 DEF PInv, Windows, OneAtATime, NoncesConsecutive
<1> QED
  BY <1>2, <1>4, <1>5 DEF PInv

\* Nothing happens.
LEMMA PStutter ==
  ASSUME PInv, UNCHANGED vars
  PROVE  PInv'
<1>1. UNCHANGED <<steady, height, pool, queue, queued, active, myTxs, counter, offset, sent,
                  resolved, refused, crashed>>
  BY DEF vars, chain
<1>2. TypeOK' /\ RejectionsOnly'
  BY <1>1 DEF PInv, TypeOK, RejectionsOnly
<1>3. \A t \in Threads : Shown(t)' = Shown(t) /\ Done(t)' = Done(t) /\ RoomKept(t)' = RoomKept(t)
  BY <1>1 DEF Shown, Done, Nonces, RoomKept
<1>4. (Finite /\ Seen /\ OnChain /\ Counted)'
  BY <1>1, <1>3 DEF PInv, Finite, Seen, OnChain, Counted, Nonces
<1>5. (Windows /\ OneAtATime /\ NoncesConsecutive)'
  BY <1>1, <1>3 DEF PInv, Windows, OneAtATime, NoncesConsecutive
<1> QED
  BY <1>2, <1>4, <1>5 DEF PInv

\* Every step keeps the invariant.
LEMMA PStep == PInv /\ [Next]_vars => PInv'
BY NewBlockKeeps, ScanKeeps, SendKeeps, RejectKeeps, PStutter DEF Next

\* The invariant holds always, whatever the chain executes.
LEMMA PAlways == Spec => []PInv
BY PInit, PStep, PTL DEF Spec

\* The windows, nonces and counts are type correct: no window is overfull when
\* a callback asks for as many transactions as it has room for (testRunner.ts:54-104).
THEOREM TypeCorrect == Spec => []TypeOK
<1>1. PInv => TypeOK
  BY DEF PInv
<1> QED
  BY <1>1, PAlways, PTL

\* While callbacks return before the next head no send is refused.  However many
\* overlap, no thread has more transactions in flight than its load before one
\* of its sends is refused, and nothing but a refusal ends the process
\* (testRunner.ts:54-104).
THEOREM WindowIsKept == Spec => []WindowKept
<1>1. PInv => WindowKept
  BY DEF PInv, OneAtATime, Windows, RoomKept, RejectionsOnly, WindowKept
<1> QED
  BY <1>1, PAlways, PTL

\* However many callbacks overlap, a thread uses the nonces from 0 on, each once,
\* until one of its sends is refused (testRunner.ts:83-99).
THEOREM NoncesInOrder == Spec => []NoncesConsecutive
<1>1. PInv => NoncesConsecutive
  BY DEF PInv
<1> QED
  BY <1>1, PAlways, PTL

\* However many callbacks overlap and however many heads show a transaction, it
\* is counted once (testRunner.ts:66-72).
THEOREM CountedAtMostOnce == Spec => []CountedOnce
<1>1. ASSUME PInv, NEW t \in Threads PROVE counter[t] <= Cardinality(queued[t])
  <2>1. Done(t) \in SUBSET queued[t]
    BY DEF Done
  <2>2. /\ IsFiniteSet(queued[t]) /\ IsFiniteSet(Done(t))
        /\ Cardinality(Done(t)) <= Cardinality(queued[t])
    BY <1>1, <2>1, FS_Subset DEF PInv, Finite
  <2>3. Cardinality(Done(t)) \in Nat /\ Cardinality(queued[t]) \in Nat /\ counter[t] \in Nat
    BY <1>1, <2>2, FS_CardinalityType DEF PInv, TypeOK
  <2>4. counter[t] <= Cardinality(Done(t))
    BY <1>1 DEF PInv, Counted
  <2> QED
    BY <2>2, <2>3, <2>4
<1>2. PInv => CountedOnce
  BY <1>1 DEF CountedOnce
<1> QED
  BY <1>2, PAlways, PTL
=============================================================================
