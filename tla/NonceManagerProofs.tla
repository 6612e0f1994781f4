------------------------ MODULE NonceManagerProofs ------------------------
(***************************************************************************)
(* Theorems about NonceManager, for any number of workers, tests, refills  *)
(* and calls, however many calls overlap in one process.                   *)
(***************************************************************************)
EXTENDS NonceManager, FiniteSetTheorems, TLAPS

LEMMA ProcOfType == \A c \in Callers : ProcOf[c] \in Processes
  BY ProcessAssumption

LEMMA OnWireType ==
  ASSUME TypeOK, NEW p \in Processes, NEW k \in Kinds
  PROVE  OnWire(p, k) \in Nat
<1>1. wire[p] \in Seq(Requests)
  BY DEF TypeOK
<1>2. DOMAIN wire[p] = 1..Len(wire[p]) /\ Len(wire[p]) \in Nat
  BY <1>1
<1>3. IsFiniteSet(1..Len(wire[p]))
  BY <1>2, FS_Interval
<1>4. IsFiniteSet({i \in DOMAIN wire[p] : wire[p][i].kind = k})
  BY <1>2, <1>3, FS_Subset
<1>5. QED
  BY <1>4, FS_CardinalityType DEF OnWire

LEMMA RegisteredIdsType ==
  ASSUME NEW first \in Nat
  PROVE  RegisteredIds(first) \in Seq(Nat)
<1>1. \A i \in 1..Batch : first + Batch - i \in Nat
  BY CounterAssumption
<1>2. RegisteredIds(first) \in [1..Batch -> Nat]
  BY <1>1 DEF RegisteredIds
<1>3. QED
  BY <1>2, CounterAssumption

LEMMA InitType == Init => TypeOK
  BY CounterAssumption, ProcessAssumption
     DEF Init, TypeOK, Statuses, Kinds, Requests, Replies, Values

LEMMA SetupType ==
  ASSUME TypeOK, SetupGasLess \/ SetupAssets
  PROVE  TypeOK'
<1>1. CASE SetupGasLess
  <2>1. setup' \in {"gasless", "assets", "ready"} /\ nonce' \in Nat
    BY <1>1, CounterAssumption DEF SetupGasLess, TypeOK
  <2>2. QED
    BY <1>1, <2>1 DEF SetupGasLess, TypeOK, sockets, channel, callers
<1>2. CASE SetupAssets
  <2>1. setup' \in {"gasless", "assets", "ready"}
    BY <1>2 DEF SetupAssets
  <2>2. RegisteredIds(nextCurrencyId) \in Seq(Nat)
    BY RegisteredIdsType DEF TypeOK
  <2>3. /\ nonce' \in Nat
        /\ assetIds' \in Seq(Nat)
        /\ nextCurrencyId' \in Nat
    BY <1>2, <2>2, CounterAssumption DEF SetupAssets, TypeOK
  <2>4. QED
    BY <1>2, <2>1, <2>3 DEF SetupAssets, TypeOK, sockets, channel, callers
<1>3. QED
  BY <1>1, <1>2

LEMMA AskType ==
  ASSUME TypeOK, NEW c \in Callers, NEW k \in Kinds, Ask(c, k)
  PROVE  TypeOK'
<1> DEFINE p == ProcOf[c]
<1>1. p \in Processes
  BY ProcOfType
<1>2. Append(onConnect[p], c) \in Seq(Callers)
  BY <1>1 DEF TypeOK
<1>3. QED
  BY <1>1, <1>2 DEF Ask, TypeOK, server, channel, Statuses

LEMMA ConnectType ==
  ASSUME TypeOK, NEW p \in Processes, Connect(p), Connecting
  PROVE  TypeOK'
<1> DEFINE emits == [i \in DOMAIN onConnect[p] |->
                       Request(kind[onConnect[p][i]], configId[p])]
<1>0. onConnect[p] # <<>>
  BY DEF Connecting, Connect
<1>1. onConnect[p] \in Seq(Callers) /\ configId[p] \in Callers \cup {NoCaller}
  BY DEF TypeOK
<1>2. \A i \in DOMAIN onConnect[p] :
        Request(kind[onConnect[p][i]], configId[p]) \in Requests
  BY <1>1 DEF TypeOK, Requests, Request
<1>3. emits \in Seq(Requests) /\ Len(emits) = Len(onConnect[p])
  BY <1>1, <1>2
<1>4. emits # <<>>
  BY <1>0, <1>1, <1>3
<1>5. <<Head(emits)>> \in Seq(Requests) /\ Tail(emits) \in Seq(Requests)
  BY <1>3, <1>4
<1>6. /\ wire' \in [Processes -> Seq(Requests)]
      /\ unsent' \in [Processes -> Seq(Requests)]
  BY <1>3, <1>5 DEF Connect, TypeOK
<1>7. /\ conn' \in [Processes -> {"closed", "connecting", "open"}]
      /\ onConnect' \in [Processes -> Seq(Callers)]
  BY DEF Connect, TypeOK
<1>8. QED
  BY <1>6, <1>7 DEF Connect, TypeOK, server, callers

\* what a server handler does to the counters and to the callers
LEMMA HandleType ==
  ASSUME TypeOK, NEW k \in Kinds, Handle(k)
  PROVE  /\ nonce' \in Nat
         /\ numCollators' \in Nat
         /\ assetIds' \in Seq(Nat)
         /\ pc' \in [Callers -> Statuses]
<1>1. CASE k = "getNonce" /\ HandleGetNonce
  BY <1>1 DEF HandleGetNonce, TypeOK
<1>2. CASE k = "getCandidate" /\ HandleGetCandidate
  BY <1>2 DEF HandleGetCandidate, TypeOK
<1>3. CASE k = "getTokenId" /\ HandleGetTokenId
  <2>1. assetIds \in Seq(Nat) /\ assetIds' = SubSeq(assetIds, 1, Len(assetIds) - 1)
    BY <1>3 DEF HandleGetTokenId, TypeOK
  <2>2. assetIds' \in Seq(Nat)
    BY <2>1
  <2>3. pc' \in [Callers -> Statuses]
    BY <1>3 DEF HandleGetTokenId, StartRefill, TypeOK, Statuses
  <2>4. QED
    BY <1>3, <2>2, <2>3 DEF HandleGetTokenId, TypeOK
<1>4. QED
  BY <1>1, <1>2, <1>3 DEF Handle

LEMMA AnswerType ==
  ASSUME TypeOK, NEW k \in Kinds
  PROVE  Answer(k) \in Values
<1>1. assetIds \in Seq(Nat) /\ nonce \in Nat /\ numCollators \in Nat
  BY DEF TypeOK
<1>2. assetIds # <<>> => assetIds[Len(assetIds)] \in Nat
  BY <1>1
<1>3. QED
  BY <1>1, <1>2 DEF Answer, Values, Kinds

LEMMA ServeType ==
  ASSUME TypeOK, NEW p \in Processes, Serve(p)
  PROVE  TypeOK'
<1> DEFINE m == Head(wire[p])
           r == Reply(m.kind, m.id, Answer(m.kind))
<1>1. wire[p] \in Seq(Requests) /\ wire[p] # <<>>
  BY DEF Serve, TypeOK
<1>2. m \in Requests /\ Tail(wire[p]) \in Seq(Requests)
  BY <1>1
<1>3. m.kind \in Kinds /\ m.id \in Callers \cup {NoCaller}
  BY <1>2 DEF Requests
<1>4. Handle(m.kind)
  BY DEF Serve
<1>5. r \in Replies
  BY <1>3, AnswerType DEF Reply, Replies
<1>6. replies' = [replies EXCEPT ![p] = Append(@, r)]
  BY DEF Serve
<1>7. replies[p] \in Seq(Replies)
  BY DEF TypeOK
<1>8. Append(replies[p], r) \in Seq(Replies)
  BY <1>5, <1>7
<1>9. replies' \in [Processes -> Seq(Replies)]
  BY <1>6, <1>8 DEF TypeOK
<1>10. wire' \in [Processes -> Seq(Requests)]
  BY <1>2 DEF Serve, TypeOK
<1>11. QED
  BY <1>3, <1>4, <1>9, <1>10, HandleType DEF Serve, TypeOK, sockets

LEMMA ServeOrphanType ==
  ASSUME TypeOK, NEW k \in Kinds, ServeOrphan(k)
  PROVE  TypeOK'
<1>1. orphans' \in [Kinds -> Nat]
  BY DEF ServeOrphan, TypeOK
<1>2. QED
  BY <1>1, HandleType DEF ServeOrphan, TypeOK, sockets

LEMMA ResolveType ==
  ASSUME TypeOK, NEW p \in Processes, Resolve(p)
  PROVE  TypeOK'
<1> DEFINE m == Head(replies[p])
<1>1. replies[p] \in Seq(Replies) /\ replies[p] # <<>>
  BY DEF Resolve, TypeOK
<1>2. m \in Replies
  BY <1>1
<1>3. m.kind \in Kinds /\ m.value \in Values
  BY <1>2 DEF Replies
<1>4. m.id \in Callers
  BY DEF Resolve, TypeOK
<1>5. Got(m.kind, m.value) \in Results
  BY <1>3 DEF Got, Results
<1>6. got[m.id] \in Seq(Results)
  BY <1>4 DEF TypeOK
<1>7. Append(got[m.id], Got(m.kind, m.value)) \in Seq(Results)
  BY <1>5, <1>6
<1>8. got' = [got EXCEPT ![m.id] = Append(@, Got(m.kind, m.value))]
  BY DEF Resolve
<1>9. got' \in [Callers -> Seq(Results)]
  BY <1>4, <1>7, <1>8 DEF TypeOK
<1>10. \A k \in Kinds : orphans[k] + OnWire(p, k) \in Nat
  <2>1. \A k \in Kinds : OnWire(p, k) \in Nat
    BY OnWireType
  <2>2. \A k \in Kinds : orphans[k] \in Nat
    BY DEF TypeOK
  <2>3. QED
    BY <2>1, <2>2
<1>11. orphans' \in [Kinds -> Nat]
  BY <1>10 DEF Resolve
<1>12. pc' \in [Callers -> Statuses]
  BY DEF Resolve, TypeOK, Statuses
<1>13. /\ conn' \in [Processes -> {"closed", "connecting", "open"}]
       /\ handlers' \in [Processes -> SUBSET Callers]
       /\ unsent' \in [Processes -> Seq(Requests)]
       /\ wire' \in [Processes -> Seq(Requests)]
       /\ replies' \in [Processes -> Seq(Replies)]
  BY DEF Resolve, TypeOK
<1>14. QED
  BY <1>9, <1>11, <1>12, <1>13 DEF Resolve, TypeOK, server

LEMMA IgnoreType ==
  ASSUME TypeOK, NEW p \in Processes, Ignore(p)
  PROVE  TypeOK'
<1>1. replies[p] \in Seq(Replies) /\ replies[p] # <<>>
  BY DEF Ignore, TypeOK
<1>2. Tail(replies[p]) \in Seq(Replies)
  BY <1>1
<1>3. replies' \in [Processes -> Seq(Replies)]
  BY <1>2 DEF Ignore, TypeOK
<1>4. wire[p] \in Seq(Requests) /\ unsent[p] \in Seq(Requests)
  BY DEF TypeOK
<1>5. unsent[p] # <<>> => /\ Append(wire[p], Head(unsent[p])) \in Seq(Requests)
                          /\ Tail(unsent[p]) \in Seq(Requests)
  BY <1>4
<1>6. /\ wire' \in [Processes -> Seq(Requests)]
      /\ unsent' \in [Processes -> Seq(Requests)]
  BY <1>5 DEF Ignore, TypeOK
<1>7. QED
  BY <1>3, <1>6 DEF Ignore, TypeOK, server, callers

LEMMA RefillType ==
  ASSUME TypeOK, NEW r \in Refills, Registered(r) \/ Refilled(r) \/ RefillFails(r)
  PROVE  TypeOK'
<1>1. pc' \in [Callers -> Statuses]
  BY DEF Registered, Refilled, RefillFails, TypeOK, Statuses
<1>2. CASE Registered(r)
  <2>1. RegisteredIds(nextCurrencyId) \in Seq(Nat)
    BY RegisteredIdsType DEF TypeOK
  <2>2. batch' \in [Refills -> Seq(Nat)] /\ nextCurrencyId' \in Nat
    BY <1>2, <2>1, CounterAssumption DEF Registered, TypeOK
  <2>3. QED
    BY <1>1, <1>2, <2>2 DEF Registered, TypeOK, server, sockets, channel
<1>3. CASE Refilled(r)
  <2>1. batch' \in [Refills -> Seq(Nat)] /\ assetIds' \in Seq(Nat)
    BY <1>3 DEF Refilled, TypeOK
  <2>2. QED
    BY <1>1, <1>3, <2>1 DEF Refilled, TypeOK, sockets, channel
<1>4. CASE RefillFails(r)
  BY <1>1, <1>4 DEF RefillFails, TypeOK, server, sockets, channel
<1>5. QED
  BY <1>2, <1>3, <1>4

LEMMA StepType ==
  ASSUME TypeOK, Connecting, [Next]_vars
  PROVE  TypeOK'
<1>1. CASE SetupGasLess \/ SetupAssets
  BY <1>1, SetupType
<1>2. ASSUME NEW t \in Tests, NEW k \in Kinds, TestAsks(t, k)
      PROVE  TypeOK'
  BY <1>2, AskType DEF TestAsks, Callers
<1>3. ASSUME NEW r \in Refills, RefillAsks(r)
      PROVE  TypeOK'
  <2>1. "getNonce" \in Kinds /\ r \in Callers
    BY DEF Kinds, Callers
  <2>2. QED
    BY <1>3, <2>1, AskType DEF RefillAsks
<1>4. ASSUME NEW r \in Refills, Registered(r) \/ Refilled(r) \/ RefillFails(r)
      PROVE  TypeOK'
  BY <1>4, RefillType
<1>5. ASSUME NEW p \in Processes, Connect(p)
      PROVE  TypeOK'
  BY <1>5, ConnectType
<1>6. ASSUME NEW p \in Processes, Serve(p)
      PROVE  TypeOK'
  BY <1>6, ServeType
<1>7. ASSUME NEW p \in Processes, Resolve(p)
      PROVE  TypeOK'
  BY <1>7, ResolveType
<1>8. ASSUME NEW p \in Processes, Ignore(p)
      PROVE  TypeOK'
  BY <1>8, IgnoreType
<1>9. ASSUME NEW k \in Kinds, ServeOrphan(k)
      PROVE  TypeOK'
  BY <1>9, ServeOrphanType
<1>10. CASE UNCHANGED vars
  BY <1>10 DEF vars, server, sockets, channel, callers, TypeOK
<1>11. QED
  BY <1>1, <1>2, <1>3, <1>4, <1>5, <1>6, <1>7, <1>8, <1>9, <1>10 DEF Next

LEMMA StepConnecting ==
  ASSUME TypeOK, Connecting, [Next]_vars
  PROVE  Connecting'
<1>1. ASSUME NEW c \in Callers, NEW k \in Kinds, Ask(c, k)
      PROVE  Connecting'
  <2> SUFFICES ASSUME NEW p \in Processes, conn'[p] = "connecting"
               PROVE  onConnect'[p] # <<>>
    BY DEF Connecting
  <2>1. onConnect[p] \in Seq(Callers)
    BY DEF TypeOK
  <2>2. CASE p # ProcOf[c]
    BY <1>1, <2>2 DEF Ask, TypeOK, Connecting
  <2>3. CASE p = ProcOf[c]
    <3>1. conn[p] # "open"
      BY <1>1, <2>3 DEF Ask, TypeOK
    <3>2. onConnect'[p] = Append(onConnect[p], c)
      BY <1>1, <2>3, <3>1 DEF Ask, TypeOK
    <3>3. QED
      BY <2>1, <3>2
  <2>4. QED
    BY <2>2, <2>3
<1>2. ASSUME NEW p \in Processes, Connect(p)
      PROVE  Connecting'
  BY <1>2 DEF Connect, TypeOK, Connecting
<1>3. ASSUME NEW p \in Processes, Resolve(p)
      PROVE  Connecting'
  BY <1>3 DEF Resolve, TypeOK, Connecting
<1>4. CASE UNCHANGED <<conn, onConnect>>
  BY <1>4 DEF Connecting
<1>5. ASSUME NEW t \in Tests, NEW k \in Kinds, TestAsks(t, k)
      PROVE  Connecting'
  BY <1>5, <1>1 DEF TestAsks, Callers
<1>6. ASSUME NEW r \in Refills, RefillAsks(r)
      PROVE  Connecting'
  <2>1. "getNonce" \in Kinds /\ r \in Callers
    BY DEF Kinds, Callers
  <2>2. QED
    BY <1>6, <2>1, <1>1 DEF RefillAsks
<1>7. ASSUME \/ SetupGasLess \/ SetupAssets
             \/ \E r \in Refills : Registered(r) \/ Refilled(r) \/ RefillFails(r)
             \/ \E p \in Processes : Serve(p) \/ Ignore(p)
             \/ \E k \in Kinds : ServeOrphan(k)
             \/ UNCHANGED vars
      PROVE  UNCHANGED <<conn, onConnect>>
  BY <1>7 DEF SetupGasLess, SetupAssets, Registered, Refilled, RefillFails, Serve, Ignore,
              ServeOrphan, vars, sockets
<1>8. QED
  BY <1>2, <1>3, <1>4, <1>5, <1>6, <1>7 DEF Next

(***************************************************************************)
(* Type correctness: every variable of the server, of node-ipc and of the  *)
(* callers keeps its type, for any number of processes and callers.        *)
(***************************************************************************)
THEOREM TypeCorrect == Spec => []TypeOK
<1>1. Init => TypeOK /\ Connecting
  <2>1. Init => Connecting
    BY DEF Init, Connecting
  <2>2. QED
    BY <2>1, InitType
<1>2. TypeOK /\ Connecting /\ [Next]_vars => (TypeOK /\ Connecting)'
  BY StepType, StepConnecting
<1>3. QED
  BY <1>1, <1>2, PTL DEF Spec

-----------------------------------------------------------------------------
(***************************************************************************)
(* No number is served twice.                                              *)
(***************************************************************************)

\* the parts of the types that the distinctness argument reads
LEMMA NumberTypes ==
  ASSUME TypeOK
  PROVE  /\ nonce \in Nat /\ numCollators \in Nat /\ nextCurrencyId \in Nat
         /\ assetIds \in Seq(Nat)
         /\ \A c \in Callers : /\ got[c] \in Seq(Results)
                              /\ \A i \in DOMAIN got[c] :
                                   /\ got[c][i].kind \in Kinds
                                   /\ got[c][i].value \in Nat \cup {Undef}
         /\ \A p \in Processes : /\ replies[p] \in Seq(Replies)
                                /\ \A i \in DOMAIN replies[p] :
                                     /\ replies[p][i].kind \in Kinds
                                     /\ replies[p][i].value \in Nat \cup {Undef}
<1>1. ASSUME NEW c \in Callers, NEW i \in DOMAIN got[c]
      PROVE  got[c][i].kind \in Kinds /\ got[c][i].value \in Nat \cup {Undef}
  <2>1. got[c] \in Seq(Results)
    BY DEF TypeOK
  <2>2. got[c][i] \in Results
    BY <2>1
  <2>3. QED
    BY <2>2 DEF Values, Results
<1>2. ASSUME NEW p \in Processes, NEW i \in DOMAIN replies[p]
      PROVE  replies[p][i].kind \in Kinds /\ replies[p][i].value \in Nat \cup {Undef}
  <2>1. replies[p] \in Seq(Replies)
    BY DEF TypeOK
  <2>2. replies[p][i] \in Replies
    BY <2>1
  <2>3. QED
    BY <2>2 DEF Values, Replies
<1>3. QED
  BY <1>1, <1>2 DEF TypeOK

\* a handler answers with a number that has not left the server before, and
\* that is below the counter and out of the stock afterwards
LEMMA AnswerFresh ==
  ASSUME TypeOK, PoolFresh, NEW k \in Kinds, Handle(k),
         UNCHANGED <<nextCurrencyId, batch>>, Answer(k) # Undef
  PROVE  /\ Answer(k) < Limit(k)'
         /\ k # "getTokenId" => Answer(k) = Limit(k)
         /\ k = "getTokenId" => Answer(k) \in Stock /\ Answer(k) \notin Stock'
<1>1. CASE k = "getNonce" /\ HandleGetNonce
  BY <1>1 DEF HandleGetNonce, Answer, Limit, TypeOK
<1>2. CASE k = "getCandidate" /\ HandleGetCandidate
  BY <1>2 DEF HandleGetCandidate, Answer, Limit, TypeOK
<1>3. CASE k = "getTokenId" /\ HandleGetTokenId
  <2>1. assetIds # <<>> /\ Answer(k) = assetIds[Len(assetIds)]
    BY <1>3 DEF Answer
  <2>2. assetIds \in Seq(Nat)
    BY DEF TypeOK
  <2>3. Len(assetIds) \in DOMAIN assetIds
    BY <2>1, <2>2
  <2>4. Answer(k) \in Ids(assetIds)
    BY <2>1, <2>3 DEF Ids
  <2>5. Answer(k) \in Stock /\ Answer(k) < nextCurrencyId'
    BY <2>4 DEF PoolFresh, Stock
  <2>6. assetIds' = SubSeq(assetIds, 1, Len(assetIds) - 1)
    BY <1>3 DEF HandleGetTokenId
  <2>7. \A i \in DOMAIN assetIds' :
          i \in DOMAIN assetIds /\ i # Len(assetIds) /\ assetIds'[i] = assetIds[i]
    BY <2>1, <2>2, <2>6
  <2>8. \A i \in DOMAIN assetIds' : Answer(k) # assetIds'[i]
    BY <2>1, <2>3, <2>7 DEF PoolFresh, NoRepeat
  <2>9. Answer(k) \notin Ids(assetIds')
    BY <2>8 DEF Ids
  <2>10. \A r \in Refills : Answer(k) \notin Ids(batch[r])
    BY <2>4 DEF PoolFresh
  <2>11. Stock' = Ids(assetIds') \cup UNION {Ids(batch[r]) : r \in Refills}
    BY DEF Stock, Ids
  <2>12. Answer(k) \notin Stock'
    BY <2>9, <2>10, <2>11
  <2>13. Limit(k)' = nextCurrencyId'
    BY <1>3 DEF Limit
  <2>14. QED
    BY <1>3, <2>5, <2>12, <2>13
<1>4. QED
  BY <1>1, <1>2, <1>3 DEF Handle

\* a handler moves no counter back and adds nothing to the stock
LEMMA HandleGrows ==
  ASSUME TypeOK, NEW k \in Kinds, Handle(k), UNCHANGED <<nextCurrencyId, batch>>
  PROVE  /\ nonce' >= nonce /\ numCollators' >= numCollators
         /\ \A i \in DOMAIN assetIds' :
              i \in DOMAIN assetIds /\ assetIds'[i] = assetIds[i]
         /\ Stock' \subseteq Stock
<1>1. \A i \in DOMAIN assetIds' : i \in DOMAIN assetIds /\ assetIds'[i] = assetIds[i]
  <2>1. CASE k = "getTokenId" /\ HandleGetTokenId
    <3>1. assetIds \in Seq(Nat) /\ assetIds' = SubSeq(assetIds, 1, Len(assetIds) - 1)
      BY <2>1 DEF HandleGetTokenId, TypeOK
    <3>2. QED
      BY <3>1
  <2>2. CASE HandleGetNonce \/ HandleGetCandidate
    BY <2>2 DEF HandleGetNonce, HandleGetCandidate
  <2>3. QED
    BY <2>1, <2>2 DEF Handle
<1>2. nonce' >= nonce /\ numCollators' >= numCollators
  BY DEF Handle, HandleGetNonce, HandleGetCandidate, HandleGetTokenId, TypeOK
<1>3. Ids(assetIds') \subseteq Ids(assetIds)
  BY <1>1 DEF Ids
<1>4. Stock' = Ids(assetIds') \cup UNION {Ids(batch[r]) : r \in Refills}
  BY DEF Stock, Ids
<1>5. Stock' \subseteq Stock
  BY <1>3, <1>4 DEF Stock
<1>6. QED
  BY <1>1, <1>2, <1>5

\* m is below counters n, c and f and not in stock: Below and Pooled as a
\* function of the server's state, to speak of the next state
Gone(m, n, c, f, stock) ==
  /\ m.value # Undef => /\ m.kind = "getNonce" => m.value < n
                        /\ m.kind = "getCandidate" => m.value < c
                        /\ m.kind = "getTokenId" => m.value < f
  /\ m.kind = "getTokenId" => m.value \notin stock

AllGone ==
  /\ \A c \in Callers : \A i \in DOMAIN got[c] :
       Gone(got[c][i], nonce, numCollators, nextCurrencyId, Stock)
  /\ \A p \in Processes : \A i \in DOMAIN replies[p] :
       Gone(replies[p][i], nonce, numCollators, nextCurrencyId, Stock)

LEMMA LeftIsGone == TypeOK => (LeftServer <=> AllGone)
<1> SUFFICES ASSUME TypeOK
             PROVE  LeftServer <=> AllGone
  OBVIOUS
<1>1. \A m : m.kind \in Kinds =>
        (Below(m) /\ ~ Pooled(m) <=>
           Gone(m, nonce, numCollators, nextCurrencyId, Stock))
  BY DEF Below, Pooled, Limit, Gone, Kinds
<1>2. /\ \A c \in Callers : \A i \in DOMAIN got[c] : got[c][i].kind \in Kinds
      /\ \A p \in Processes : \A i \in DOMAIN replies[p] : replies[p][i].kind \in Kinds
  BY NumberTypes
<1>3. QED
  BY <1>1, <1>2 DEF LeftServer, AllGone

\* what is below the counters and out of the stock stays so
LEMMA StaysGone ==
  ASSUME TypeOK, TypeOK',
         NEW m, m.kind \in Kinds, m.value \in Nat \cup {Undef},
         Gone(m, nonce, numCollators, nextCurrencyId, Stock),
         nonce' >= nonce, numCollators' >= numCollators,
         nextCurrencyId' >= nextCurrencyId,
         \A v \in Stock' : v \in Stock \/ (v \in Nat /\ v >= nextCurrencyId)
  PROVE  Gone(m, nonce', numCollators', nextCurrencyId', Stock')
<1>1. /\ nonce \in Nat /\ numCollators \in Nat /\ nextCurrencyId \in Nat
      /\ nonce' \in Nat /\ numCollators' \in Nat /\ nextCurrencyId' \in Nat
  BY DEF TypeOK
<1>2. QED
  BY <1>1, CounterAssumption DEF Gone

\* a step that delivers and serves nothing, and moves no counter back
LEMMA NothingLeaves ==
  ASSUME TypeOK, TypeOK', LeftServerOnce, LeftServer,
         UNCHANGED <<got, replies>>,
         nonce' >= nonce, numCollators' >= numCollators,
         nextCurrencyId' >= nextCurrencyId,
         \A v \in Stock' : v \in Stock \/ (v \in Nat /\ v >= nextCurrencyId)
  PROVE  LeftServerOnce' /\ LeftServer'
<1>1. LeftServerOnce'
  BY DEF LeftServerOnce, Same
<1>2. \A c \in Callers : \A i \in DOMAIN got[c] :
        Gone(got[c][i], nonce', numCollators', nextCurrencyId', Stock')
  BY StaysGone, NumberTypes, LeftIsGone DEF AllGone
<1>3. \A p \in Processes : \A i \in DOMAIN replies[p] :
        Gone(replies[p][i], nonce', numCollators', nextCurrencyId', Stock')
  BY StaysGone, NumberTypes, LeftIsGone DEF AllGone
<1>4. AllGone'
  BY <1>2, <1>3 DEF AllGone
<1>5. LeftServer'
  BY <1>4, LeftIsGone, PTL
<1>6. QED
  BY <1>1, <1>5

\* the ids of a batch are new, and no two are the same
LEMMA BatchFresh ==
  ASSUME NEW first \in Nat
  PROVE  /\ \A v \in Ids(RegisteredIds(first)) :
              v \in Nat /\ v >= first /\ v < first + Batch
         /\ NoRepeat(RegisteredIds(first))
  BY CounterAssumption DEF RegisteredIds, Ids, NoRepeat

\* globalSetup registers the first batch, straight into the pool
LEMMA SetupKeeps ==
  ASSUME IInv, TypeOK', UNCHANGED <<got, replies, numCollators, batch>>,
         nonce' >= nonce,
         assetIds' = RegisteredIds(nextCurrencyId),
         nextCurrencyId' = nextCurrencyId + Batch
  PROVE  LeftServerOnce' /\ LeftServer' /\ PoolFresh'
<1> DEFINE first == nextCurrencyId
           new == Ids(RegisteredIds(first))
<1>1. first \in Nat /\ numCollators \in Nat /\ Batch \in Nat
  BY CounterAssumption DEF IInv, TypeOK
<1>2. /\ nextCurrencyId' >= nextCurrencyId
      /\ numCollators' >= numCollators
  BY <1>1
<1>3. /\ \A v \in new : v \in Nat /\ v >= first /\ v < first + Batch
      /\ NoRepeat(RegisteredIds(first))
  BY <1>1, BatchFresh
<1>4. Stock' = new \cup UNION {Ids(batch[r]) : r \in Refills}
  BY DEF Stock, Ids
<1>5. \A r \in Refills : \A v \in Ids(batch[r]) : v \in Nat /\ v < first
  <2>1. \A r \in Refills : batch[r] \in Seq(Nat)
    BY DEF IInv, TypeOK
  <2>2. \A r \in Refills : Ids(batch[r]) \subseteq Nat
    BY <2>1 DEF Ids
  <2>3. \A r \in Refills : Ids(batch[r]) \subseteq Stock
    BY DEF Stock
  <2>4. QED
    BY <2>2, <2>3 DEF IInv, PoolFresh
<1> HIDE DEF new
<1>6. \A v \in Stock' : v \in Stock \/ (v \in Nat /\ v >= nextCurrencyId)
  BY <1>3, <1>4 DEF Stock
<1>7. LeftServerOnce' /\ LeftServer'
  BY <1>2, <1>6, NothingLeaves DEF IInv
<1>8. PoolFresh'
  <2>1. \A v \in Stock' : v < nextCurrencyId'
    BY <1>1, <1>3, <1>4, <1>5
  <2>2. NoRepeat(assetIds')
    BY <1>3
  <2>3. \A r \in Refills : Ids(batch'[r]) \cap Ids(assetIds') = {}
    BY <1>1, <1>3, <1>5 DEF new
  <2>4. /\ \A r \in Refills : NoRepeat(batch'[r])
        /\ \A r, q \in Refills : q # r => Ids(batch'[r]) \cap Ids(batch'[q]) = {}
    BY DEF IInv, PoolFresh
  <2>5. QED
    BY <2>1, <2>2, <2>3, <2>4 DEF PoolFresh, NoRepeat, Ids
<1>9. QED
  BY <1>7, <1>8

\* the chain registers the batch of a refill
LEMMA RegisteredKeeps ==
  ASSUME IInv, TypeOK', NEW r \in Refills, Registered(r)
  PROVE  LeftServerOnce' /\ LeftServer' /\ PoolFresh'
<1> DEFINE first == nextCurrencyId
           new == Ids(RegisteredIds(first))
<1>1. first \in Nat /\ numCollators \in Nat /\ nonce \in Nat /\ Batch \in Nat
  BY CounterAssumption DEF IInv, TypeOK
<1>2. /\ UNCHANGED <<got, replies, nonce, numCollators, assetIds>>
      /\ nextCurrencyId' = first + Batch
      /\ batch'[r] = RegisteredIds(first)
      /\ \A q \in Refills : q # r => batch'[q] = batch[q]
  BY DEF Registered, server, channel, IInv, TypeOK
<1>3. /\ \A v \in new : v \in Nat /\ v >= first /\ v < first + Batch
      /\ NoRepeat(RegisteredIds(first))
  BY <1>1, BatchFresh
<1>4. Ids(batch'[r]) = new /\ Ids(assetIds') = Ids(assetIds)
  BY <1>2
<1>5. \A v \in Stock : v \in Nat /\ v < first
  <2>1. assetIds \in Seq(Nat) /\ \A q \in Refills : batch[q] \in Seq(Nat)
    BY DEF IInv, TypeOK
  <2>2. Ids(assetIds) \subseteq Nat /\ \A q \in Refills : Ids(batch[q]) \subseteq Nat
    BY <2>1 DEF Ids
  <2>3. Stock \subseteq Nat
    BY <2>2 DEF Stock
  <2>4. QED
    BY <2>3 DEF IInv, PoolFresh
<1>6. Ids(assetIds) \subseteq Stock /\ \A q \in Refills : Ids(batch[q]) \subseteq Stock
  BY DEF Stock
<1> HIDE DEF new
<1>7. \A q \in Refills : q # r => Ids(batch'[q]) = Ids(batch[q])
  BY <1>2
<1>8. Stock' = Ids(assetIds') \cup UNION {Ids(batch'[q]) : q \in Refills}
  BY DEF Stock, Ids
<1>9. Stock' \subseteq Stock \cup new
  BY <1>4, <1>6, <1>7, <1>8
<1>10. LeftServerOnce' /\ LeftServer'
  <2>1. \A v \in Stock' : v \in Stock \/ (v \in Nat /\ v >= nextCurrencyId)
    BY <1>3, <1>9
  <2>2. nonce' >= nonce /\ numCollators' >= numCollators /\ nextCurrencyId' >= nextCurrencyId
    BY <1>1, <1>2
  <2>3. QED
    BY <1>2, <2>1, <2>2, NothingLeaves DEF IInv
<1>11. PoolFresh'
  <2>1. \A v \in Stock' : v < nextCurrencyId'
    BY <1>1, <1>2, <1>3, <1>5, <1>9
  <2>2. NoRepeat(assetIds')
    BY <1>2 DEF IInv, PoolFresh
  <2>3. \A q \in Refills : NoRepeat(batch'[q])
    BY <1>2, <1>3 DEF IInv, PoolFresh
  <2>4. new \cap Stock = {}
    BY <1>1, <1>3, <1>5
  <2>5. \A q \in Refills : Ids(batch'[q]) \cap Ids(assetIds') = {}
    BY <1>4, <1>6, <1>7, <2>4 DEF IInv, PoolFresh
  <2>6. \A q, s \in Refills : s # q => Ids(batch'[q]) \cap Ids(batch'[s]) = {}
    BY <1>4, <1>6, <1>7, <2>4 DEF IInv, PoolFresh
  <2>7. QED
    BY <2>1, <2>2, <2>3, <2>5, <2>6 DEF PoolFresh, NoRepeat, Ids
<1>12. QED
  BY <1>10, <1>11

\* the ids of a batch move from the refill into the pool
LEMMA RefilledKeeps ==
  ASSUME IInv, TypeOK', NEW r \in Refills, Refilled(r)
  PROVE  LeftServerOnce' /\ LeftServer' /\ PoolFresh'
<1>1. /\ UNCHANGED <<got, replies, nonce, numCollators, nextCurrencyId>>
      /\ assetIds' = batch[r] /\ batch'[r] = <<>>
      /\ \A q \in Refills : q # r => batch'[q] = batch[q]
  BY DEF Refilled, channel, IInv, TypeOK
<1>2. Ids(batch'[r]) = {} /\ NoRepeat(batch'[r])
  BY <1>1 DEF Ids, NoRepeat
<1>3. /\ Ids(assetIds') = Ids(batch[r])
      /\ \A q \in Refills : q # r => Ids(batch'[q]) = Ids(batch[q])
  BY <1>1
<1>4. Stock' = Ids(assetIds') \cup UNION {Ids(batch'[q]) : q \in Refills}
  BY DEF Stock, Ids
<1>5. Stock' \subseteq Stock
  BY <1>2, <1>3, <1>4 DEF Stock
<1>6. LeftServerOnce' /\ LeftServer'
  <2>1. nonce' >= nonce /\ numCollators' >= numCollators /\ nextCurrencyId' >= nextCurrencyId
    BY <1>1 DEF IInv, TypeOK
  <2>2. QED
    BY <1>1, <1>5, <2>1, NothingLeaves DEF IInv
<1>7. PoolFresh'
  <2>1. \A v \in Stock' : v < nextCurrencyId'
    BY <1>1, <1>5 DEF IInv, PoolFresh
  <2>2. NoRepeat(assetIds') /\ \A q \in Refills : NoRepeat(batch'[q])
    BY <1>1, <1>2 DEF IInv, PoolFresh
  <2>3. \A q \in Refills : Ids(batch'[q]) \cap Ids(assetIds') = {}
    BY <1>2, <1>3 DEF IInv, PoolFresh
  <2>4. \A q, s \in Refills : s # q => Ids(batch'[q]) \cap Ids(batch'[s]) = {}
    BY <1>2, <1>3 DEF IInv, PoolFresh
  <2>5. QED
    BY <2>1, <2>2, <2>3, <2>4 DEF PoolFresh, NoRepeat, Ids
<1>8. QED
  BY <1>6, <1>7

\* taking an id out of the pool leaves it fresh
LEMMA HandleKeepsPool ==
  ASSUME TypeOK, PoolFresh, NEW k \in Kinds, Handle(k),
         UNCHANGED <<nextCurrencyId, batch>>
  PROVE  PoolFresh'
<1>1. /\ \A i \in DOMAIN assetIds' : i \in DOMAIN assetIds /\ assetIds'[i] = assetIds[i]
      /\ Stock' \subseteq Stock
  BY HandleGrows
<1>2. Ids(assetIds') \subseteq Ids(assetIds) /\ NoRepeat(assetIds')
  BY <1>1 DEF Ids, NoRepeat, PoolFresh
<1>3. \A v \in Stock' : v < nextCurrencyId'
  BY <1>1 DEF PoolFresh
<1>4. \A r \in Refills : Ids(batch'[r]) \cap Ids(assetIds') = {}
  BY <1>2 DEF PoolFresh
<1>5. /\ \A r \in Refills : NoRepeat(batch'[r])
      /\ \A r, q \in Refills : q # r => Ids(batch'[r]) \cap Ids(batch'[q]) = {}
  BY DEF PoolFresh
<1>6. QED
  BY <1>2, <1>3, <1>4, <1>5 DEF PoolFresh, NoRepeat, Ids

(***************************************************************************)
(* The server answers: the answer is a number that is neither held nor on  *)
(* a socket, because all of those are below the counter or out of the pool.*)
(***************************************************************************)
LEMMA ServeKeeps ==
  ASSUME IInv, TypeOK', NEW p \in Processes, Serve(p)
  PROVE  LeftServerOnce' /\ LeftServer' /\ PoolFresh'
<1>a. PICK m : m = Head(wire[p])
  OBVIOUS
<1>b. PICK r : r = Reply(m.kind, m.id, Answer(m.kind))
  OBVIOUS
<1>1. m.kind \in Kinds
  <2>1. wire[p] \in Seq(Requests) /\ wire[p] # <<>>
    BY DEF IInv, TypeOK, Serve
  <2>2. m \in Requests
    BY <1>a, <2>1
  <2>3. QED
    BY <2>2 DEF Requests
<1>2. /\ Handle(m.kind)
      /\ UNCHANGED <<nextCurrencyId, batch>>
      /\ UNCHANGED got
      /\ replies' = [replies EXCEPT ![p] = Append(@, r)]
  BY <1>a, <1>b DEF Serve
<1>3. r.kind = m.kind /\ r.value = Answer(m.kind)
  BY <1>b DEF Reply
<1>4. PoolFresh'
  BY <1>1, <1>2, HandleKeepsPool DEF IInv
<1>5. /\ nonce' >= nonce /\ numCollators' >= numCollators
      /\ nextCurrencyId' >= nextCurrencyId
      /\ Stock' \subseteq Stock
  BY <1>1, <1>2, HandleGrows, NumberTypes DEF IInv
\* an answer is either an old one or r
<1>6. \A q \in Processes : \A i \in DOMAIN replies'[q] :
        \/ i \in DOMAIN replies[q] /\ replies'[q][i] = replies[q][i]
        \/ q = p /\ i = Len(replies[p]) + 1 /\ replies'[q][i] = r
  <2>1. replies \in [Processes -> Seq(Replies)]
    BY DEF IInv, TypeOK
  <2>2. ASSUME NEW q \in Processes, q # p
        PROVE  replies'[q] = replies[q]
    BY <1>2, <2>1, <2>2
  <2>3. replies'[p] = Append(replies[p], r)
    BY <1>2, <2>1
  <2>4. \A i \in DOMAIN replies'[p] :
          \/ i \in DOMAIN replies[p] /\ replies'[p][i] = replies[p][i]
          \/ i = Len(replies[p]) + 1 /\ replies'[p][i] = r
    BY <2>1, <2>3
  <2>5. QED
    BY <2>2, <2>4
\* whatever had left the server is not r
<1>7. ASSUME NEW x, x.kind \in Kinds, x.value \in Nat \cup {Undef},
             Below(x), ~ Pooled(x)
      PROVE  ~ Same(x, r) /\ ~ Same(r, x)
  <2> SUFFICES ASSUME x.kind = m.kind, x.value = Answer(m.kind),
                      x.value # Undef
               PROVE  FALSE
    BY <1>3 DEF Same
  <2>1. /\ m.kind # "getTokenId" => Answer(m.kind) = Limit(m.kind)
        /\ m.kind = "getTokenId" => Answer(m.kind) \in Stock
    BY <1>1, <1>2, AnswerFresh DEF IInv
  <2>2. x.value \in Nat /\ x.value < Limit(m.kind)
    BY <1>7 DEF Below
  <2>3. QED
    BY <1>7, <2>1, <2>2 DEF Pooled
<1>8. \A c \in Callers : \A i \in DOMAIN got[c] :
        ~ Same(got[c][i], r) /\ ~ Same(r, got[c][i])
  BY <1>7, NumberTypes DEF IInv, LeftServer
<1>9. \A q \in Processes : \A i \in DOMAIN replies[q] :
        ~ Same(replies[q][i], r) /\ ~ Same(r, replies[q][i])
  BY <1>7, NumberTypes DEF IInv, LeftServer
<1>10. LeftServerOnce'
  <2>1. \A c, d \in Callers : \A i \in DOMAIN got'[c], j \in DOMAIN got'[d] :
          Same(got'[c][i], got'[d][j]) => c = d /\ i = j
    BY <1>2 DEF IInv, LeftServerOnce
  <2>2. \A c \in Callers, q \in Processes :
          \A i \in DOMAIN got'[c], j \in DOMAIN replies'[q] :
            ~ Same(got'[c][i], replies'[q][j])
    BY <1>2, <1>6, <1>8 DEF IInv, LeftServerOnce
  <2>3. \A q, s \in Processes :
          \A i \in DOMAIN replies'[q], j \in DOMAIN replies'[s] :
            Same(replies'[q][i], replies'[s][j]) => q = s /\ i = j
    BY <1>6, <1>9 DEF IInv, LeftServerOnce
  <2>4. QED
    BY <2>1, <2>2, <2>3 DEF LeftServerOnce, Same
<1>11. Gone(r, nonce', numCollators', nextCurrencyId', Stock')
  <2>1. CASE Answer(m.kind) = Undef
    <3>1. assetIds' \in Seq(Nat) /\ \A q \in Refills : batch'[q] \in Seq(Nat)
      BY DEF TypeOK
    <3>2. Stock' \subseteq Nat
      BY <3>1 DEF Stock, Ids
    <3>3. QED
      BY <1>3, <2>1, <3>2, CounterAssumption DEF Gone
  <2>2. CASE Answer(m.kind) # Undef
    <3>1. /\ Answer(m.kind) < Limit(m.kind)'
          /\ m.kind = "getTokenId" => Answer(m.kind) \notin Stock'
      BY <1>1, <1>2, <2>2, AnswerFresh DEF IInv
    <3>2. QED
      BY <1>3, <3>1 DEF Gone, Limit
  <2>3. QED
    BY <2>1, <2>2
<1>12. ASSUME NEW x, x.kind \in Kinds, x.value \in Nat \cup {Undef},
              Gone(x, nonce, numCollators, nextCurrencyId, Stock)
       PROVE  Gone(x, nonce', numCollators', nextCurrencyId', Stock')
  BY <1>12, <1>5, StaysGone DEF IInv
<1>13. LeftServer'
  <2>1. \A c \in Callers : \A i \in DOMAIN got'[c] :
          Gone(got'[c][i], nonce', numCollators', nextCurrencyId', Stock')
    BY <1>2, <1>12, NumberTypes, LeftIsGone DEF IInv, AllGone
  <2>2. \A q \in Processes : \A i \in DOMAIN replies'[q] :
          Gone(replies'[q][i], nonce', numCollators', nextCurrencyId', Stock')
    BY <1>6, <1>11, <1>12, NumberTypes, LeftIsGone DEF IInv, AllGone
  <2>3. AllGone'
    BY <2>1, <2>2 DEF AllGone
  <2>4. QED
    BY <2>3, LeftIsGone, PTL
<1>14. QED
  BY <1>4, <1>10, <1>13

(***************************************************************************)
(* A call resolves: one answer moves from a socket to its caller, the rest *)
(* of the socket is gone.                                                  *)
(***************************************************************************)
LEMMA ResolveKeeps ==
  ASSUME IInv, TypeOK', NEW p \in Processes, Resolve(p)
  PROVE  LeftServerOnce' /\ LeftServer' /\ PoolFresh'
<1>a. PICK m : m = Head(replies[p])
  OBVIOUS
<1>1. /\ replies[p] \in Seq(Replies) /\ replies[p] # <<>>
      /\ got \in [Callers -> Seq(Results)]
      /\ m.id \in Callers
  BY <1>a DEF Resolve, IInv, TypeOK
<1>2. 1 \in DOMAIN replies[p] /\ replies[p][1] = m
  BY <1>a, <1>1
<1>3. UNCHANGED <<nonce, numCollators, assetIds, nextCurrencyId, batch>> /\ Stock' = Stock
  BY DEF Resolve, server, Stock, Ids
\* a result is an old one or the delivered answer
<1>4. \A c \in Callers : \A i \in DOMAIN got'[c] :
        \/ i \in DOMAIN got[c] /\ got'[c][i] = got[c][i]
        \/ /\ c = m.id /\ i = Len(got[m.id]) + 1
           /\ got'[c][i].kind = m.kind /\ got'[c][i].value = m.value
  <2>1. got' = [got EXCEPT ![m.id] = Append(got[m.id], Got(m.kind, m.value))]
    BY <1>a DEF Resolve
  <2>2. \A c \in Callers : c # m.id => got'[c] = got[c]
    BY <1>1, <2>1
  <2>3. got'[m.id] = Append(got[m.id], Got(m.kind, m.value))
    BY <1>1, <2>1
  <2>4. \A i \in DOMAIN got'[m.id] :
          \/ i \in DOMAIN got[m.id] /\ got'[m.id][i] = got[m.id][i]
          \/ i = Len(got[m.id]) + 1 /\ got'[m.id][i] = Got(m.kind, m.value)
    BY <1>1, <2>3
  <2>5. QED
    BY <2>2, <2>4 DEF Got
<1>5. \A q \in Processes : \A i \in DOMAIN replies'[q] :
        /\ q # p /\ i \in DOMAIN replies[q]
        /\ replies'[q][i] = replies[q][i]
  <2>1. replies' = [replies EXCEPT ![p] = <<>>]
    BY DEF Resolve
  <2>2. \A q \in Processes : q # p => replies'[q] = replies[q]
    BY <2>1 DEF IInv, TypeOK
  <2>3. replies'[p] = <<>>
    BY <2>1 DEF IInv, TypeOK
  <2>4. QED
    BY <2>2, <2>3
<1>6. LeftServerOnce'
  <2>1. \A c, d \in Callers : \A i \in DOMAIN got'[c], j \in DOMAIN got'[d] :
          Same(got'[c][i], got'[d][j]) => c = d /\ i = j
    <3>1. \A c \in Callers : \A i \in DOMAIN got[c] :
            ~ Same(got[c][i], m) /\ ~ Same(m, got[c][i])
      BY <1>2 DEF IInv, LeftServerOnce, Same
    <3>2. QED
      BY <1>4, <3>1 DEF IInv, LeftServerOnce, Same
  <2>2. \A c \in Callers, q \in Processes :
          \A i \in DOMAIN got'[c], j \in DOMAIN replies'[q] :
            ~ Same(got'[c][i], replies'[q][j])
    <3>1. \A q \in Processes : \A j \in DOMAIN replies[q] :
            q # p => ~ Same(m, replies[q][j])
      BY <1>2 DEF IInv, LeftServerOnce
    <3>2. QED
      BY <1>4, <1>5, <3>1 DEF IInv, LeftServerOnce, Same
  <2>3. \A q, s \in Processes :
          \A i \in DOMAIN replies'[q], j \in DOMAIN replies'[s] :
            Same(replies'[q][i], replies'[s][j]) => q = s /\ i = j
    BY <1>5 DEF IInv, LeftServerOnce
  <2>4. QED
    BY <2>1, <2>2, <2>3 DEF LeftServerOnce, Same
<1>7. LeftServer'
  <2>1. AllGone
    BY LeftIsGone DEF IInv
  <2>2. AllGone'
    BY <1>2, <1>3, <1>4, <1>5, <2>1 DEF AllGone, Gone
  <2>3. QED
    BY <2>2, LeftIsGone, PTL
<1>8. PoolFresh'
  BY <1>3 DEF IInv, PoolFresh, NoRepeat, Ids
<1>9. QED
  BY <1>6, <1>7, <1>8

\* an answer that nobody listens for is dropped: the rest moves up by one
LEMMA IgnoreKeeps ==
  ASSUME IInv, TypeOK', NEW p \in Processes, Ignore(p)
  PROVE  LeftServerOnce' /\ LeftServer' /\ PoolFresh'
<1>1. /\ UNCHANGED <<nonce, numCollators, assetIds, nextCurrencyId, batch, got>>
      /\ Stock' = Stock
  BY DEF Ignore, server, callers, Stock, Ids
<1>2. replies[p] \in Seq(Replies) /\ replies[p] # <<>>
  BY DEF Ignore, IInv, TypeOK
<1>3. /\ \A q \in Processes : q # p => replies'[q] = replies[q]
      /\ replies'[p] = Tail(replies[p])
  BY DEF Ignore, IInv, TypeOK
<1>4. /\ \A q \in Processes : q # p =>
           \A i \in DOMAIN replies'[q] :
             i \in DOMAIN replies[q] /\ replies'[q][i] = replies[q][i]
      /\ \A i \in DOMAIN replies'[p] :
           /\ i \in Nat /\ i + 1 \in DOMAIN replies[p]
           /\ replies'[p][i] = replies[p][i + 1]
  BY <1>2, <1>3
<1>5. LeftServerOnce'
  <2>1. \A c, d \in Callers : \A i \in DOMAIN got'[c], j \in DOMAIN got'[d] :
          Same(got'[c][i], got'[d][j]) => c = d /\ i = j
    BY <1>1 DEF IInv, LeftServerOnce
  <2>2. \A c \in Callers, q \in Processes :
          \A i \in DOMAIN got'[c], j \in DOMAIN replies'[q] :
            ~ Same(got'[c][i], replies'[q][j])
    BY <1>1, <1>4 DEF IInv, LeftServerOnce
  <2>3. ASSUME NEW q \in Processes, NEW s \in Processes,
               NEW i \in DOMAIN replies'[q], NEW j \in DOMAIN replies'[s],
               Same(replies'[q][i], replies'[s][j])
        PROVE  q = s /\ i = j
    <3>1. CASE q = p /\ s = p
      <4>1. i + 1 = j + 1
        BY <1>4, <2>3, <3>1 DEF IInv, LeftServerOnce
      <4>2. QED
        BY <1>4, <3>1, <4>1
    <3>2. CASE q # p \/ s # p
      BY <1>4, <2>3, <3>2 DEF IInv, LeftServerOnce
    <3>3. QED
      BY <3>1, <3>2
  <2>4. QED
    BY <2>1, <2>2, <2>3 DEF LeftServerOnce, Same
<1>6. LeftServer'
  <2>1. AllGone
    BY LeftIsGone DEF IInv
  <2>2. AllGone'
    BY <1>1, <1>4, <2>1 DEF AllGone
  <2>3. QED
    BY <2>2, LeftIsGone, PTL
<1>7. PoolFresh'
  BY <1>1 DEF IInv, PoolFresh, NoRepeat, Ids
<1>8. QED
  BY <1>5, <1>6, <1>7

\* a step that changes neither what was served nor the pool
LEMMA FrameKeeps ==
  ASSUME IInv, TypeOK', UNCHANGED <<got, replies, numCollators, nextCurrencyId, batch>>,
         nonce' >= nonce, assetIds' = assetIds
  PROVE  LeftServerOnce' /\ LeftServer' /\ PoolFresh'
<1>1. /\ nextCurrencyId' >= nextCurrencyId /\ numCollators' >= numCollators
      /\ Stock' = Stock
  BY DEF IInv, TypeOK, Stock, Ids
<1>2. LeftServerOnce' /\ LeftServer'
  BY <1>1, NothingLeaves DEF IInv
<1>3. PoolFresh'
  BY <1>1 DEF IInv, PoolFresh, NoRepeat, Ids
<1>4. QED
  BY <1>2, <1>3

LEMMA InitInv == Init => IInv
<1> SUFFICES ASSUME Init
             PROVE  IInv
  OBVIOUS
<1>1. TypeOK
  BY InitType
<1>2. Connecting
  BY DEF Init, Connecting
<1>3. LeftServerOnce
  BY DEF Init, LeftServerOnce
<1>4. LeftServer
  BY DEF Init, LeftServer
<1>5. PoolFresh
  BY DEF Init, PoolFresh, NoRepeat, Stock, Ids
<1>6. QED
  BY <1>1, <1>2, <1>3, <1>4, <1>5 DEF IInv

LEMMA StepInv == IInv /\ [Next]_vars => IInv'
<1> SUFFICES ASSUME IInv, [Next]_vars
             PROVE  IInv'
  OBVIOUS
<1>1. TypeOK' /\ Connecting'
  BY StepType, StepConnecting DEF IInv
<1> DEFINE Kept == LeftServerOnce' /\ LeftServer' /\ PoolFresh'
<1>2. ASSUME SetupGasLess
      PROVE  Kept
  <2>1. nonce' >= nonce
    BY <1>2 DEF SetupGasLess, IInv, TypeOK
  <2>2. QED
    BY <1>1, <1>2, <2>1, FrameKeeps DEF SetupGasLess, channel, callers
<1>3. ASSUME SetupAssets
      PROVE  Kept
  <2>1. nonce' >= nonce
    BY <1>3 DEF SetupAssets, IInv, TypeOK
  <2>2. CASE Backend
    BY <1>1, <1>3, <2>1, <2>2, SetupKeeps DEF SetupAssets, channel, callers
  <2>3. CASE ~ Backend
    BY <1>1, <1>3, <2>1, <2>3, FrameKeeps DEF SetupAssets, channel, callers
  <2>4. QED
    BY <2>2, <2>3
<1>4. ASSUME \/ \E c \in Callers, k \in Kinds : Ask(c, k)
             \/ \E r \in Refills : RefillFails(r)
             \/ \E p \in Processes : Connect(p)
             \/ UNCHANGED vars
      PROVE  Kept
  <2>1. /\ UNCHANGED <<got, replies, numCollators, nextCurrencyId, batch>>
        /\ nonce' = nonce /\ assetIds' = assetIds
    BY <1>4 DEF Ask, RefillFails, Connect, vars, server, channel, callers
  <2>2. nonce' >= nonce
    BY <2>1 DEF IInv, TypeOK
  <2>3. QED
    BY <1>1, <2>1, <2>2, FrameKeeps
<1>5. ASSUME NEW t \in Tests, NEW k \in Kinds, TestAsks(t, k)
      PROVE  Kept
  BY <1>4, <1>5 DEF TestAsks, Callers
<1>6. ASSUME NEW r \in Refills, RefillAsks(r)
      PROVE  Kept
  <2>1. r \in Callers /\ "getNonce" \in Kinds
    BY DEF Callers, Kinds
  <2>2. QED
    BY <1>4, <1>6, <2>1 DEF RefillAsks
<1>7. ASSUME NEW r \in Refills, Registered(r) \/ Refilled(r)
      PROVE  Kept
  BY <1>1, <1>7, RegisteredKeeps, RefilledKeeps
<1>8. ASSUME NEW p \in Processes, Serve(p)
      PROVE  Kept
  BY <1>1, <1>8, ServeKeeps
<1>9. ASSUME NEW p \in Processes, Resolve(p)
      PROVE  Kept
  BY <1>1, <1>9, ResolveKeeps
<1>10. ASSUME NEW p \in Processes, Ignore(p)
       PROVE  Kept
  BY <1>1, <1>10, IgnoreKeeps
<1>11. ASSUME NEW k \in Kinds, ServeOrphan(k)
       PROVE  Kept
  <2>1. Handle(k) /\ UNCHANGED <<got, replies, nextCurrencyId, batch>>
    BY <1>11 DEF ServeOrphan
  <2>2. /\ nonce' >= nonce /\ numCollators' >= numCollators
        /\ Stock' \subseteq Stock
    BY <2>1, HandleGrows DEF IInv
  <2>3. nextCurrencyId' >= nextCurrencyId
    BY <2>1 DEF IInv, TypeOK
  <2>4. LeftServerOnce' /\ LeftServer'
    BY <1>1, <2>1, <2>2, <2>3, NothingLeaves DEF IInv
  <2>5. PoolFresh'
    BY <2>1, HandleKeepsPool DEF IInv
  <2>6. QED
    BY <2>4, <2>5
<1>12. Kept
  BY <1>2, <1>3, <1>4, <1>5, <1>6, <1>7, <1>8, <1>9, <1>10, <1>11 DEF Next
<1>13. QED
  BY <1>1, <1>12 DEF IInv

\* what has left the server once is distinct where callers hold it
LEMMA HeldOnce == IInv => GrantsDistinct
<1> SUFFICES ASSUME IInv, NEW kd \in Kinds
             PROVE  DistinctGrants(kd)
  BY DEF GrantsDistinct
<1> SUFFICES ASSUME NEW g \in Grants(kd), NEW h \in Grants(kd), g # h,
                    ValueOf(g) # Undef, ValueOf(g) = ValueOf(h)
             PROVE  FALSE
  BY DEF DistinctGrants
<1>1. PICK c \in Callers : \E i \in DOMAIN got[c] : g = <<c, i>>
  BY DEF Grants
<1>2. PICK i \in DOMAIN got[c] : g = <<c, i>>
  BY <1>1
<1>a. PICK d \in Callers : \E j \in DOMAIN got[d] : h = <<d, j>>
  BY DEF Grants
<1>b. PICK j \in DOMAIN got[d] : h = <<d, j>>
  BY <1>a
<1>3. got[c][i].kind = kd /\ got[d][j].kind = kd
  BY <1>2, <1>b DEF Grants
<1>4. Same(got[c][i], got[d][j])
  BY <1>2, <1>b, <1>3 DEF Same, ValueOf
<1>5. c = d /\ i = j
  BY <1>4 DEF IInv, LeftServerOnce
<1>6. QED
  BY <1>2, <1>b, <1>5

(***************************************************************************)
(* No two calls of getSudoNonce, of getNextCandidateNum or of getTokenId   *)
(* resolve with the same number: for any number of processes, callers and  *)
(* calls, calls that overlap in one process, refills that overlap and      *)
(* refills that fail.                                                      *)
(***************************************************************************)
THEOREM NumbersServedOnce == Spec => []GrantsDistinct
<1>1. Init => IInv
  BY InitInv
<1>2. IInv /\ [Next]_vars => IInv'
  BY StepInv
<1>3. IInv => GrantsDistinct
  BY HeldOnce
<1>4. QED
  BY <1>1, <1>2, <1>3, PTL DEF Spec

-----------------------------------------------------------------------------
(***************************************************************************)
(* The abstract counter: what NoncesOf makes of a caller's results.        *)
(***************************************************************************)

LEMMA NonceIndicesType ==
  ASSUME NEW S, NEW s \in Seq(S)
  PROVE  /\ IsFiniteSet(NonceIndices(s)) /\ Cardinality(NonceIndices(s)) \in Nat
         /\ NonceIndices(s) \subseteq 1..Len(s)
<1>1. NonceIndices(s) \subseteq 1..Len(s) /\ Len(s) \in Nat
  BY DEF NonceIndices
<1>2. IsFiniteSet(1..Len(s))
  BY <1>1, FS_Interval
<1>3. IsFiniteSet(NonceIndices(s))
  BY <1>1, <1>2, FS_Subset
<1> QED
  BY <1>1, <1>3, FS_CardinalityType

LEMMA NoNoncesOfEmpty == NoncesOf(<<>>) = <<>>
<1>1. NonceIndices(<<>>) = {}
  BY DEF NonceIndices
<1>2. Cardinality(NonceIndices(<<>>)) = 0
  BY <1>1, FS_EmptySet
<1> QED
  BY <1>2 DEF NoncesOf

\* a result that carries no nonce
LEMMA NoncesOfOther ==
  ASSUME NEW S, NEW s \in Seq(S), NEW g \in S, g.kind # "getNonce"
  PROVE  NoncesOf(Append(s, g)) = NoncesOf(s)
<1> DEFINE t == Append(s, g)
<1>1. NonceIndices(t) = NonceIndices(s)
  BY DEF NonceIndices
<1>2. \A i \in NonceIndices(s) : t[i].value = s[i].value
  BY DEF NonceIndices
<1> HIDE DEF t
<1>3. \A i : Rank(t, i) = Rank(s, i)
  BY <1>1 DEF Rank
<1>4. \A n : {i \in NonceIndices(t) : Rank(t, i) = n}
             = {i \in NonceIndices(s) : Rank(s, i) = n}
  BY <1>1, <1>3
<1>5. ASSUME NEW n
      PROVE  {t[i].value : i \in {i \in NonceIndices(t) : Rank(t, i) = n}}
             = {s[i].value : i \in {i \in NonceIndices(s) : Rank(s, i) = n}}
  BY <1>2, <1>4
<1>6. \A n : NthNonce(t, n) = NthNonce(s, n)
  BY <1>5, Zenon DEF NthNonce
<1> QED
  BY <1>1, <1>6 DEF NoncesOf, t

\* a result that carries one
LEMMA NoncesOfNonce ==
  ASSUME NEW S, NEW s \in Seq(S), NEW g \in S, g.kind = "getNonce"
  PROVE  NoncesOf(Append(s, g)) = Append(NoncesOf(s), g.value)
<1> DEFINE t == Append(s, g)
           last == Len(s) + 1
           size == Cardinality(NonceIndices(s))
<1>1. /\ NonceIndices(t) = NonceIndices(s) \cup {last}
      /\ t[last] = g
      /\ \A i \in NonceIndices(s) : t[i] = s[i]
  BY DEF NonceIndices
<1>2. /\ IsFiniteSet(NonceIndices(s)) /\ size \in Nat /\ last \in Nat
      /\ \A i \in NonceIndices(s) : i \in Nat /\ i < last
  BY NonceIndicesType
<1> HIDE DEF t, last
<1>3. Cardinality(NonceIndices(t)) = size + 1
  <2>1. last \notin NonceIndices(s)
    BY <1>2
  <2> QED
    BY <1>1, <1>2, <2>1, FS_AddElement
<1>4. Rank(t, last) = size + 1
  <2>1. {j \in NonceIndices(t) : j <= last} = NonceIndices(t)
    BY <1>1, <1>2
  <2> QED
    BY <1>3, <2>1 DEF Rank
<1>5. ASSUME NEW i \in NonceIndices(s)
      PROVE  Rank(t, i) = Rank(s, i) /\ Rank(s, i) # size + 1
  <2>1. {j \in NonceIndices(t) : j <= i} = {j \in NonceIndices(s) : j <= i}
    BY <1>1, <1>2
  <2>2. {j \in NonceIndices(s) : j <= i} \in SUBSET NonceIndices(s)
    OBVIOUS
  <2>3. Rank(s, i) <= size
    BY <1>2, <2>2, FS_Subset DEF Rank
  <2>4. Rank(s, i) \in Nat
    <3>1. IsFiniteSet({j \in NonceIndices(s) : j <= i})
      BY <1>2, <2>2, FS_Subset
    <3> QED
      BY <3>1, FS_CardinalityType DEF Rank
  <2>5. Rank(t, i) = Rank(s, i)
    BY <2>1, Zenon DEF Rank
  <2>6. size \in Nat
    BY <1>2
  <2> HIDE DEF size
  <2>7. Rank(s, i) # size + 1
    BY <2>3, <2>4, <2>6
  <2> QED
    BY <2>5, <2>7
<1>6. ASSUME NEW n \in 1..size
      PROVE  NthNonce(t, n) = NthNonce(s, n)
  <2>1. n # size + 1
    BY <1>2
  <2>2. {i \in NonceIndices(t) : Rank(t, i) = n}
        = {i \in NonceIndices(s) : Rank(s, i) = n}
    BY <1>1, <1>4, <1>5, <2>1
  <2>3. {t[i].value : i \in {i \in NonceIndices(t) : Rank(t, i) = n}}
        = {s[i].value : i \in {i \in NonceIndices(s) : Rank(s, i) = n}}
    BY <1>1, <2>2
  <2> QED
    BY <2>3, Zenon DEF NthNonce
<1>7. NthNonce(t, size + 1) = g.value
  <2>1. {i \in NonceIndices(t) : Rank(t, i) = size + 1} = {last}
    BY <1>1, <1>4, <1>5
  <2>2. {t[i].value : i \in {i \in NonceIndices(t) : Rank(t, i) = size + 1}} = {g.value}
    BY <1>1, <2>1
  <2> QED
    BY <2>2 DEF NthNonce
<1> DEFINE V == {NthNonce(s, n) : n \in 1..size} \cup {g.value}
<1>8. NoncesOf(s) \in Seq(V) /\ Len(NoncesOf(s)) = size
  BY <1>2 DEF NoncesOf
<1>9. \A n \in 1..size : NoncesOf(s)[n] = NthNonce(s, n)
  BY DEF NoncesOf
<1>10. NoncesOf(t) = [n \in 1..size + 1 |-> NthNonce(t, n)]
  BY <1>3 DEF NoncesOf
<1>11. NoncesOf(t) = [n \in 1..size + 1 |-> IF n = size + 1 THEN g.value ELSE NoncesOf(s)[n]]
  <2>1. \A n \in 1..size + 1 : n # size + 1 => n \in 1..size
    BY <1>2
  <2> HIDE DEF size
  <2> QED
    BY <1>6, <1>7, <1>9, <1>10, <2>1
<1> HIDE DEF size, V
<1>12. g.value \in V
  BY DEF V
<1>13. Append(NoncesOf(s), g.value)
       = [n \in 1..size + 1 |-> IF n = size + 1 THEN g.value ELSE NoncesOf(s)[n]]
  BY <1>2, <1>8, <1>12
<1> QED
  BY <1>11, <1>13 DEF t

-----------------------------------------------------------------------------
(***************************************************************************)
(* The sockets: what is on them is addressed to a caller that listens,     *)
(* nobody uses them during the set-up, and Main asks for nonces only.      *)
(***************************************************************************)

LEMMA AskAddressed ==
  ASSUME TypeOK, Addressed, NEW c \in Callers, NEW k \in Kinds, Ask(c, k)
  PROVE  Addressed'
<1> DEFINE p == ProcOf[c]
<1>1. p \in Processes
  BY ProcOfType
<1>2. UNCHANGED <<wire, unsent, replies>> /\ pc' = [pc EXCEPT ![c] = "waiting"]
  BY DEF Ask, channel
<1>3. ASSUME NEW q \in Processes
      PROVE  /\ handlers'[q] = IF q = p THEN handlers[q] \cup {c} ELSE handlers[q]
             /\ configId'[q] = IF q = p THEN c ELSE configId[q]
             /\ q # p => conn'[q] = conn[q]
  BY <1>1 DEF Ask, TypeOK
<1>4. \A d \in Callers : pc'[d] = IF d = c THEN "waiting" ELSE pc[d]
  BY <1>2 DEF TypeOK
<1> SUFFICES ASSUME NEW q \in Processes
             PROVE  /\ \A d \in handlers'[q] : ProcOf[d] = q /\ pc'[d] = "waiting"
                    /\ conn'[q] = "connecting" => configId'[q] \in handlers'[q]
                    /\ \A i \in DOMAIN wire'[q] : wire'[q][i].id \in handlers'[q]
                    /\ \A i \in DOMAIN unsent'[q] : unsent'[q][i].id \in handlers'[q]
                    /\ \A i \in DOMAIN replies'[q] : replies'[q][i].id \in handlers'[q]
  BY DEF Addressed
<1>5. handlers[q] \subseteq Callers /\ \A d \in handlers[q] : ProcOf[d] = q /\ pc[d] = "waiting"
  BY DEF TypeOK, Addressed
<1>6. ASSUME NEW d \in handlers'[q]
      PROVE  ProcOf[d] = q /\ pc'[d] = "waiting"
  <2>1. CASE d \in handlers[q]
    BY <1>4, <1>5, <2>1
  <2>2. CASE d \notin handlers[q]
    <3>1. q = p /\ d = c
      BY <1>3, <2>2
    <3> QED
      BY <1>4, <3>1
  <2> QED
    BY <2>1, <2>2
<1>7. conn'[q] = "connecting" => configId'[q] \in handlers'[q]
  <2>1. CASE q = p
    BY <1>3, <2>1
  <2>2. CASE q # p
    <3>1. conn'[q] = conn[q] /\ configId'[q] = configId[q] /\ handlers'[q] = handlers[q]
      BY <1>3, <2>2
    <3> QED
      BY <3>1 DEF Addressed
  <2> QED
    BY <2>1, <2>2
<1> QED
  BY <1>2, <1>3, <1>6, <1>7 DEF Addressed

LEMMA ConnectAddressed ==
  ASSUME TypeOK, Addressed, Connecting, NEW p \in Processes, Connect(p)
  PROVE  Addressed'
<1> DEFINE emits == [i \in DOMAIN onConnect[p] |->
                       Request(kind[onConnect[p][i]], configId[p])]
<1>1. UNCHANGED <<handlers, configId, replies, pc>> /\ configId[p] \in handlers[p]
  BY DEF Connect, callers, Addressed
<1>2. onConnect[p] \in Seq(Callers) /\ onConnect[p] # <<>>
  BY DEF TypeOK, Connecting, Connect
<1>3. DOMAIN emits = 1 .. Len(onConnect[p]) /\ Len(onConnect[p]) \in Nat \ {0}
      /\ \A i \in DOMAIN emits : emits[i].id = configId[p]
  BY <1>2 DEF Request
<1>4. emits \in Seq({emits[i] : i \in DOMAIN emits}) /\ Len(emits) = Len(onConnect[p])
  BY <1>3
<1> HIDE DEF emits
<1>5. /\ emits # <<>>
      /\ \A i \in DOMAIN <<Head(emits)>> : <<Head(emits)>>[i].id = configId[p]
      /\ \A i \in DOMAIN Tail(emits) : Tail(emits)[i].id = configId[p]
  BY <1>3, <1>4
<1>6. ASSUME NEW q \in Processes
      PROVE  /\ conn'[q] = IF q = p THEN "open" ELSE conn[q]
             /\ q # p => wire'[q] = wire[q] /\ unsent'[q] = unsent[q]
  BY DEF Connect, TypeOK
<1>7. /\ wire'[p] = emits \/ wire'[p] = <<Head(emits)>>
      /\ unsent'[p] = unsent[p] \/ unsent'[p] = Tail(emits)
  BY DEF Connect, TypeOK, emits
<1>8. /\ \A i \in DOMAIN wire'[p] : wire'[p][i].id \in handlers[p]
      /\ \A i \in DOMAIN unsent'[p] : unsent'[p][i].id \in handlers[p]
  BY <1>1, <1>3, <1>5, <1>7 DEF Addressed
<1> QED
  BY <1>1, <1>6, <1>8 DEF Addressed

LEMMA ServeAddressed ==
  ASSUME TypeOK, Addressed, NEW p \in Processes, Serve(p)
  PROVE  Addressed'
<1>a. PICK m : m = Head(wire[p])
  OBVIOUS
<1>1. /\ wire[p] \in Seq(Requests) /\ wire[p] # <<>> /\ replies[p] \in Seq(Replies)
      /\ replies \in [Processes -> Seq(Replies)] /\ wire \in [Processes -> Seq(Requests)]
  BY DEF TypeOK, Serve
<1>2. UNCHANGED <<conn, configId, handlers, unsent>>
  BY DEF Serve, sockets
<1>3. m.id \in handlers[p] /\ m.kind \in Kinds
  <2>1. 1 \in DOMAIN wire[p] /\ wire[p][1] = m /\ m \in Requests
    BY <1>1, <1>a
  <2> QED
    BY <2>1 DEF Addressed, Requests
<1>b. PICK r : r = Reply(m.kind, m.id, Answer(m.kind))
  OBVIOUS
<1>4. /\ wire' = [wire EXCEPT ![p] = Tail(@)]
      /\ replies' = [replies EXCEPT ![p] = Append(@, r)]
  BY <1>a, <1>b DEF Serve
<1>5. \A i \in DOMAIN Tail(wire[p]) : Tail(wire[p])[i].id \in handlers[p]
  <2>1. \A i \in DOMAIN Tail(wire[p]) : i + 1 \in DOMAIN wire[p] /\ Tail(wire[p])[i] = wire[p][i + 1]
    BY <1>1
  <2> QED
    BY <2>1 DEF Addressed
<1>6. \A i \in DOMAIN Append(replies[p], r) : Append(replies[p], r)[i].id \in handlers[p]
  <2>1. r.id = m.id
    BY <1>b DEF Reply
  <2>2. \A i \in DOMAIN Append(replies[p], r) :
          \/ i \in DOMAIN replies[p] /\ Append(replies[p], r)[i] = replies[p][i]
          \/ Append(replies[p], r)[i] = r
    BY <1>1
  <2> QED
    BY <1>3, <2>1, <2>2 DEF Addressed
<1>7. \A c \in Callers : pc[c] = "waiting" => pc'[c] = "waiting"
  <2>1. Handle(m.kind)
    BY <1>a DEF Serve
  <2> QED
    BY <2>1 DEF Handle, HandleGetNonce, HandleGetCandidate, HandleGetTokenId,
                StartRefill, TypeOK
<1>8. ASSUME NEW q \in Processes
      PROVE  /\ q # p => wire'[q] = wire[q] /\ replies'[q] = replies[q]
             /\ q = p => wire'[q] = Tail(wire[q]) /\ replies'[q] = Append(replies[q], r)
  BY <1>1, <1>4
<1> SUFFICES ASSUME NEW q \in Processes
             PROVE  /\ \A d \in handlers'[q] : ProcOf[d] = q /\ pc'[d] = "waiting"
                    /\ conn'[q] = "connecting" => configId'[q] \in handlers'[q]
                    /\ \A i \in DOMAIN wire'[q] : wire'[q][i].id \in handlers'[q]
                    /\ \A i \in DOMAIN unsent'[q] : unsent'[q][i].id \in handlers'[q]
                    /\ \A i \in DOMAIN replies'[q] : replies'[q][i].id \in handlers'[q]
  BY DEF Addressed
<1>9. \A d \in handlers'[q] : ProcOf[d] = q /\ pc'[d] = "waiting"
  BY <1>2, <1>7 DEF Addressed, TypeOK
<1> QED
  BY <1>2, <1>5, <1>6, <1>8, <1>9 DEF Addressed

LEMMA ResolveAddressed ==
  ASSUME TypeOK, Addressed, NEW p \in Processes, Resolve(p)
  PROVE  Addressed'
<1>a. PICK m : m = Head(replies[p])
  OBVIOUS
<1>1. /\ m.id \in handlers[p] /\ UNCHANGED configId
      /\ pc' = [pc EXCEPT ![m.id] = IF m.id \in Refills THEN "finalizing" ELSE "idle"]
  BY <1>a DEF Resolve
<1>2. ASSUME NEW q \in Processes
      PROVE  /\ q # p => /\ conn'[q] = conn[q] /\ handlers'[q] = handlers[q]
                         /\ unsent'[q] = unsent[q] /\ wire'[q] = wire[q]
                         /\ replies'[q] = replies[q]
             /\ q = p => /\ conn'[q] = "closed" /\ handlers'[q] = {}
                         /\ unsent'[q] = <<>> /\ wire'[q] = <<>> /\ replies'[q] = <<>>
  BY DEF Resolve, TypeOK
<1>3. ASSUME NEW q \in Processes, q # p, NEW d \in handlers[q]
      PROVE  pc'[d] = "waiting"
  <2>1. ProcOf[d] = q /\ ProcOf[m.id] = p /\ pc[d] = "waiting" /\ d \in Callers
    BY <1>1, <1>3 DEF Addressed, TypeOK
  <2>2. d # m.id
    BY <1>3, <2>1
  <2> QED
    BY <1>1, <2>1, <2>2 DEF TypeOK
<1> QED
  BY <1>1, <1>2, <1>3 DEF Addressed

LEMMA IgnoreAddressed ==
  ASSUME TypeOK, Addressed, NEW p \in Processes, Ignore(p)
  PROVE  Addressed'
<1>1. /\ wire[p] \in Seq(Requests) /\ unsent[p] \in Seq(Requests)
      /\ replies[p] \in Seq(Replies) /\ replies[p] # <<>>
      /\ UNCHANGED <<conn, configId, handlers, pc>>
  BY DEF TypeOK, Ignore, callers
<1>2. ASSUME NEW q \in Processes, q # p
      PROVE  wire'[q] = wire[q] /\ unsent'[q] = unsent[q] /\ replies'[q] = replies[q]
  BY <1>2 DEF Ignore, TypeOK
<1>3. \A i \in DOMAIN replies'[p] : replies'[p][i].id \in handlers[p]
  <2>1. replies'[p] = Tail(replies[p])
    BY DEF Ignore, TypeOK
  <2>2. \A i \in DOMAIN Tail(replies[p]) :
          i + 1 \in DOMAIN replies[p] /\ Tail(replies[p])[i] = replies[p][i + 1]
    BY <1>1
  <2> QED
    BY <2>1, <2>2 DEF Addressed
<1>4. /\ \A i \in DOMAIN wire'[p] : wire'[p][i].id \in handlers[p]
      /\ \A i \in DOMAIN unsent'[p] : unsent'[p][i].id \in handlers[p]
  <2>1. CASE unsent[p] = <<>>
    <3>1. wire'[p] = wire[p] /\ unsent'[p] = unsent[p]
      BY <2>1 DEF Ignore
    <3> QED
      BY <3>1 DEF Addressed
  <2>2. CASE unsent[p] # <<>>
    <3>1. wire'[p] = Append(wire[p], Head(unsent[p])) /\ unsent'[p] = Tail(unsent[p])
      BY <2>2 DEF Ignore, TypeOK
    <3>2. 1 \in DOMAIN unsent[p] /\ Head(unsent[p]) = unsent[p][1]
      BY <1>1, <2>2
    <3>3. \A i \in DOMAIN Tail(unsent[p]) :
            i + 1 \in DOMAIN unsent[p] /\ Tail(unsent[p])[i] = unsent[p][i + 1]
      BY <1>1, <2>2
    <3>4. \A i \in DOMAIN Append(wire[p], Head(unsent[p])) :
            \/ i \in DOMAIN wire[p] /\ Append(wire[p], Head(unsent[p]))[i] = wire[p][i]
            \/ Append(wire[p], Head(unsent[p]))[i] = Head(unsent[p])
      BY <1>1
    <3> QED
      BY <3>1, <3>2, <3>3, <3>4 DEF Addressed
  <2> QED
    BY <2>1, <2>2
<1> QED
  BY <1>1, <1>2, <1>3, <1>4 DEF Addressed

\* a step that leaves the sockets alone and drops no waiting call
LEMMA FrameAddressed ==
  ASSUME TypeOK, Addressed, UNCHANGED <<conn, configId, handlers, unsent, wire, replies>>,
         \A c \in Callers : pc[c] = "waiting" => pc'[c] = "waiting"
  PROVE  Addressed'
  BY DEF Addressed, TypeOK

LEMMA StepAddressed ==
  ASSUME TypeOK, Connecting, Addressed, [Next]_vars
  PROVE  Addressed'
<1>1. ASSUME NEW t \in Tests, NEW k \in Kinds, TestAsks(t, k)
      PROVE  Addressed'
  BY <1>1, AskAddressed DEF TestAsks, Callers
<1>2. ASSUME NEW r \in Refills, RefillAsks(r)
      PROVE  Addressed'
  <2>1. "getNonce" \in Kinds /\ r \in Callers
    BY DEF Kinds, Callers
  <2> QED
    BY <1>2, <2>1, AskAddressed DEF RefillAsks
<1>3. ASSUME NEW r \in Refills, Registered(r) \/ Refilled(r) \/ RefillFails(r)
      PROVE  Addressed'
  <2>1. \A c \in Callers : pc[c] = "waiting" => pc'[c] = "waiting"
    BY <1>3 DEF Registered, Refilled, RefillFails, TypeOK
  <2> QED
    BY <1>3, <2>1, FrameAddressed DEF Registered, Refilled, RefillFails, sockets, channel
<1>4. ASSUME NEW k \in Kinds, ServeOrphan(k)
      PROVE  Addressed'
  <2>1. \A c \in Callers : pc[c] = "waiting" => pc'[c] = "waiting"
    BY <1>4 DEF ServeOrphan, Handle, HandleGetNonce, HandleGetCandidate, HandleGetTokenId,
                StartRefill, TypeOK
  <2> QED
    BY <1>4, <2>1, FrameAddressed DEF ServeOrphan, sockets
<1>5. CASE SetupGasLess \/ SetupAssets \/ UNCHANGED vars
  BY <1>5, FrameAddressed DEF SetupGasLess, SetupAssets, vars, sockets, channel, callers
<1> QED
  BY <1>1, <1>2, <1>3, <1>4, <1>5, ConnectAddressed, ServeAddressed, ResolveAddressed,
     IgnoreAddressed DEF Next

\* during the set-up nothing but the set-up happens
LEMMA OnlySetup ==
  ASSUME TypeOK, SettingUp, setup # "ready", Next
  PROVE  SetupGasLess \/ SetupAssets
<1>1. /\ \A c \in Callers : pc[c] = "idle"
      /\ \A k \in Kinds : orphans[k] = 0
      /\ \A p \in Processes : conn[p] = "closed" /\ wire[p] = <<>> /\ replies[p] = <<>>
  BY DEF SettingUp
<1>2. ~ \E t \in Tests, k \in Kinds : TestAsks(t, k)
  BY DEF TestAsks
<1>3. ~ \E r \in Refills : RefillAsks(r) \/ Registered(r) \/ Refilled(r) \/ RefillFails(r)
  BY <1>1 DEF RefillAsks, Registered, Refilled, RefillFails, Callers
<1>4. ~ \E p \in Processes : Connect(p) \/ Serve(p) \/ Resolve(p) \/ Ignore(p)
  BY <1>1 DEF Connect, Serve, Resolve, Ignore
<1>5. ~ \E k \in Kinds : ServeOrphan(k)
  BY <1>1 DEF ServeOrphan
<1> QED
  BY <1>2, <1>3, <1>4, <1>5 DEF Next

LEMMA StepSettingUp ==
  ASSUME TypeOK, SettingUp, [Next]_vars
  PROVE  SettingUp'
<1>1. CASE UNCHANGED vars
  BY <1>1 DEF vars, SettingUp, server, sockets, channel, callers
<1>2. CASE Next /\ setup # "ready"
  <2>1. SetupGasLess \/ SetupAssets
    BY <1>2, OnlySetup
  <2>2. UNCHANGED sockets /\ UNCHANGED channel /\ UNCHANGED callers
    BY <2>1 DEF SetupGasLess, SetupAssets
  <2>3. UNCHANGED <<pc, orphans, conn, wire, replies>>
    BY <2>2 DEF sockets, channel, callers
  <2>4. CASE SetupGasLess
    BY <1>2, <2>3, <2>4, CounterAssumption DEF SetupGasLess, SettingUp
  <2>5. CASE SetupAssets
    BY <1>2, <2>3, <2>5 DEF SetupAssets, SettingUp
  <2> QED
    BY <2>1, <2>4, <2>5
<1>3. CASE Next /\ setup = "ready"
  <2>1. setup' = "ready"
    BY <1>3 DEF Next, SetupGasLess, SetupAssets, TestAsks, RefillAsks, Ask, Registered, Refilled,
                RefillFails, Connect, Serve, Resolve, Ignore, ServeOrphan
  <2> QED
    BY <2>1 DEF SettingUp
<1> QED
  BY <1>1, <1>2, <1>3

\* whoever uses Main's socket is a refill
LEMMA MainCallers == \A c \in Callers : ProcOf[c] = Main => c \in Refills
  BY ProcessAssumption DEF Callers

LEMMA MainListens ==
  ASSUME TypeOK, Addressed, MainSocket
  PROVE  /\ Main \in Processes
         /\ \A c \in handlers[Main] :
              c \in Refills /\ pc[c] = "waiting" /\ kind[c] = "getNonce"
<1>1. Main \in Processes
  BY DEF Processes
<1> QED
  BY <1>1, MainCallers DEF TypeOK, Addressed, MainSocket

LEMMA AskMainSocket ==
  ASSUME TypeOK, MainSocket, NEW c \in Callers, NEW k \in Kinds, Ask(c, k),
         c \in Refills => k = "getNonce"
  PROVE  MainSocket'
<1> DEFINE p == ProcOf[c]
<1>1. p \in Processes /\ Main \in Processes
  BY ProcOfType DEF Processes
<1>2. UNCHANGED <<wire, unsent, replies>>
  BY DEF Ask, channel
<1>3. \A r \in Refills : kind'[r] = "getNonce"
  BY DEF Ask, TypeOK, MainSocket, Callers
<1>4. conn'[Main] = "open" => conn[Main] = "open"
  BY <1>1 DEF Ask, TypeOK
<1>5. ASSUME NEW q \in Processes, NEW i \in DOMAIN onConnect'[q]
      PROVE  ProcOf[onConnect'[q][i]] = q
  <2>1. onConnect[q] \in Seq(Callers)
    BY DEF TypeOK
  <2>2. onConnect'[q] = onConnect[q] \/ (q = p /\ onConnect'[q] = Append(onConnect[q], c))
    BY <1>1 DEF Ask, TypeOK
  <2>3. \/ i \in DOMAIN onConnect[q] /\ onConnect'[q][i] = onConnect[q][i]
        \/ q = p /\ onConnect'[q][i] = c
    BY <1>5, <2>1, <2>2
  <2> QED
    BY <2>3 DEF MainSocket
<1> QED
  BY <1>2, <1>3, <1>4, <1>5 DEF MainSocket

LEMMA ConnectMainSocket ==
  ASSUME TypeOK, Connecting, MainSocket, NEW p \in Processes, Connect(p)
  PROVE  MainSocket'
<1>1. UNCHANGED <<replies, kind>> /\ Main \in Processes
  BY DEF Connect, callers, Processes
<1>2. \A q \in Processes : \A i \in DOMAIN onConnect'[q] : ProcOf[onConnect'[q][i]] = q
  <2>1. \A q \in Processes : q # p => onConnect'[q] = onConnect[q]
    BY DEF Connect, TypeOK
  <2>2. onConnect'[p] = <<>>
    BY DEF Connect, TypeOK
  <2> QED
    BY <2>1, <2>2 DEF MainSocket
<1>3. CASE p # Main
  <2>1. wire'[Main] = wire[Main] /\ unsent'[Main] = unsent[Main] /\ conn'[Main] = conn[Main]
    BY <1>1, <1>3 DEF Connect, TypeOK
  <2> QED
    BY <1>1, <1>2, <2>1 DEF MainSocket
<1>4. CASE p = Main
  <2> DEFINE emits == [i \in DOMAIN onConnect[p] |->
                         Request(kind[onConnect[p][i]], configId[p])]
  <2>1. onConnect[p] \in Seq(Callers) /\ onConnect[p] # <<>>
    BY DEF TypeOK, Connecting, Connect
  <2>2. ASSUME NEW i \in DOMAIN onConnect[p]
        PROVE  emits[i].kind = "getNonce"
    <3>1. ProcOf[onConnect[p][i]] = Main /\ onConnect[p][i] \in Callers
      BY <1>4, <2>1 DEF MainSocket
    <3>2. kind[onConnect[p][i]] = "getNonce"
      BY <3>1, MainCallers DEF MainSocket
    <3> QED
      BY <3>2 DEF Request
  <2>3. DOMAIN emits = 1 .. Len(onConnect[p]) /\ Len(onConnect[p]) \in Nat \ {0}
    BY <2>1
  <2>4. wire'[Main] = <<Head(emits)>> /\ unsent'[Main] = Tail(emits)
    BY <1>4 DEF Connect, TypeOK
  <2>5. \A i \in DOMAIN emits : emits[i].kind = "getNonce"
    BY <2>2
  <2>6. emits \in Seq({emits[i] : i \in DOMAIN emits}) /\ Len(emits) = Len(onConnect[p])
    BY <2>3
  <2> HIDE DEF emits
  <2>7. /\ \A i \in DOMAIN <<Head(emits)>> : <<Head(emits)>>[i].kind = "getNonce"
        /\ \A i \in DOMAIN Tail(emits) : Tail(emits)[i].kind = "getNonce"
        /\ <<Head(emits)>> # <<>>
    BY <2>3, <2>5, <2>6
  <2> QED
    BY <1>1, <1>2, <2>4, <2>7 DEF MainSocket
<1> QED
  BY <1>3, <1>4

LEMMA ServeMainSocket ==
  ASSUME TypeOK, MainSocket, NEW p \in Processes, Serve(p)
  PROVE  MainSocket'
<1>1. UNCHANGED <<conn, onConnect, unsent, kind>> /\ Main \in Processes
  BY DEF Serve, sockets, Processes
<1>2. CASE p # Main
  <2>1. wire'[Main] = wire[Main] /\ replies'[Main] = replies[Main]
    BY <1>1, <1>2 DEF Serve, TypeOK
  <2> QED
    BY <1>1, <2>1 DEF MainSocket
<1>3. CASE p = Main
  <2>a. PICK m : m = Head(wire[p])
    OBVIOUS
  <2>b. PICK r : r = Reply(m.kind, m.id, Answer(m.kind))
    OBVIOUS
  <2>1. wire[p] \in Seq(Requests) /\ wire[p] # <<>> /\ replies[p] \in Seq(Replies)
    BY DEF TypeOK, Serve
  <2>2. wire'[p] = Tail(wire[p]) /\ replies'[p] = Append(replies[p], r)
    BY <2>a, <2>b DEF Serve, TypeOK
  <2>3. r.kind = "getNonce"
    <3>1. 1 \in DOMAIN wire[p] /\ wire[p][1] = m
      BY <2>a, <2>1
    <3> QED
      BY <1>3, <2>b, <3>1 DEF MainSocket, Reply
  <2>4. \A i \in DOMAIN Tail(wire[p]) : i + 1 \in DOMAIN wire[p] /\ Tail(wire[p])[i] = wire[p][i + 1]
    BY <2>1
  <2>5. \A i \in DOMAIN Append(replies[p], r) :
          \/ i \in DOMAIN replies[p] /\ Append(replies[p], r)[i] = replies[p][i]
          \/ Append(replies[p], r)[i] = r
    BY <2>1
  <2>6. Append(replies[p], r) # <<>>
    BY <2>1
  <2> QED
    BY <1>1, <1>3, <2>2, <2>3, <2>4, <2>5, <2>6 DEF MainSocket
<1> QED
  BY <1>2, <1>3

LEMMA ResolveMainSocket ==
  ASSUME TypeOK, MainSocket, NEW p \in Processes, Resolve(p)
  PROVE  MainSocket'
<1>1. UNCHANGED <<onConnect, kind>> /\ Main \in Processes
  BY DEF Resolve, Processes
<1>2. CASE p # Main
  <2>1. /\ wire'[Main] = wire[Main] /\ replies'[Main] = replies[Main]
        /\ unsent'[Main] = unsent[Main] /\ conn'[Main] = conn[Main]
    BY <1>1, <1>2 DEF Resolve, TypeOK
  <2> QED
    BY <1>1, <2>1 DEF MainSocket
<1>3. CASE p = Main
  <2>1. /\ wire'[Main] = <<>> /\ replies'[Main] = <<>>
        /\ unsent'[Main] = <<>> /\ conn'[Main] = "closed"
    BY <1>1, <1>3 DEF Resolve, TypeOK
  <2> QED
    BY <1>1, <2>1 DEF MainSocket
<1> QED
  BY <1>2, <1>3

\* nothing on Main's socket is ignored
LEMMA MainIgnoresNothing ==
  ASSUME TypeOK, Addressed, MainSocket
  PROVE  ~ Ignore(Main)
<1> SUFFICES ASSUME Ignore(Main)
             PROVE  FALSE
  OBVIOUS
<1>1. Main \in Processes /\ replies[Main] \in Seq(Replies) /\ replies[Main] # <<>>
  BY DEF Processes, TypeOK, Ignore
<1>2. 1 \in DOMAIN replies[Main] /\ Head(replies[Main]) = replies[Main][1]
  BY <1>1
<1>3. replies[Main][1].id \in handlers[Main] /\ replies[Main][1].kind = "getNonce"
  BY <1>1, <1>2 DEF Addressed, MainSocket
<1>4. kind[replies[Main][1].id] = "getNonce"
  BY <1>3, MainListens
<1> QED
  BY <1>2, <1>3, <1>4 DEF Ignore

LEMMA StepMainSocket ==
  ASSUME TypeOK, Connecting, Addressed, MainSocket, [Next]_vars
  PROVE  MainSocket'
<1>1. ASSUME NEW t \in Tests, NEW k \in Kinds, TestAsks(t, k)
      PROVE  MainSocket'
  <2>1. t \in Callers /\ t \notin Refills
    BY ProcessAssumption DEF Callers
  <2> QED
    BY <1>1, <2>1, AskMainSocket DEF TestAsks
<1>2. ASSUME NEW r \in Refills, RefillAsks(r)
      PROVE  MainSocket'
  <2>1. "getNonce" \in Kinds /\ r \in Callers
    BY DEF Kinds, Callers
  <2> QED
    BY <1>2, <2>1, AskMainSocket DEF RefillAsks
<1>3. ASSUME NEW p \in Processes, Ignore(p)
      PROVE  MainSocket'
  <2>1. p # Main /\ Main \in Processes
    BY <1>3, MainIgnoresNothing DEF Processes
  <2>2. wire'[Main] = wire[Main] /\ unsent'[Main] = unsent[Main] /\ replies'[Main] = replies[Main]
    BY <1>3, <2>1 DEF Ignore, TypeOK
  <2> QED
    BY <1>3, <2>1, <2>2 DEF Ignore, MainSocket, callers
<1>4. ASSUME UNCHANGED <<conn, onConnect, unsent, wire, replies, kind>>
      PROVE  MainSocket'
  BY <1>4 DEF MainSocket
<1>5. ASSUME \/ SetupGasLess \/ SetupAssets
             \/ \E r \in Refills : Registered(r) \/ Refilled(r) \/ RefillFails(r)
             \/ \E k \in Kinds : ServeOrphan(k)
             \/ UNCHANGED vars
      PROVE  MainSocket'
  BY <1>4, <1>5 DEF SetupGasLess, SetupAssets, Registered, Refilled, RefillFails, ServeOrphan, vars,
                    sockets, channel, callers
<1> QED
  BY <1>1, <1>2, <1>3, <1>5, ConnectMainSocket, ServeMainSocket, ResolveMainSocket DEF Next

-----------------------------------------------------------------------------
(***************************************************************************)
(* An empty pool is being refilled.                                        *)
(***************************************************************************)

\* The inductive invariant behind the refinement and the refilling of the pool.
SInv == IInv /\ Addressed /\ SettingUp /\ MainSocket

LEMMA InitSInv == Init => SInv
<1> SUFFICES ASSUME Init
             PROVE  SInv
  OBVIOUS
<1>1. Addressed
  BY DEF Init, Addressed
<1>2. SettingUp
  BY DEF Init, SettingUp
<1>3. MainSocket
  BY DEF Init, MainSocket, Processes, Callers
<1> QED
  BY <1>1, <1>2, <1>3, InitInv DEF SInv

LEMMA StepSInv == SInv /\ [Next]_vars => SInv'
<1> SUFFICES ASSUME SInv, [Next]_vars
             PROVE  SInv'
  OBVIOUS
<1>1. IInv'
  BY StepInv DEF SInv
<1>2. Addressed' /\ SettingUp' /\ MainSocket'
  BY StepAddressed, StepSettingUp, StepMainSocket DEF SInv, IInv
<1> QED
  BY <1>1, <1>2 DEF SInv

\* an empty pool has a refill at work, or an exchange of Main under way
AtWork ==
  Backend /\ setup = "ready" /\ assetIds = <<>> =>
    conn[Main] # "closed" \/ \E r \in Refills :
           pc[r] \in {"starting", "finalizing", "registered", "failed"}

\* Main's exchange answers a refill
LEMMA MainAnswers ==
  ASSUME SInv, conn[Main] # "closed"
  PROVE  \E r \in Refills : WillBeAnswered(r)
<1>1. /\ Main \in Processes
      /\ \A c \in handlers[Main] : /\ c \in Refills /\ pc[c] = "waiting"
                                   /\ kind[c] = "getNonce" /\ ProcOf[c] = Main
  BY MainListens DEF SInv, IInv, Addressed
<1>2. conn[Main] \in {"connecting", "open"}
  BY <1>1 DEF SInv, IInv, TypeOK
<1>3. CASE conn[Main] = "connecting"
  <2>1. configId[Main] \in handlers[Main]
    BY <1>1, <1>3 DEF SInv, Addressed
  <2> QED
    BY <1>1, <1>3, <2>1 DEF WillBeAnswered
<1>4. CASE conn[Main] = "open" /\ wire[Main] # <<>>
  <2>1. wire[Main] \in Seq(Requests)
    BY <1>1 DEF SInv, IInv, TypeOK
  <2>2. 1 \in DOMAIN wire[Main]
    BY <1>4, <2>1
  <2>3. wire[Main][1].id \in handlers[Main] /\ wire[Main][1].kind = "getNonce"
    BY <1>1, <2>2 DEF SInv, Addressed, MainSocket
  <2> QED
    BY <1>1, <2>2, <2>3 DEF WillBeAnswered
<1>5. CASE conn[Main] = "open" /\ replies[Main] # <<>>
  <2>1. replies[Main] \in Seq(Replies)
    BY <1>1 DEF SInv, IInv, TypeOK
  <2>2. 1 \in DOMAIN replies[Main]
    BY <1>5, <2>1
  <2>3. replies[Main][1].id \in handlers[Main] /\ replies[Main][1].kind = "getNonce"
    BY <1>1, <2>2 DEF SInv, Addressed, MainSocket
  <2> QED
    BY <1>1, <2>2, <2>3 DEF WillBeAnswered
<1> QED
  BY <1>2, <1>3, <1>4, <1>5 DEF SInv, MainSocket

LEMMA HandleAtWork ==
  ASSUME TypeOK, AtWork, NEW k \in Kinds, Handle(k), UNCHANGED <<setup, conn>>
  PROVE  AtWork'
<1>1. CASE k # "getTokenId"
  BY <1>1 DEF Handle, HandleGetNonce, HandleGetCandidate, AtWork
<1>2. CASE k = "getTokenId" /\ Len(assetIds) <= 1
  <2>1. \E r \in Refills : pc'[r] = "starting"
    BY <1>2 DEF Handle, HandleGetTokenId, StartRefill, Callers
  <2> QED
    BY <2>1 DEF AtWork
<1>3. CASE k = "getTokenId" /\ ~ (Len(assetIds) <= 1)
  <2>1. assetIds \in Seq(Nat) /\ assetIds' = SubSeq(assetIds, 1, Len(assetIds) - 1)
    BY <1>3 DEF Handle, HandleGetTokenId, TypeOK
  <2>2. Len(assetIds) - 1 \in 1 .. Len(assetIds)
    BY <1>3, <2>1
  <2>3. Len(assetIds') = Len(assetIds) - 1
    BY <2>1, <2>2
  <2>4. assetIds' # <<>>
    BY <2>2, <2>3
  <2> QED
    BY <2>4 DEF AtWork
<1> QED
  BY <1>1, <1>2, <1>3

LEMMA BatchNotEmpty == \A first \in Nat : RegisteredIds(first) # <<>>
<1> SUFFICES ASSUME NEW first \in Nat
             PROVE  RegisteredIds(first) # <<>>
  OBVIOUS
<1>1. 1 \in DOMAIN RegisteredIds(first)
  BY CounterAssumption DEF RegisteredIds
<1> QED
  BY <1>1

\* a batch that the chain has registered has ids
LEMMA StepStocked ==
  ASSUME SInv, Stocked, [Next]_vars
  PROVE  Stocked'
<1>1. /\ pc \in [Callers -> Statuses] /\ batch \in [Refills -> Seq(Nat)]
      /\ nextCurrencyId \in Nat /\ Refills \subseteq Callers
  BY DEF SInv, IInv, TypeOK, Callers
<1>2. ASSUME UNCHANGED batch,
             \A r \in Refills : pc'[r] = "registered" => pc[r] = "registered"
      PROVE  Stocked'
  BY <1>2 DEF Stocked
<1>3. ASSUME NEW c \in Callers, NEW k \in Kinds, Ask(c, k)
      PROVE  Stocked'
  BY <1>1, <1>2, <1>3 DEF Ask
<1>4. ASSUME NEW t \in Tests, NEW k \in Kinds, TestAsks(t, k)
      PROVE  Stocked'
  BY <1>3, <1>4 DEF TestAsks, Callers
<1>5. ASSUME NEW r \in Refills, RefillAsks(r)
      PROVE  Stocked'
  BY <1>3, <1>5 DEF RefillAsks, Callers, Kinds
<1>6. ASSUME NEW r \in Refills, Registered(r)
      PROVE  Stocked'
  <2>1. batch'[r] # <<>>
    BY <1>1, <1>6, BatchNotEmpty DEF Registered
  <2>2. \A q \in Refills : q # r => batch'[q] = batch[q] /\ pc'[q] = pc[q]
    BY <1>1, <1>6 DEF Registered
  <2> QED
    BY <2>1, <2>2 DEF Stocked
<1>7. ASSUME NEW r \in Refills, Refilled(r)
      PROVE  Stocked'
  <2>1. pc'[r] = "idle"
    BY <1>1, <1>7 DEF Refilled
  <2>2. \A q \in Refills : q # r => batch'[q] = batch[q] /\ pc'[q] = pc[q]
    BY <1>1, <1>7 DEF Refilled
  <2> QED
    BY <2>1, <2>2 DEF Stocked
<1>8. ASSUME NEW r \in Refills, RefillFails(r)
      PROVE  Stocked'
  BY <1>1, <1>2, <1>8 DEF RefillFails
<1>9. ASSUME NEW k, Handle(k), UNCHANGED batch
      PROVE  Stocked'
  BY <1>1, <1>2, <1>9 DEF Handle, HandleGetNonce, HandleGetCandidate, HandleGetTokenId,
                          StartRefill
<1>10. ASSUME NEW p \in Processes, Resolve(p)
       PROVE  Stocked'
  <2>1. UNCHANGED batch
    BY <1>10 DEF Resolve
  <2>2. \A r \in Refills : pc'[r] \in {pc[r], "finalizing", "idle"}
    BY <1>1, <1>10 DEF Resolve
  <2> QED
    BY <1>2, <2>1, <2>2
<1>11. CASE \/ SetupGasLess \/ SetupAssets \/ UNCHANGED vars
            \/ \E p \in Processes : Connect(p) \/ Ignore(p)
  BY <1>11 DEF SetupGasLess, SetupAssets, Connect, Ignore, vars, callers, Stocked
<1>12. ASSUME NEW p \in Processes, Serve(p)
       PROVE  Stocked'
  BY <1>9, <1>12 DEF Serve
<1>13. ASSUME NEW k \in Kinds, ServeOrphan(k)
       PROVE  Stocked'
  BY <1>9, <1>13 DEF ServeOrphan
<1> QED
  BY <1>4, <1>5, <1>6, <1>7, <1>8, <1>10, <1>11, <1>12, <1>13 DEF Next

LEMMA StepAtWork ==
  ASSUME SInv, Stocked, AtWork, [Next]_vars
  PROVE  AtWork'
<1>0. Main \in Processes /\ conn \in [Processes -> {"closed", "connecting", "open"}]
      /\ pc \in [Callers -> Statuses]
  BY DEF Processes, SInv, IInv, TypeOK
<1>1. ASSUME NEW c \in Callers, NEW k \in Kinds, Ask(c, k),
             ProcOf[c] # Main => c \notin Refills
      PROVE  AtWork'
  <2>1. UNCHANGED <<setup, assetIds>>
    BY <1>1 DEF Ask, server
  <2>2. CASE ProcOf[c] = Main
    <3>1. conn'[Main] # "closed"
      BY <1>0, <1>1, <2>2 DEF Ask
    <3> QED
      BY <3>1 DEF AtWork
  <2>3. CASE ProcOf[c] # Main
    <3>1. conn'[Main] = conn[Main] /\ \A r \in Refills : pc'[r] = pc[r]
      BY <1>0, <1>1, <2>3 DEF Ask, Callers
    <3> QED
      BY <2>1, <3>1 DEF AtWork
  <2> QED
    BY <2>2, <2>3
<1>2. ASSUME NEW t \in Tests, NEW k \in Kinds, TestAsks(t, k)
      PROVE  AtWork'
  <2>1. t \in Callers /\ t \notin Refills
    BY ProcessAssumption DEF Callers
  <2> QED
    BY <1>1, <1>2, <2>1 DEF TestAsks
<1>3. ASSUME NEW r \in Refills, RefillAsks(r)
      PROVE  AtWork'
  <2>1. r \in Callers /\ "getNonce" \in Kinds /\ ProcOf[r] = Main
    BY ProcessAssumption DEF Callers, Kinds
  <2> QED
    BY <1>1, <1>3, <2>1 DEF RefillAsks
<1>4. ASSUME NEW r \in Refills, Refilled(r)
      PROVE  AtWork'
  <2>1. assetIds' # <<>>
    BY <1>4 DEF Refilled, Stocked
  <2> QED
    BY <2>1 DEF AtWork
<1>5. ASSUME NEW r \in Refills, Registered(r) \/ RefillFails(r)
      PROVE  AtWork'
  <2>1. pc'[r] \in {"registered", "failed"}
    BY <1>0, <1>5 DEF Registered, RefillFails, Callers
  <2> QED
    BY <2>1 DEF AtWork
<1>6. CASE SetupGasLess
  BY <1>6 DEF SetupGasLess, AtWork
<1>7. CASE SetupAssets
  <2>1. Backend => assetIds' # <<>>
    BY <1>7, BatchNotEmpty DEF SetupAssets, SInv, IInv, TypeOK
  <2> QED
    BY <2>1 DEF AtWork
<1>8. ASSUME NEW p \in Processes, Connect(p)
      PROVE  AtWork'
  <2>1. conn[Main] # "closed" => conn'[Main] # "closed"
    BY <1>0, <1>8 DEF Connect
  <2>2. UNCHANGED <<setup, assetIds, pc>>
    BY <1>8 DEF Connect, server, callers
  <2> QED
    BY <2>1, <2>2 DEF AtWork
<1>9. ASSUME NEW p \in Processes, Serve(p)
      PROVE  AtWork'
  <2>1. Handle(Head(wire[p]).kind) /\ UNCHANGED <<setup, conn>>
    BY <1>9 DEF Serve, sockets
  <2>2. Head(wire[p]).kind \in Kinds
    <3>1. wire[p] \in Seq(Requests) /\ wire[p] # <<>>
      BY <1>9 DEF Serve, SInv, IInv, TypeOK
    <3>2. Head(wire[p]) \in Requests
      BY <3>1
    <3> QED
      BY <3>2 DEF Requests
  <2> QED
    BY <2>1, <2>2, HandleAtWork DEF SInv, IInv
<1>10. ASSUME NEW k \in Kinds, ServeOrphan(k)
       PROVE  AtWork'
  BY <1>10, HandleAtWork DEF ServeOrphan, sockets, SInv, IInv
<1>11. ASSUME NEW p \in Processes, Resolve(p)
       PROVE  AtWork'
  <2>a. PICK m : m = Head(replies[p])
    OBVIOUS
  <2>1. /\ m.id \in handlers[p] /\ UNCHANGED <<setup, assetIds>>
        /\ pc' = [pc EXCEPT ![m.id] = IF m.id \in Refills THEN "finalizing" ELSE "idle"]
    BY <1>11, <2>a DEF Resolve, server
  <2>2. m.id \in Callers /\ ProcOf[m.id] = p /\ pc[m.id] = "waiting"
    BY <2>1 DEF SInv, IInv, TypeOK, Addressed
  <2>3. CASE p = Main
    <3>1. m.id \in Refills
      BY <2>2, <2>3, MainCallers
    <3>2. pc'[m.id] = "finalizing"
      BY <1>0, <2>1, <2>2, <3>1
    <3> QED
      BY <3>1, <3>2 DEF AtWork
  <2>4. CASE p # Main
    <3>1. conn'[Main] = conn[Main]
      BY <1>0, <1>11, <2>4 DEF Resolve
    <3>2. \A r \in Refills : pc[r] # "waiting" => pc'[r] = pc[r]
      BY <1>0, <2>1, <2>2 DEF Callers
    <3> QED
      BY <2>1, <3>1, <3>2 DEF AtWork
  <2> QED
    BY <2>3, <2>4
<1>12. ASSUME NEW p \in Processes, Ignore(p)
       PROVE  AtWork'
  BY <1>12 DEF Ignore, server, callers, AtWork
<1>13. CASE UNCHANGED vars
  BY <1>13 DEF vars, server, sockets, callers, AtWork
<1> QED
  BY <1>2, <1>3, <1>4, <1>5, <1>6, <1>7, <1>8, <1>9, <1>10, <1>11, <1>12, <1>13 DEF Next

(***************************************************************************)
(* While the pool is empty a registration is under way, or one has failed  *)
(* since the last request: however many refills fight over Main's socket,  *)
(* and whichever of them fail, the request that finds the pool empty       *)
(* starts another.                                                         *)
(***************************************************************************)
THEOREM EmptyPoolIsRefilled == Spec => []EmptyPoolIsRefilling
<1>1. Init => SInv /\ Stocked /\ AtWork
  <2>1. Init => Stocked /\ AtWork
    BY DEF Init, Stocked, AtWork, Callers
  <2> QED
    BY <2>1, InitSInv
<1>2. SInv /\ Stocked /\ AtWork /\ [Next]_vars => (SInv /\ Stocked /\ AtWork)'
  BY StepSInv, StepStocked, StepAtWork
<1>3. SInv /\ AtWork => EmptyPoolIsRefilling
  BY MainAnswers DEF AtWork, EmptyPoolIsRefilling
<1> QED
  BY <1>1, <1>2, <1>3, PTL DEF Spec

-----------------------------------------------------------------------------
(***************************************************************************)
(* Nonces are tickets of one counter.                                      *)
(***************************************************************************)

ArrivesAt(c, i) ==
  /\ i \in DOMAIN replies[ProcOf[c]]
  /\ replies[ProcOf[c]][i].id = c
  /\ replies[ProcOf[c]][i].kind = "getNonce"
  /\ WillResolve(ProcOf[c], i)

Arrivals ==
  \A c \in Callers :
    /\ \A i : ArrivesAt(c, i) => Arriving(c) = <<replies[ProcOf[c]][i].value>>
    /\ (\A i : ~ ArrivesAt(c, i)) => Arriving(c) = <<>>

LEMMA ArrivingIs == TypeOK => Arrivals
<1> SUFFICES ASSUME TypeOK, NEW c \in Callers
             PROVE  /\ \A i : ArrivesAt(c, i) => Arriving(c) = <<replies[ProcOf[c]][i].value>>
                    /\ (\A i : ~ ArrivesAt(c, i)) => Arriving(c) = <<>>
  BY DEF Arrivals
<1> DEFINE p == ProcOf[c]
           mine == {i \in DOMAIN replies[p] : /\ replies[p][i].id = c
                                              /\ replies[p][i].kind = "getNonce"
                                              /\ WillResolve(p, i)}
<1>1. \A i : i \in mine <=> ArrivesAt(c, i)
  BY DEF ArrivesAt
<1>2. Arriving(c) = IF mine = {} THEN <<>> ELSE <<replies[p][CHOOSE i \in mine : TRUE].value>>
  BY DEF Arriving
<1>3. ASSUME NEW i \in mine, NEW j \in mine
      PROVE  i = j
  <2>1. replies[p] \in Seq(Replies)
    BY ProcOfType DEF TypeOK
  <2>2. i \in Nat /\ j \in Nat /\ i >= 1 /\ j >= 1
    BY <2>1
  <2>3. i < j => i \in 1 .. (j - 1)
    BY <2>2
  <2>4. j < i => j \in 1 .. (i - 1)
    BY <2>2
  <2>5. WillResolve(p, i) /\ WillResolve(p, j)
    OBVIOUS
  <2> HIDE DEF p, mine
  <2> QED
    BY <2>2, <2>3, <2>4, <2>5 DEF WillResolve
<1>4. ASSUME NEW i \in mine
      PROVE  (CHOOSE k \in mine : TRUE) = i
  <2>1. mine = {i}
    BY <1>3
  <2> HIDE DEF mine
  <2> QED
    BY <2>1
<1> HIDE DEF mine
<1> QED
  BY <1>1, <1>2, <1>4

\* the answers of one process, and who listens to them, stay as they are
LEMMA ArrivingSame ==
  ASSUME TypeOK, TypeOK', NEW c \in Callers, replies'[ProcOf[c]] = replies[ProcOf[c]],
         \A i \in DOMAIN replies[ProcOf[c]] :
           Listened(ProcOf[c], i)' <=> Listened(ProcOf[c], i)
  PROVE  Arriving(c)' = Arriving(c)
<1> DEFINE p == ProcOf[c]
<1>1. replies[p] \in Seq(Replies)
  BY ProcOfType DEF TypeOK
<1>2. ASSUME NEW i \in DOMAIN replies[p]
      PROVE  WillResolve(p, i)' <=> WillResolve(p, i)
  <2>1. 1 .. (i - 1) \subseteq DOMAIN replies[p]
    BY <1>1
  <2> QED
    BY <2>1 DEF WillResolve
<1>3. \A i : ArrivesAt(c, i)' <=> ArrivesAt(c, i)
  BY <1>2 DEF ArrivesAt
<1>4. Arrivals /\ Arrivals'
  BY ArrivingIs, PTL
<1> QED
  BY <1>3, <1>4 DEF Arrivals

LEMMA NoncesOfType ==
  ASSUME NEW S, NEW s \in Seq(S)
  PROVE  NoncesOf(s) \in Seq({NthNonce(s, n) : n \in 1 .. Cardinality(NonceIndices(s))})
  BY NonceIndicesType DEF NoncesOf

LEMMA ConcatOne ==
  ASSUME NEW S, NEW s \in Seq(S), NEW v
  PROVE  s \o <<v>> = Append(s, v) /\ s \o <<>> = s
<1> DEFINE W == S \cup {v}
<1>1. s \in Seq(W)
  <2>1. Len(s) \in Nat /\ s = [i \in 1 .. Len(s) |-> s[i]]
    OBVIOUS
  <2>2. \A i \in 1 .. Len(s) : s[i] \in W
    OBVIOUS
  <2> HIDE DEF W
  <2>3. [i \in 1 .. Len(s) |-> s[i]] \in Seq(W)
    BY <2>1, <2>2
  <2> QED
    BY <2>1, <2>3
<1>2. v \in W
  OBVIOUS
<1> HIDE DEF W
<1> QED
  BY <1>1, <1>2

\* what the callers hold or are sure to get
Taken(c) == NoncesOf(got[c]) \o Arriving(c)

LEMMA TakenOf ==
  ASSUME NEW s \in Seq(Results), NEW v
  PROVE  NoncesOf(s) \o <<v>> = Append(NoncesOf(s), v) /\ NoncesOf(s) \o <<>> = NoncesOf(s)
  BY NoncesOfType, ConcatOne

\* where the abstract counter stands
Standing == IF setup = "ready" THEN nonce ELSE FirstServed

\* a step that neither serves nor delivers, and nobody on a socket stops
\* listening
LEMMA QuietTaken ==
  ASSUME SInv, TypeOK', UNCHANGED <<got, replies>>,
         \A p \in Processes : \A c \in handlers[p] : c \in handlers'[p] /\ kind'[c] = kind[c]
  PROVE  \A c \in Callers : Taken(c)' = Taken(c)
<1> SUFFICES ASSUME NEW c \in Callers
             PROVE  Taken(c)' = Taken(c)
  OBVIOUS
<1> DEFINE p == ProcOf[c]
<1>1. p \in Processes
  BY ProcOfType
<1>2. ASSUME NEW i \in DOMAIN replies[p]
      PROVE  Listened(p, i)' <=> Listened(p, i)
  <2>1. replies[p][i].id \in handlers[p]
    BY <1>1 DEF SInv, Addressed
  <2> QED
    BY <1>1, <2>1 DEF Listened
<1>3. Arriving(c)' = Arriving(c)
  BY <1>2, ArrivingSame DEF SInv, IInv
<1> QED
  BY <1>3 DEF Taken

LEMMA AskTaken ==
  ASSUME SInv, TypeOK', NEW c \in Callers, NEW k \in Kinds, Ask(c, k), pc[c] # "waiting"
  PROVE  \A d \in Callers : Taken(d)' = Taken(d)
<1>1. UNCHANGED <<got, replies>>
  BY DEF Ask, channel
<1>2. ASSUME NEW p \in Processes, NEW d \in handlers[p]
      PROVE  d \in handlers'[p] /\ kind'[d] = kind[d]
  <2>1. d \in Callers /\ d # c
    BY DEF SInv, IInv, TypeOK, Addressed
  <2>2. ProcOf[c] \in Processes
    BY ProcOfType
  <2>3. handlers[p] \subseteq handlers'[p]
    BY <2>2 DEF Ask, SInv, IInv, TypeOK
  <2>4. kind'[d] = kind[d]
    BY <2>1 DEF Ask, SInv, IInv, TypeOK
  <2> QED
    BY <2>3, <2>4
<1> QED
  BY <1>1, <1>2, QuietTaken

(***************************************************************************)
(* The server answers: the nonce is taken by the caller that the answer    *)
(* will resolve, or by nobody.                                             *)
(***************************************************************************)
LEMMA ServeTaken ==
  ASSUME SInv, TypeOK', NEW p \in Processes, Serve(p)
  PROVE  \/ nonce' = nonce /\ \A c \in Callers : Taken(c)' = Taken(c)
         \/ nonce' = nonce + 1 /\ \A c \in Callers : Taken(c)' = Taken(c)
         \/ /\ nonce' = nonce + 1
            /\ \E c \in Callers :
                 /\ Taken(c)' = Append(Taken(c), nonce)
                 /\ \A d \in Callers : d # c => Taken(d)' = Taken(d)
<1>a. PICK m : m = Head(wire[p])
  OBVIOUS
<1>b. PICK r : r = Reply(m.kind, m.id, Answer(m.kind))
  OBVIOUS
<1>1. TypeOK /\ Arrivals /\ Arrivals'
  BY ArrivingIs, PTL DEF SInv, IInv
<1>2. /\ UNCHANGED <<handlers, kind, got>>
      /\ Handle(m.kind)
      /\ replies' = [replies EXCEPT ![p] = Append(@, r)]
  BY <1>a, <1>b DEF Serve, sockets
<1>3. m.kind \in Kinds
  <2>1. wire[p] \in Seq(Requests) /\ wire[p] # <<>>
    BY <1>1 DEF Serve, TypeOK
  <2>2. m \in Requests
    BY <1>a, <2>1
  <2> QED
    BY <2>2 DEF Requests
<1>4. /\ r.kind = "getNonce" => nonce' = nonce + 1 /\ r.value = nonce
      /\ r.kind # "getNonce" => nonce' = nonce
  BY <1>b, <1>2, <1>3 DEF Reply, Handle, HandleGetNonce, HandleGetCandidate,
                          HandleGetTokenId, Answer, Kinds
<1>c. PICK n : n = Len(replies[p]) + 1
  OBVIOUS
<1>5. /\ replies[p] \in Seq(Replies) /\ replies'[p] = Append(replies[p], r)
      /\ \A q \in Processes : q # p => replies'[q] = replies[q]
  BY <1>1, <1>2 DEF TypeOK
<1>6. /\ n \in Nat /\ DOMAIN replies[p] = 1 .. (n - 1) /\ DOMAIN replies'[p] = 1 .. n
      /\ replies'[p][n] = r
      /\ \A i \in DOMAIN replies[p] : replies'[p][i] = replies[p][i]
  BY <1>5, <1>c
<1>7. ASSUME NEW c \in Callers, ProcOf[c] # p
      PROVE  Arriving(c)' = Arriving(c)
  <2>1. replies'[ProcOf[c]] = replies[ProcOf[c]]
    BY <1>5, <1>7, ProcOfType
  <2>2. \A i \in DOMAIN replies[ProcOf[c]] : Listened(ProcOf[c], i)' <=> Listened(ProcOf[c], i)
    BY <1>2, <2>1 DEF Listened
  <2> QED
    BY <1>1, <2>1, <2>2, ArrivingSame
<1>8. \A i \in 1 .. (n - 1) : WillResolve(p, i)' <=> WillResolve(p, i)
  <2>1. \A i \in 1 .. (n - 1) : Listened(p, i)' <=> Listened(p, i)
    BY <1>2, <1>6 DEF Listened
  <2>2. \A i \in 1 .. (n - 1) : 1 .. (i - 1) \subseteq 1 .. (n - 1)
    BY <1>6
  <2> QED
    BY <2>1, <2>2 DEF WillResolve
<1>9. ASSUME NEW c \in Callers, ProcOf[c] = p
      PROVE  /\ \A i : i # n => (ArrivesAt(c, i)' <=> ArrivesAt(c, i))
             /\ ~ ArrivesAt(c, n)
             /\ ArrivesAt(c, n)' => /\ r.id = c /\ r.kind = "getNonce"
                                    /\ \A i : ~ ArrivesAt(c, i)
  <2>1. \A i : i # n => (i \in DOMAIN replies'[p] <=> i \in DOMAIN replies[p])
    BY <1>6
  <2>2. \A i : i # n => (ArrivesAt(c, i)' <=> ArrivesAt(c, i))
    BY <1>6, <1>8, <1>9, <2>1 DEF ArrivesAt
  <2>3. ~ ArrivesAt(c, n)
    BY <1>6, <1>9 DEF ArrivesAt
  <2>4. ASSUME ArrivesAt(c, n)', NEW i, ArrivesAt(c, i)
        PROVE  FALSE
    <3>1. i \in 1 .. (n - 1) /\ Listened(p, i)
      BY <1>6, <1>9, <2>4 DEF ArrivesAt, WillResolve
    <3>2. WillResolve(p, n)'
      BY <1>9, <2>4 DEF ArrivesAt
    <3>3. ~ Listened(p, i)'
      BY <3>1, <3>2 DEF WillResolve
    <3> QED
      BY <1>2, <1>6, <3>1, <3>3 DEF Listened
  <2>5. ArrivesAt(c, n)' => r.id = c /\ r.kind = "getNonce"
    BY <1>6, <1>9 DEF ArrivesAt
  <2> QED
    BY <2>2, <2>3, <2>4, <2>5
<1>10. ASSUME NEW c \in Callers, ProcOf[c] = p, ~ ArrivesAt(c, n)'
       PROVE  Arriving(c)' = Arriving(c)
  <2>1. \A i : ArrivesAt(c, i)' <=> ArrivesAt(c, i)
    BY <1>9, <1>10
  <2>2. \A i : ArrivesAt(c, i) => replies'[p][i] = replies[p][i]
    BY <1>6, <1>10 DEF ArrivesAt
  <2> QED
    BY <1>1, <1>10, <2>1, <2>2 DEF Arrivals
<1>11. CASE \E c \in Callers : ProcOf[c] = p /\ ArrivesAt(c, n)'
  <2>1. PICK c \in Callers : ProcOf[c] = p /\ ArrivesAt(c, n)'
    BY <1>11
  <2>2. r.id = c /\ r.kind = "getNonce" /\ \A i : ~ ArrivesAt(c, i)
    BY <1>9, <2>1
  <2>3. Arriving(c) = <<>> /\ Arriving(c)' = <<nonce>>
    BY <1>1, <1>4, <1>6, <2>1, <2>2 DEF Arrivals
  <2>4. got[c] \in Seq(Results)
    BY <1>1 DEF TypeOK
  <2>5. Taken(c)' = Append(Taken(c), nonce)
    BY <1>2, <2>3, <2>4, TakenOf DEF Taken
  <2>6. ASSUME NEW d \in Callers, d # c
        PROVE  Taken(d)' = Taken(d)
    <3>1. ProcOf[d] = p => ~ ArrivesAt(d, n)'
      BY <1>9, <2>2, <2>6
    <3>2. Arriving(d)' = Arriving(d)
      BY <1>7, <1>10, <3>1
    <3> QED
      BY <1>2, <3>2 DEF Taken
  <2> QED
    BY <1>4, <2>2, <2>5, <2>6
<1>12. CASE ~ \E c \in Callers : ProcOf[c] = p /\ ArrivesAt(c, n)'
  <2>1. \A c \in Callers : Taken(c)' = Taken(c)
    BY <1>2, <1>7, <1>10, <1>12 DEF Taken
  <2> QED
    BY <1>4, <2>1
<1> QED
  BY <1>11, <1>12

(***************************************************************************)
(* A call resolves with the answer that was sure to arrive; what else is   *)
(* on the socket was not, and goes with it.                                *)
(***************************************************************************)
LEMMA ResolveTaken ==
  ASSUME SInv, TypeOK', NEW p \in Processes, Resolve(p)
  PROVE  \A c \in Callers : Taken(c)' = Taken(c)
<1>a. PICK m : m = Head(replies[p])
  OBVIOUS
<1>1. TypeOK /\ Arrivals /\ Arrivals'
  BY ArrivingIs, PTL DEF SInv, IInv
<1>2. /\ replies[p] \in Seq(Replies) /\ replies[p] # <<>>
      /\ m.id \in handlers[p] /\ kind[m.id] = m.kind
      /\ got' = [got EXCEPT ![m.id] = Append(@, Got(m.kind, m.value))]
  BY <1>1, <1>a DEF TypeOK, Resolve
<1>3. 1 \in DOMAIN replies[p] /\ replies[p][1] = m /\ m \in Replies
  BY <1>2, <1>a
<1>4. m.id \in Callers /\ ProcOf[m.id] = p
  <2>1. handlers[p] \in SUBSET Callers
    BY <1>1 DEF TypeOK
  <2>2. \A c \in handlers[p] : ProcOf[c] = p
    BY DEF SInv, Addressed
  <2> QED
    BY <1>2, <2>1, <2>2
<1>5. UNCHANGED kind /\ replies'[p] = <<>>
      /\ \A q \in Processes : q # p => replies'[q] = replies[q] /\ handlers'[q] = handlers[q]
  BY <1>1 DEF Resolve, TypeOK
<1>6. ASSUME NEW c \in Callers, ProcOf[c] # p
      PROVE  Taken(c)' = Taken(c)
  <2>1. /\ replies'[ProcOf[c]] = replies[ProcOf[c]]
        /\ handlers'[ProcOf[c]] = handlers[ProcOf[c]]
    BY <1>5, <1>6, ProcOfType
  <2>2. \A i \in DOMAIN replies[ProcOf[c]] : Listened(ProcOf[c], i)' <=> Listened(ProcOf[c], i)
    BY <1>5, <2>1 DEF Listened
  <2>3. Arriving(c)' = Arriving(c)
    BY <1>1, <2>1, <2>2, ArrivingSame
  <2>4. got'[c] = got[c]
    BY <1>1, <1>2, <1>4, <1>6 DEF TypeOK
  <2> QED
    BY <2>3, <2>4 DEF Taken
<1>7. ASSUME NEW c \in Callers, ProcOf[c] = p
      PROVE  Arriving(c)' = <<>>
  <2>1. \A i : ~ ArrivesAt(c, i)'
    BY <1>5, <1>7 DEF ArrivesAt
  <2> QED
    BY <1>1, <2>1 DEF Arrivals
<1>8. Listened(p, 1) /\ WillResolve(p, 1)
  BY <1>2, <1>3 DEF Listened, WillResolve
<1>9. ASSUME NEW c \in Callers, ProcOf[c] = p, NEW i, ArrivesAt(c, i)
      PROVE  i = 1 /\ c = m.id /\ m.kind = "getNonce"
  <2>1. i \in Nat /\ i >= 1 /\ WillResolve(p, i)
    BY <1>2, <1>9 DEF ArrivesAt
  <2>2. i = 1
    <3>1. i # 1 => 1 \in 1 .. (i - 1)
      BY <2>1
    <3> QED
      BY <1>8, <2>1, <3>1 DEF WillResolve
  <2> QED
    BY <1>3, <1>9, <2>2 DEF ArrivesAt
<1>10. ASSUME NEW c \in Callers, ProcOf[c] = p, c # m.id
       PROVE  Taken(c)' = Taken(c)
  <2>1. Arriving(c) = <<>>
    BY <1>1, <1>9, <1>10 DEF Arrivals
  <2>2. got'[c] = got[c]
    BY <1>1, <1>2, <1>4, <1>10 DEF TypeOK
  <2> QED
    BY <1>7, <1>10, <2>1, <2>2 DEF Taken
<1>11. Taken(m.id)' = Taken(m.id)
  <2>1. PICK g : g = Got(m.kind, m.value)
    OBVIOUS
  <2>2. got[m.id] \in Seq(Results) /\ got'[m.id] = Append(got[m.id], g)
    BY <1>1, <1>2, <1>4, <2>1 DEF TypeOK
  <2>3. g \in Results /\ g.kind = m.kind /\ g.value = m.value
    BY <1>3, <2>1 DEF Got, Results, Replies
  <2>4. Append(got[m.id], g) \in Seq(Results)
    BY <2>2, <2>3
  <2>5. Taken(m.id)' = NoncesOf(Append(got[m.id], g))
    BY <1>4, <1>7, <2>2, <2>4, TakenOf DEF Taken
  <2>6. CASE m.kind = "getNonce"
    <3>1. ArrivesAt(m.id, 1)
      BY <1>3, <1>4, <1>8, <2>6 DEF ArrivesAt
    <3>2. Arriving(m.id) = <<m.value>>
      BY <1>1, <1>3, <1>4, <3>1 DEF Arrivals
    <3>3. NoncesOf(Append(got[m.id], g)) = Append(NoncesOf(got[m.id]), m.value)
      BY <2>2, <2>3, <2>6, NoncesOfNonce
    <3> QED
      BY <2>2, <2>5, <3>2, <3>3, TakenOf DEF Taken
  <2>7. CASE m.kind # "getNonce"
    <3>1. Arriving(m.id) = <<>>
      BY <1>1, <1>4, <1>9, <2>7 DEF Arrivals
    <3>2. NoncesOf(Append(got[m.id], g)) = NoncesOf(got[m.id])
      BY <2>2, <2>3, <2>7, NoncesOfOther
    <3> QED
      BY <2>2, <2>5, <3>1, <3>2, TakenOf DEF Taken
  <2> QED
    BY <2>6, <2>7
<1> QED
  BY <1>6, <1>10, <1>11

\* what was dropped was sure not to arrive
LEMMA IgnoreTaken ==
  ASSUME SInv, TypeOK', NEW p \in Processes, Ignore(p)
  PROVE  \A c \in Callers : Taken(c)' = Taken(c)
<1>1. TypeOK /\ Arrivals /\ Arrivals'
  BY ArrivingIs, PTL DEF SInv, IInv
<1>2. /\ UNCHANGED <<got, kind, handlers>>
      /\ replies[p] \in Seq(Replies) /\ replies[p] # <<>> /\ replies'[p] = Tail(replies[p])
      /\ \A q \in Processes : q # p => replies'[q] = replies[q]
  BY <1>1 DEF Ignore, TypeOK, callers
<1>3. /\ 1 \in DOMAIN replies[p] /\ Head(replies[p]) = replies[p][1]
      /\ \A i \in DOMAIN replies'[p] : replies'[p][i] = replies[p][i + 1]
  BY <1>2
<1>4. /\ \A i \in DOMAIN replies'[p] : i \in Nat /\ i >= 1
      /\ \A i \in Nat : i >= 1 => (i \in DOMAIN replies'[p] <=> i + 1 \in DOMAIN replies[p])
  BY <1>2
<1>5. ~ Listened(p, 1)
  BY <1>3 DEF Ignore, Listened
<1>6. ASSUME NEW c \in Callers, ProcOf[c] # p
      PROVE  Arriving(c)' = Arriving(c)
  <2>1. replies'[ProcOf[c]] = replies[ProcOf[c]]
    BY <1>2, <1>6, ProcOfType
  <2>2. \A i \in DOMAIN replies[ProcOf[c]] : Listened(ProcOf[c], i)' <=> Listened(ProcOf[c], i)
    BY <1>2, <2>1 DEF Listened
  <2> QED
    BY <1>1, <2>1, <2>2, ArrivingSame
<1>7. \A i \in DOMAIN replies'[p] : \A k : k = i + 1 => (Listened(p, i)' <=> Listened(p, k))
  BY <1>2, <1>3 DEF Listened
<1>8. ASSUME NEW i \in DOMAIN replies'[p], NEW k, k = i + 1
      PROVE  WillResolve(p, i)' <=> WillResolve(p, k)
  <2>1. i \in Nat /\ i >= 1
    BY <1>4
  <2>2. \A j \in 1 .. (i - 1) : j \in DOMAIN replies'[p]
    BY <1>2, <2>1
  <2>3. \A j \in 1 .. (k - 1) : j = 1 \/ (j - 1 \in 1 .. (i - 1) /\ j = (j - 1) + 1)
    BY <1>8, <2>1
  <2>4. \A j \in 1 .. (i - 1) : j + 1 \in 1 .. (k - 1)
    BY <1>8, <2>1
  <2>5. ASSUME \A j \in 1 .. (i - 1) : ~ Listened(p, j)', NEW j \in 1 .. (k - 1)
        PROVE  ~ Listened(p, j)
    <3>1. CASE j = 1
      BY <1>5, <3>1
    <3>2. CASE j - 1 \in 1 .. (i - 1) /\ j = (j - 1) + 1
      <4>1. ~ Listened(p, j - 1)' /\ j - 1 \in DOMAIN replies'[p]
        BY <2>2, <2>5, <3>2
      <4> QED
        BY <1>7, <3>2, <4>1
    <3> QED
      BY <2>3, <3>1, <3>2
  <2>6. ASSUME \A j \in 1 .. (k - 1) : ~ Listened(p, j), NEW j \in 1 .. (i - 1)
        PROVE  ~ Listened(p, j)'
    BY <1>7, <2>2, <2>4, <2>6
  <2>7. (\A j \in 1 .. (i - 1) : ~ Listened(p, j)') <=> (\A j \in 1 .. (k - 1) : ~ Listened(p, j))
    BY <2>5, <2>6
  <2>8. WillResolve(p, i)' <=> Listened(p, i)' /\ \A j \in 1 .. (i - 1) : ~ Listened(p, j)'
    BY DEF WillResolve
  <2>9. WillResolve(p, k) <=> Listened(p, k) /\ \A j \in 1 .. (k - 1) : ~ Listened(p, j)
    BY DEF WillResolve
  <2>10. Listened(p, i)' <=> Listened(p, k)
    BY <1>7, <1>8
  <2> QED
    BY <2>7, <2>8, <2>9, <2>10, Zenon
<1>9. ASSUME NEW c \in Callers, ProcOf[c] = p
      PROVE  Arriving(c)' = Arriving(c)
  <2>1. \A i \in DOMAIN replies'[p] : \A k : k = i + 1 => (ArrivesAt(c, i)' <=> ArrivesAt(c, k))
    BY <1>3, <1>4, <1>8, <1>9 DEF ArrivesAt
  <2>2. ASSUME NEW i, ArrivesAt(c, i)
        PROVE  i - 1 \in DOMAIN replies'[p] /\ i = (i - 1) + 1
    <3>1. i # 1 /\ i \in Nat /\ i >= 1 /\ i \in DOMAIN replies[p]
      BY <1>2, <1>5, <1>9, <2>2 DEF ArrivesAt, WillResolve
    <3>2. i - 1 \in Nat /\ i - 1 >= 1 /\ i = (i - 1) + 1
      BY <3>1
    <3> QED
      BY <1>4, <3>1, <3>2
  <2>3. CASE \E i : ArrivesAt(c, i)
    <3>1. PICK i : ArrivesAt(c, i)
      BY <2>3
    <3>2. ArrivesAt(c, i - 1)' /\ replies'[p][i - 1] = replies[p][i]
      BY <1>3, <2>1, <2>2, <3>1
    <3> QED
      BY <1>1, <1>9, <3>1, <3>2 DEF Arrivals
  <2>4. CASE ~ \E i : ArrivesAt(c, i)
    <3>1. \A i : ~ ArrivesAt(c, i)'
      <4>1. \A i : ArrivesAt(c, i)' => i \in DOMAIN replies'[p]
        BY <1>9 DEF ArrivesAt
      <4> QED
        BY <2>1, <2>4, <4>1
    <3> QED
      BY <1>1, <2>4, <3>1 DEF Arrivals
  <2> QED
    BY <2>3, <2>4
<1> QED
  BY <1>2, <1>6, <1>9 DEF Taken

LEMMA InitTickets == Init => Ticket!TicketInit
<1> SUFFICES ASSUME Init
             PROVE  Ticket!TicketInit
  OBVIOUS
<1>1. Standing = FirstServed
  BY DEF Init, Standing
<1>2. ASSUME NEW c \in Callers
      PROVE  Taken(c) = <<>>
  <2>1. ProcOf[c] \in Processes
    BY ProcOfType
  <2>2. got[c] = <<>> /\ replies[ProcOf[c]] = <<>>
    BY <2>1 DEF Init
  <2>3. \A i : ~ ArrivesAt(c, i)
    BY <2>2 DEF ArrivesAt
  <2>4. Arriving(c) = <<>>
    BY <2>3, InitType, ArrivingIs DEF Arrivals
  <2>5. <<>> \in Seq(Results)
    OBVIOUS
  <2> QED
    BY <2>2, <2>4, <2>5, TakenOf, NoNoncesOfEmpty DEF Taken
<1> QED
  BY <1>1, <1>2 DEF Ticket!TicketInit, Standing, Taken

\* steps of the counter
LEMMA CounterStutters ==
  ASSUME Standing' = Standing, \A c \in Callers : Taken(c)' = Taken(c)
  PROVE  UNCHANGED Ticket!ticketVars
  BY DEF Ticket!ticketVars, Standing, Taken

LEMMA CounterForfeits ==
  ASSUME Standing' = Standing + 1, \A c \in Callers : Taken(c)' = Taken(c)
  PROVE  Ticket!Forfeit
  BY DEF Ticket!Forfeit, Standing, Taken

LEMMA CounterTakes ==
  ASSUME NEW c \in Callers, Standing' = Standing + 1,
         Taken(c)' = Append(Taken(c), Standing),
         \A d \in Callers : d # c => Taken(d)' = Taken(d)
  PROVE  Ticket!TakeAny
<1>1. [d \in Callers |-> Taken(d)']
      = [[d \in Callers |-> Taken(d)] EXCEPT ![c] = Append(@, Standing)]
  OBVIOUS
<1>2. Ticket!Take(c)
  BY <1>1 DEF Ticket!Take, Standing, Taken
<1> QED
  BY <1>2 DEF Ticket!TakeAny

LEMMA SetupStands ==
  ASSUME SInv, SetupGasLess \/ SetupAssets
  PROVE  Standing' = Standing
<1>1. CASE SetupGasLess
  BY <1>1 DEF SetupGasLess, Standing
<1>2. CASE SetupAssets
  <2>1. nonce = FirstNonce + (IF FeeLocked THEN 0 ELSE 1)
    BY <1>2 DEF SetupAssets, SInv, SettingUp
  <2>2. nonce' = FirstServed
    BY <1>2, <2>1, CounterAssumption DEF SetupAssets, FirstServed
  <2> QED
    BY <1>2, <2>2 DEF SetupAssets, Standing
<1> QED
  BY <1>1, <1>2

\* once set up, the counter stands where the server's nonce does
LEMMA NonceStands ==
  ASSUME setup = "ready", UNCHANGED setup
  PROVE  Standing = nonce /\ Standing' = nonce'
  BY DEF Standing

LEMMA StepTickets ==
  ASSUME SInv, [Next]_vars
  PROVE  [Ticket!TakeAny \/ Ticket!Forfeit]_Ticket!ticketVars
<1>1. TypeOK /\ TypeOK'
  BY StepInv DEF SInv, IInv
<1> DEFINE Implemented == [Ticket!TakeAny \/ Ticket!Forfeit]_Ticket!ticketVars
\* the steps that leave answers, results and listeners alone
<1>2. ASSUME UNCHANGED <<got, replies, handlers, kind>>, Standing' = Standing
      PROVE  Implemented
  BY <1>1, <1>2, QuietTaken, CounterStutters
<1>3. CASE SetupGasLess \/ SetupAssets
  BY <1>2, <1>3, SetupStands DEF SetupGasLess, SetupAssets, sockets, channel, callers
<1>4. CASE UNCHANGED vars
  BY <1>2, <1>4 DEF vars, server, sockets, channel, callers, Standing
<1>5. CASE Next /\ setup # "ready"
  BY <1>1, <1>3, <1>5, OnlySetup DEF SInv
<1>6. ASSUME setup = "ready", NEW c \in Callers, NEW k \in Kinds, Ask(c, k), pc[c] # "waiting"
      PROVE  Implemented
  BY <1>1, <1>6, AskTaken, CounterStutters DEF Ask, server, Standing
<1>7. ASSUME NEW t \in Tests, NEW k \in Kinds, TestAsks(t, k)
      PROVE  Implemented
  BY <1>6, <1>7 DEF TestAsks, Callers
<1>8. ASSUME setup = "ready", NEW r \in Refills, RefillAsks(r)
      PROVE  Implemented
  <2>1. r \in Callers /\ "getNonce" \in Kinds
    BY DEF Callers, Kinds
  <2> QED
    BY <1>6, <1>8, <2>1 DEF RefillAsks
<1>9. ASSUME NEW r \in Refills, Registered(r) \/ Refilled(r) \/ RefillFails(r)
      PROVE  Implemented
  BY <1>2, <1>9 DEF Registered, Refilled, RefillFails, server, sockets, channel, Standing
<1>10. ASSUME NEW p \in Processes, Connect(p)
       PROVE  Implemented
  BY <1>2, <1>10 DEF Connect, server, callers, Standing
<1>11. ASSUME setup = "ready", NEW p \in Processes, Serve(p)
       PROVE  Implemented
  <2>1. Standing = nonce /\ Standing' = nonce'
    BY <1>11, NonceStands DEF Serve
  <2>2. CASE nonce' = nonce /\ \A c \in Callers : Taken(c)' = Taken(c)
    BY <2>1, <2>2, CounterStutters
  <2>3. CASE nonce' = nonce + 1 /\ \A c \in Callers : Taken(c)' = Taken(c)
    BY <2>1, <2>3, CounterForfeits
  <2>4. ASSUME nonce' = nonce + 1, NEW c \in Callers, Taken(c)' = Append(Taken(c), nonce),
               \A d \in Callers : d # c => Taken(d)' = Taken(d)
        PROVE  Implemented
    BY <2>1, <2>4, CounterTakes
  <2> QED
    BY <1>1, <1>11, <2>2, <2>3, <2>4, ServeTaken
<1>12. ASSUME setup = "ready", NEW k \in Kinds, ServeOrphan(k)
       PROVE  Implemented
  <2>1. Standing = nonce /\ Standing' = nonce'
    BY <1>12, NonceStands DEF ServeOrphan
  <2>2. \A c \in Callers : Taken(c)' = Taken(c)
    BY <1>1, <1>12, QuietTaken DEF ServeOrphan, sockets
  <2>3. nonce' = nonce \/ nonce' = nonce + 1
    BY <1>12 DEF ServeOrphan, Handle, HandleGetNonce, HandleGetCandidate, HandleGetTokenId
  <2> QED
    BY <2>1, <2>2, <2>3, CounterStutters, CounterForfeits
<1>13. ASSUME NEW p \in Processes, Resolve(p)
       PROVE  Implemented
  BY <1>1, <1>13, ResolveTaken, CounterStutters DEF Resolve, server, Standing
<1>14. ASSUME NEW p \in Processes, Ignore(p)
       PROVE  Implemented
  BY <1>1, <1>14, IgnoreTaken, CounterStutters DEF Ignore, server, Standing
<1> QED
  BY <1>3, <1>4, <1>5, <1>7, <1>8, <1>9, <1>10, <1>11, <1>12, <1>13, <1>14 DEF Next

(***************************************************************************)
(* Whatever calls share a socket, the calls of getSudoNonce behave as      *)
(* atomic takes of one counter that starts where the set-up left the       *)
(* nonce; all that overlapping calls can do is lose numbers.               *)
(***************************************************************************)
THEOREM NoncesImplementLossyTickets == Spec => NoncesAreLossyTickets
<1>1. Init => SInv /\ Ticket!TicketInit
  BY InitSInv, InitTickets
<1>2. SInv /\ [Next]_vars => SInv'
  BY StepSInv
<1>3. SInv /\ [Next]_vars => [Ticket!TakeAny \/ Ticket!Forfeit]_Ticket!ticketVars
  BY StepTickets
<1> QED
  BY <1>1, <1>2, <1>3, PTL DEF Spec, NoncesAreLossyTickets, Ticket!LossyTicketSpec

-----------------------------------------------------------------------------
(***************************************************************************)
(* With one call at a time in each worker no nonce is lost.                *)
(***************************************************************************)

\* one call at a time in each worker, as the awaits of the test code have it
OneTestPerWorker == \A s, t \in Tests : ProcOf[s] = ProcOf[t] => s = t

ExchangeOn(p) ==
  /\ conn[p] # "connecting" => onConnect[p] = <<>>
  /\ conn[p] # "open" => wire[p] = <<>> /\ replies[p] = <<>>
  /\ Len(wire[p]) + Len(replies[p]) <= 1
  /\ \A i \in DOMAIN wire[p] : wire[p][i].kind = kind[wire[p][i].id]
  /\ \A i \in DOMAIN replies[p] : replies[p][i].kind = kind[replies[p][i].id]
  /\ p # Main => Len(onConnect[p]) <= 1

LEMMA ExchangeParts ==
  OneExchange <=> (\A k \in Kinds : orphans[k] = 0) /\ \A p \in Processes : ExchangeOn(p)
  BY DEF OneExchange, ExchangeOn

\* the processes that a step leaves alone
LEMMA ExchangeStays ==
  ASSUME SInv, NEW p \in Processes, ExchangeOn(p),
         conn'[p] = conn[p], onConnect'[p] = onConnect[p],
         wire'[p] = wire[p], replies'[p] = replies[p],
         \A c \in handlers[p] : kind'[c] = kind[c]
  PROVE  ExchangeOn(p)'
<1>1. /\ \A i \in DOMAIN wire[p] : kind'[wire[p][i].id] = kind[wire[p][i].id]
      /\ \A i \in DOMAIN replies[p] : kind'[replies[p][i].id] = kind[replies[p][i].id]
  BY DEF SInv, Addressed
<1>2. \A i \in DOMAIN wire'[p] : wire'[p][i].kind = kind'[wire'[p][i].id]
  BY <1>1 DEF ExchangeOn
<1>3. \A i \in DOMAIN replies'[p] : replies'[p][i].kind = kind'[replies'[p][i].id]
  BY <1>1 DEF ExchangeOn
<1>4. /\ conn'[p] # "connecting" => onConnect'[p] = <<>>
      /\ conn'[p] # "open" => wire'[p] = <<>> /\ replies'[p] = <<>>
      /\ Len(wire'[p]) + Len(replies'[p]) <= 1
      /\ p # Main => Len(onConnect'[p]) <= 1
  BY DEF ExchangeOn
<1> QED
  BY <1>2, <1>3, <1>4 DEF ExchangeOn

LEMMA AskExchange ==
  ASSUME SInv, OneTestPerWorker, OneExchange, NEW c \in Callers, NEW k \in Kinds, Ask(c, k),
         pc[c] # "waiting"
  PROVE  OneExchange'
<1>1. TypeOK /\ Addressed /\ ProcOf[c] \in Processes
  BY ProcOfType DEF SInv, IInv
<1>2. UNCHANGED <<wire, replies, orphans>>
  BY DEF Ask, channel
<1>3. \A p \in Processes : \A d \in handlers[p] : d # c /\ kind'[d] = kind[d]
  <2>1. \A p \in Processes : \A d \in handlers[p] : d \in Callers /\ pc[d] = "waiting"
    BY <1>1 DEF Addressed, TypeOK
  <2>2. \A d \in Callers : d # c => kind'[d] = kind[d]
    BY <1>1 DEF Ask, TypeOK
  <2> QED
    BY <2>1, <2>2
<1>4. ASSUME NEW p \in Processes, p # ProcOf[c]
      PROVE  ExchangeOn(p)'
  <2>1. conn'[p] = conn[p] /\ onConnect'[p] = onConnect[p]
    BY <1>1, <1>4 DEF Ask, TypeOK
  <2> QED
    BY <1>2, <1>3, <2>1, ExchangeParts, ExchangeStays
<1>5. ASSUME NEW p \in Processes, p = ProcOf[c]
      PROVE  ExchangeOn(p)'
  <2>0. ExchangeOn(p) /\ onConnect[p] \in Seq(Callers)
    BY <1>1, ExchangeParts DEF TypeOK
  <2>1. CASE conn[p] = "open"
    <3>1. conn'[p] = conn[p] /\ onConnect'[p] = onConnect[p]
      BY <1>1, <1>5, <2>1 DEF Ask, TypeOK
    <3> QED
      BY <1>2, <1>3, <2>0, <3>1, ExchangeStays
  <2>2. CASE conn[p] # "open"
    <3>1. wire[p] = <<>> /\ replies[p] = <<>>
      BY <2>0, <2>2 DEF ExchangeOn
    <3>2. conn'[p] = "connecting" /\ onConnect'[p] = Append(onConnect[p], c)
      BY <1>1, <1>5, <2>2 DEF Ask, TypeOK
    <3>3. ASSUME p # Main
          PROVE  Len(onConnect'[p]) <= 1
      <4>1. conn[p] # "connecting"
        <5> SUFFICES ASSUME conn[p] = "connecting"
                     PROVE  FALSE
          OBVIOUS
        <5>1. PICK d : d = configId[p]
          OBVIOUS
        <5>2. d \in handlers[p]
          BY <5>1 DEF SInv, Addressed
        <5>3. d \in Callers /\ ProcOf[d] = p /\ d # c
          BY <1>1, <1>3, <5>2 DEF TypeOK, Addressed
        <5>4. c \in Tests /\ d \in Tests
          BY <1>5, <3>3, <5>3, ProcessAssumption DEF Callers
        <5> QED
          BY <1>5, <5>3, <5>4 DEF OneTestPerWorker
      <4>2. onConnect[p] = <<>>
        BY <2>0, <4>1 DEF ExchangeOn
      <4> QED
        BY <2>0, <3>2, <4>2
    <3>4. Len(wire'[p]) + Len(replies'[p]) <= 1
      BY <1>2, <3>1
    <3> QED
      BY <1>2, <3>1, <3>2, <3>3, <3>4 DEF ExchangeOn
  <2> QED
    BY <2>1, <2>2
<1>6. \A l \in Kinds : orphans'[l] = 0
  BY <1>2, ExchangeParts
<1>7. \A p \in Processes : ExchangeOn(p)'
  BY <1>4, <1>5
<1> QED
  BY <1>2, <1>6, <1>7 DEF OneExchange, ExchangeOn

LEMMA ConnectExchange ==
  ASSUME SInv, OneTestPerWorker, OneExchange, NEW p \in Processes, Connect(p)
  PROVE  OneExchange'
<1>1. TypeOK /\ Addressed /\ Connecting /\ MainSocket
  BY DEF SInv, IInv
<1>2. UNCHANGED <<replies, orphans, kind>>
  BY DEF Connect, callers
<1>3. ASSUME NEW q \in Processes, q # p
      PROVE  ExchangeOn(q)'
  <2>1. conn'[q] = conn[q] /\ onConnect'[q] = onConnect[q] /\ wire'[q] = wire[q]
    BY <1>1, <1>3 DEF Connect, TypeOK
  <2> QED
    BY <1>2, <2>1, ExchangeParts, ExchangeStays
<1>4. ExchangeOn(p)'
  <2> DEFINE emits == [i \in DOMAIN onConnect[p] |->
                         Request(kind[onConnect[p][i]], configId[p])]
  <2>0. ExchangeOn(p)
    BY ExchangeParts
  <2>1. conn'[p] = "open" /\ onConnect'[p] = <<>> /\ replies'[p] = <<>>
    BY <1>1, <1>2, <2>0 DEF Connect, TypeOK, ExchangeOn
  <2>2. configId[p] \in handlers[p]
    BY <1>1 DEF Connect, Addressed
  <2>3. onConnect[p] \in Seq(Callers) /\ onConnect[p] # <<>>
    BY <1>1 DEF TypeOK, Connecting, Connect
  <2>4. DOMAIN emits = 1 .. Len(onConnect[p]) /\ Len(onConnect[p]) \in Nat \ {0}
    BY <2>3
  <2>5. emits \in Seq({emits[i] : i \in DOMAIN emits}) /\ Len(emits) = Len(onConnect[p])
    BY <2>4
  \* the caller that the requests are for asks what they ask
  <2>6. ASSUME NEW i \in DOMAIN onConnect[p]
        PROVE  emits[i].id = configId[p] /\ emits[i].kind = kind[configId[p]]
    <3>1. /\ onConnect[p][i] \in Callers /\ configId[p] \in Callers
          /\ ProcOf[onConnect[p][i]] = p /\ ProcOf[configId[p]] = p
      BY <1>1, <2>2, <2>3 DEF TypeOK, Addressed, MainSocket
    <3>2. kind[onConnect[p][i]] = kind[configId[p]]
      <4>1. CASE p = Main
        BY <1>1, <3>1, <4>1, MainCallers DEF MainSocket
      <4>2. CASE p # Main
        <5>1. onConnect[p][i] \in Tests /\ configId[p] \in Tests
          BY <3>1, <4>2, ProcessAssumption DEF Callers
        <5> QED
          BY <3>1, <5>1 DEF OneTestPerWorker
      <4> QED
        BY <4>1, <4>2
    <3> QED
      BY <3>2 DEF Request
  <2>7. \A i \in DOMAIN emits : emits[i].kind = kind[emits[i].id]
    BY <2>6
  <2>8. wire'[p] = IF p = Main THEN <<Head(emits)>> ELSE emits
    BY <1>1 DEF Connect, TypeOK
  <2> HIDE DEF emits
  <2>9. /\ Len(<<Head(emits)>>) = 1
        /\ \A i \in DOMAIN <<Head(emits)>> : <<Head(emits)>>[i] = emits[1]
        /\ 1 \in DOMAIN emits
    BY <2>4, <2>5
  <2>10. \A i \in DOMAIN wire'[p] : wire'[p][i].kind = kind[wire'[p][i].id]
    BY <2>7, <2>8, <2>9
  <2>11. Len(wire'[p]) <= 1 /\ Len(wire'[p]) \in Nat
    <3>1. CASE p = Main
      BY <2>8, <2>9, <3>1
    <3>2. CASE p # Main
      <4>1. Len(onConnect[p]) <= 1
        BY <2>0, <3>2 DEF ExchangeOn
      <4> QED
        BY <2>4, <2>5, <2>8, <3>2, <4>1
    <3> QED
      BY <3>1, <3>2
  <2>12. Len(replies'[p]) = 0 /\ Len(onConnect'[p]) = 0
    BY <2>1
  <2>13. Len(wire'[p]) + Len(replies'[p]) <= 1
    BY <2>11, <2>12
  <2> QED
    BY <1>2, <2>1, <2>10, <2>12, <2>13 DEF ExchangeOn
<1>5. \A q \in Processes : ExchangeOn(q)'
  BY <1>3, <1>4
<1>6. \A k \in Kinds : orphans'[k] = 0
  BY <1>2, ExchangeParts
<1> QED
  BY <1>5, <1>6 DEF OneExchange, ExchangeOn

LEMMA ServeExchange ==
  ASSUME SInv, OneExchange, NEW p \in Processes, Serve(p)
  PROVE  OneExchange'
<1>a. PICK m : m = Head(wire[p])
  OBVIOUS
<1>b. PICK r : r = Reply(m.kind, m.id, Answer(m.kind))
  OBVIOUS
<1>1. TypeOK
  BY DEF SInv, IInv
<1>2. UNCHANGED <<conn, onConnect, orphans, kind>>
  BY DEF Serve, sockets
<1>3. ASSUME NEW q \in Processes, q # p
      PROVE  ExchangeOn(q)'
  <2>1. wire'[q] = wire[q] /\ replies'[q] = replies[q]
    BY <1>1, <1>3 DEF Serve, TypeOK
  <2> QED
    BY <1>2, <2>1, ExchangeParts, ExchangeStays
<1>4. ExchangeOn(p)'
  <2>0. ExchangeOn(p)
    BY ExchangeParts
  <2>1. wire[p] \in Seq(Requests) /\ wire[p] # <<>> /\ replies[p] \in Seq(Replies)
    BY <1>1 DEF TypeOK, Serve
  <2>2. wire'[p] = Tail(wire[p]) /\ replies'[p] = Append(replies[p], r)
    BY <1>1, <1>a, <1>b DEF Serve, TypeOK
  <2>3. 1 \in DOMAIN wire[p] /\ wire[p][1] = m
    BY <1>a, <2>1
  <2>4. r.kind = kind[r.id]
    BY <1>b, <2>0, <2>3 DEF ExchangeOn, Reply
  <2>5. Len(wire'[p]) + Len(replies'[p]) <= 1
    <3>1. /\ Len(wire[p]) \in Nat /\ Len(replies[p]) \in Nat
          /\ Len(wire'[p]) = Len(wire[p]) - 1 /\ Len(replies'[p]) = Len(replies[p]) + 1
      BY <2>1, <2>2
    <3>2. Len(wire[p]) + Len(replies[p]) <= 1
      BY <2>0 DEF ExchangeOn
    <3>3. \A a, b \in Nat : a + b <= 1 => (a - 1) + (b + 1) <= 1
      OBVIOUS
    <3>4. (Len(wire[p]) - 1) + (Len(replies[p]) + 1) <= 1
      BY <3>1, <3>2, <3>3
    <3> QED
      BY <3>1, <3>4
  <2>6. \A i \in DOMAIN Tail(wire[p]) : i + 1 \in DOMAIN wire[p] /\ Tail(wire[p])[i] = wire[p][i + 1]
    BY <2>1
  <2>7. \A i \in DOMAIN Append(replies[p], r) :
          \/ i \in DOMAIN replies[p] /\ Append(replies[p], r)[i] = replies[p][i]
          \/ Append(replies[p], r)[i] = r
    BY <2>1
  <2>8. /\ \A i \in DOMAIN wire'[p] : wire'[p][i].kind = kind[wire'[p][i].id]
        /\ \A i \in DOMAIN replies'[p] : replies'[p][i].kind = kind[replies'[p][i].id]
    BY <2>0, <2>2, <2>4, <2>6, <2>7 DEF ExchangeOn
  <2>9. conn[p] = "open"
    BY <2>0, <2>1 DEF ExchangeOn
  <2> QED
    BY <1>2, <2>0, <2>5, <2>8, <2>9 DEF ExchangeOn
<1>5. \A q \in Processes : ExchangeOn(q)'
  BY <1>3, <1>4
<1>6. \A k \in Kinds : orphans'[k] = 0
  BY <1>2, ExchangeParts
<1> QED
  BY <1>5, <1>6 DEF OneExchange, ExchangeOn

LEMMA ResolveExchange ==
  ASSUME SInv, OneExchange, NEW p \in Processes, Resolve(p)
  PROVE  OneExchange'
<1>1. TypeOK
  BY DEF SInv, IInv
<1>2. ExchangeOn(p) /\ wire[p] \in Seq(Requests) /\ replies[p] \in Seq(Replies)
      /\ replies[p] # <<>> /\ UNCHANGED <<onConnect, kind>>
  BY <1>1, ExchangeParts DEF TypeOK, Resolve
<1>3. ASSUME NEW q \in Processes, q # p
      PROVE  ExchangeOn(q)'
  <2>1. conn'[q] = conn[q] /\ wire'[q] = wire[q] /\ replies'[q] = replies[q]
    BY <1>1, <1>3 DEF Resolve, TypeOK
  <2> QED
    BY <1>2, <2>1, ExchangeParts, ExchangeStays
<1>4. ExchangeOn(p)'
  <2>1. conn'[p] = "closed" /\ wire'[p] = <<>> /\ replies'[p] = <<>>
    BY <1>1 DEF Resolve, TypeOK
  <2>2. conn[p] = "open"
    BY <1>2 DEF ExchangeOn
  <2>3. onConnect'[p] = <<>>
    BY <1>2, <2>2 DEF ExchangeOn
  <2>4. Len(wire'[p]) + Len(replies'[p]) <= 1 /\ Len(onConnect'[p]) <= 1
    BY <2>1, <2>3
  <2> QED
    BY <2>1, <2>3, <2>4 DEF ExchangeOn
\* nothing else was on the socket
<1>5. \A k \in Kinds : orphans'[k] = 0
  <2>1. wire[p] = <<>>
    <3>1. Len(wire[p]) \in Nat /\ Len(replies[p]) \in Nat /\ Len(replies[p]) >= 1
      BY <1>2
    <3>2. Len(wire[p]) + Len(replies[p]) <= 1
      BY <1>2 DEF ExchangeOn
    <3>3. \A a, b \in Nat : b >= 1 /\ a + b <= 1 => a = 0
      OBVIOUS
    <3>4. Len(wire[p]) = 0
      BY <3>1, <3>2, <3>3
    <3> QED
      BY <1>2, <3>4
  <2>2. ASSUME NEW k \in Kinds
        PROVE  OnWire(p, k) = 0
    <3>1. {i \in DOMAIN wire[p] : wire[p][i].kind = k} = {}
      BY <2>1
    <3> QED
      BY <3>1, FS_EmptySet DEF OnWire
  <2>3. \A k \in Kinds : orphans[k] = 0
    BY ExchangeParts
  <2> QED
    BY <2>2, <2>3 DEF Resolve
<1>6. \A q \in Processes : ExchangeOn(q)'
  BY <1>3, <1>4
<1> QED
  BY <1>5, <1>6 DEF OneExchange, ExchangeOn

\* every answer on a socket is listened for
LEMMA AnswersListened ==
  ASSUME SInv, OneExchange
  PROVE  \A p \in Processes : \A i \in DOMAIN replies[p] : Listened(p, i)
<1> SUFFICES ASSUME NEW p \in Processes, NEW i \in DOMAIN replies[p]
             PROVE  Listened(p, i)
  OBVIOUS
<1>1. replies[p][i].id \in handlers[p]
  BY DEF SInv, Addressed
<1>2. replies[p][i].kind = kind[replies[p][i].id]
  BY DEF OneExchange
<1> QED
  BY <1>1, <1>2 DEF Listened

LEMMA NothingIgnored ==
  ASSUME SInv, OneExchange, NEW p \in Processes
  PROVE  ~ Ignore(p)
<1> SUFFICES ASSUME Ignore(p)
             PROVE  FALSE
  OBVIOUS
<1>1. replies[p] \in Seq(Replies) /\ replies[p] # <<>>
  BY DEF Ignore, SInv, IInv, TypeOK
<1>2. 1 \in DOMAIN replies[p] /\ Head(replies[p]) = replies[p][1]
  BY <1>1
<1>3. Listened(p, 1)
  BY <1>2, AnswersListened
<1> QED
  BY <1>2, <1>3 DEF Ignore, Listened

LEMMA StepExchange ==
  ASSUME SInv, OneTestPerWorker, OneExchange, [Next]_vars
  PROVE  OneExchange'
<1>1. ASSUME NEW t \in Tests, NEW k \in Kinds, TestAsks(t, k)
      PROVE  OneExchange'
  BY <1>1, AskExchange DEF TestAsks, Callers
<1>2. ASSUME NEW r \in Refills, RefillAsks(r)
      PROVE  OneExchange'
  <2>1. "getNonce" \in Kinds /\ r \in Callers
    BY DEF Kinds, Callers
  <2> QED
    BY <1>2, <2>1, AskExchange DEF RefillAsks
<1>3. ASSUME UNCHANGED <<conn, onConnect, wire, replies, orphans, kind>>
      PROVE  OneExchange'
  BY <1>3 DEF OneExchange
<1>4. ASSUME \/ SetupGasLess \/ SetupAssets
             \/ \E r \in Refills : Registered(r) \/ Refilled(r) \/ RefillFails(r)
             \/ UNCHANGED vars
      PROVE  OneExchange'
  BY <1>3, <1>4 DEF SetupGasLess, SetupAssets, Registered, Refilled, RefillFails, vars,
                    sockets, channel, callers
<1>5. ASSUME NEW k \in Kinds, ServeOrphan(k)
      PROVE  FALSE
  BY <1>5 DEF ServeOrphan, OneExchange
<1> QED
  BY <1>1, <1>2, <1>4, <1>5, ConnectExchange, ServeExchange, ResolveExchange,
     NothingIgnored DEF Next

\* with one exchange on a socket no nonce is served for nobody
LEMMA ServeTakes ==
  ASSUME SInv, OneExchange, TypeOK', NEW p \in Processes, Serve(p), nonce' # nonce
  PROVE  ~ \A c \in Callers : Taken(c)' = Taken(c)
<1>a. PICK m : m = Head(wire[p])
  OBVIOUS
<1>b. PICK r : r = Reply(m.kind, m.id, Answer(m.kind))
  OBVIOUS
<1>1. TypeOK /\ Arrivals /\ Arrivals'
  BY ArrivingIs, PTL DEF SInv, IInv
<1>2. /\ UNCHANGED <<handlers, kind, got>> /\ Handle(m.kind)
      /\ wire[p] \in Seq(Requests) /\ wire[p] # <<>> /\ replies[p] \in Seq(Replies)
      /\ replies'[p] = Append(replies[p], r)
  BY <1>1, <1>a, <1>b DEF Serve, sockets, TypeOK
<1>3. /\ 1 \in DOMAIN wire[p] /\ wire[p][1] = m
      /\ m.id \in handlers[p] /\ m.kind = kind[m.id]
  <2>1. 1 \in DOMAIN wire[p] /\ wire[p][1] = m
    BY <1>2, <1>a
  <2>2. m.id \in handlers[p]
    BY <2>1 DEF SInv, Addressed
  <2>3. m.kind = kind[m.id]
    BY <2>1 DEF OneExchange
  <2> QED
    BY <2>1, <2>2, <2>3
<1>4. m.id \in Callers /\ ProcOf[m.id] = p
  <2>1. handlers[p] \in SUBSET Callers
    BY <1>1 DEF TypeOK
  <2>2. \A c \in handlers[p] : ProcOf[c] = p
    BY DEF SInv, Addressed
  <2> QED
    BY <1>3, <2>1, <2>2
<1>5. replies[p] = <<>>
  <2>1. Len(wire[p]) \in Nat /\ Len(replies[p]) \in Nat /\ Len(wire[p]) >= 1
    BY <1>2
  <2>2. Len(wire[p]) + Len(replies[p]) <= 1
    BY DEF OneExchange
  <2>3. \A a, b \in Nat : a >= 1 /\ a + b <= 1 => b = 0
    OBVIOUS
  <2>4. Len(replies[p]) = 0
    BY <2>1, <2>2, <2>3
  <2> QED
    BY <1>2, <2>4
<1>6. DOMAIN replies'[p] = {1} /\ replies'[p][1] = r
  BY <1>2, <1>5
<1>7. m.kind = "getNonce"
  BY <1>2 DEF Handle, HandleGetCandidate, HandleGetTokenId
<1>8. r.id = m.id /\ r.kind = "getNonce"
  BY <1>7, <1>b DEF Reply
<1>9. Arriving(m.id) = <<>>
  <2>1. \A i : ~ ArrivesAt(m.id, i)
    BY <1>4, <1>5 DEF ArrivesAt
  <2> QED
    BY <1>1, <1>4, <2>1 DEF Arrivals
<1>10. Arriving(m.id)' = <<r.value>>
  <2>1. Listened(p, 1)'
    BY <1>2, <1>3, <1>6, <1>7, <1>8 DEF Listened
  <2>2. WillResolve(p, 1)'
    BY <2>1 DEF WillResolve
  <2>3. ArrivesAt(m.id, 1)'
    BY <1>4, <1>6, <1>8, <2>2 DEF ArrivesAt
  <2> QED
    BY <1>1, <1>4, <1>6, <2>3 DEF Arrivals
<1>11. got[m.id] \in Seq(Results)
  BY <1>1, <1>4 DEF TypeOK
<1>12. /\ Taken(m.id) = NoncesOf(got[m.id])
       /\ Taken(m.id)' = Append(NoncesOf(got[m.id]), r.value)
  BY <1>2, <1>9, <1>10, <1>11, TakenOf DEF Taken
<1>13. Append(NoncesOf(got[m.id]), r.value) # NoncesOf(got[m.id])
  <2>1. PICK s : s = NoncesOf(got[m.id])
    OBVIOUS
  <2>2. \E S : s \in Seq(S)
    BY <1>11, <2>1, NoncesOfType
  <2>3. Len(Append(s, r.value)) = Len(s) + 1 /\ Len(s) \in Nat
    BY <2>2
  <2> QED
    BY <2>1, <2>3
<1> QED
  BY <1>4, <1>12, <1>13

LEMMA StepExactTickets ==
  ASSUME SInv, OneExchange, [Next]_vars
  PROVE  [Ticket!TakeAny]_Ticket!ticketVars
<1>1. SInv' /\ TypeOK /\ TypeOK'
  BY StepSInv DEF SInv, IInv
<1>2. CASE \E p \in Processes : Serve(p)
  <2>1. PICK p \in Processes : Serve(p)
    BY <1>2
  <2>2. CASE nonce' = nonce
    <3>1. Standing' = Standing
      BY <2>1, <2>2 DEF Serve, Standing
    <3>2. \A c \in Callers : Taken(c)' = Taken(c)
      <4>1. nonce \in Nat
        BY <1>1 DEF TypeOK
      <4>2. nonce' # nonce + 1
        BY <2>2, <4>1
      <4> QED
        BY <1>1, <2>1, <4>2, ServeTaken
    <3> QED
      BY <3>1, <3>2, CounterStutters
  <2>3. CASE nonce' # nonce
    <3>1. PICK c \in Callers : /\ Taken(c)' = Append(Taken(c), nonce)
                               /\ \A d \in Callers : d # c => Taken(d)' = Taken(d)
      BY <1>1, <2>1, <2>3, ServeTaken, ServeTakes
    <3>2. nonce' = nonce + 1
      BY <1>1, <2>1, <2>3, ServeTaken
    <3>3. setup = "ready" /\ UNCHANGED setup
      BY <2>1 DEF Serve, SInv, SettingUp
    <3>4. Standing = nonce /\ Standing' = nonce'
      BY <3>3, NonceStands
    <3> QED
      BY <3>1, <3>2, <3>4, CounterTakes
  <2> QED
    BY <2>2, <2>3
\* nobody else moves the counter
<1>3. CASE ~ \E p \in Processes : Serve(p)
  <2>1. Standing' = Standing
    <3>1. CASE SetupGasLess \/ SetupAssets
      BY <3>1, SetupStands
    <3>2. CASE \/ \E c \in Callers, k \in Kinds : Ask(c, k)
               \/ \E r \in Refills : Registered(r) \/ Refilled(r) \/ RefillFails(r)
               \/ \E p \in Processes : Connect(p) \/ Resolve(p) \/ Ignore(p)
               \/ UNCHANGED vars
      BY <3>2 DEF Ask, Registered, Refilled, RefillFails, Connect, Resolve, Ignore, vars, server, Standing
    <3>3. ASSUME NEW t \in Tests, NEW k \in Kinds, TestAsks(t, k)
          PROVE  \E c \in Callers, l \in Kinds : Ask(c, l)
      BY <3>3 DEF TestAsks, Callers
    <3>4. ASSUME NEW r \in Refills, RefillAsks(r)
          PROVE  \E c \in Callers, l \in Kinds : Ask(c, l)
      BY <3>4 DEF RefillAsks, Callers, Kinds
    <3>5. ASSUME NEW k \in Kinds, ServeOrphan(k)
          PROVE  FALSE
      BY <3>5 DEF ServeOrphan, OneExchange
    <3> QED
      BY <1>3, <3>1, <3>2, <3>3, <3>4, <3>5 DEF Next
  <2>2. [Ticket!TakeAny \/ Ticket!Forfeit]_Ticket!ticketVars
    BY StepTickets
  <2>3. Standing \in Nat
    BY <1>1, CounterAssumption DEF TypeOK, Standing, FirstServed
  <2>4. ~ Ticket!TakeAny /\ ~ Ticket!Forfeit
    <3>1. Standing' # Standing + 1
      BY <2>1, <2>3
    <3>2. Ticket!TakeAny => Standing' = Standing + 1
      BY DEF Ticket!TakeAny, Ticket!Take, Standing
    <3>3. Ticket!Forfeit => Standing' = Standing + 1
      BY DEF Ticket!Forfeit, Standing
    <3> QED
      BY <3>1, <3>2, <3>3
  <2> QED
    BY <2>2, <2>4
<1> QED
  BY <1>2, <1>3

(***************************************************************************)
(* With one call at a time in each worker the calls of getSudoNonce are    *)
(* atomic takes of one counter and no nonce is lost, however many refills  *)
(* overlap in the main process: its sync queue lets one request out.       *)
(***************************************************************************)
THEOREM NoncesImplementTickets ==
  ASSUME OneTestPerWorker
  PROVE  Spec => NoncesAreTickets
<1>1. Init => SInv /\ OneExchange /\ Ticket!TicketInit
  <2>1. Init => OneExchange
    BY DEF Init, OneExchange
  <2> QED
    BY <2>1, InitSInv, InitTickets
<1>2. SInv /\ OneExchange /\ [Next]_vars => (SInv /\ OneExchange)'
  BY StepSInv, StepExchange
<1>3. SInv /\ OneExchange /\ [Next]_vars => [Ticket!TakeAny]_Ticket!ticketVars
  BY StepExactTickets
<1> QED
  BY <1>1, <1>2, <1>3, PTL DEF Spec, NoncesAreTickets, Ticket!TicketSpec
==============================================================================
