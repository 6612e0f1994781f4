---------------------------- MODULE NonceManager ----------------------------
(***************************************************************************)
(* The numbers that parallel tests share.                                  *)
(*                                                                         *)
(* utils/globalSetup.js runs in the main jest process and serves three     *)
(* counters over node-ipc: the nonce of the sudo account, the number of    *)
(* collator candidates and a pool of registered token ids.  Test code in   *)
(* the jest workers (and the main process itself, when it registers more   *)
(* tokens) asks for one number at a time through utils/SudoDB.ts.          *)
(*                                                                         *)
(* A caller is one asynchronous control flow: a test, or one call of       *)
(* registerAssets.  All callers of a process share the process's single    *)
(* `ipc` object, hence one socket, one ipc.config.id and one set of event  *)
(* handlers.  node-ipc itself is external and modelled as SudoDB.ts and    *)
(* globalSetup.js use it.                                                  *)
(***************************************************************************)
EXTENDS Naturals, Sequences, FiniteSets

CONSTANTS
  Main,         \* the main jest process, which serves the counters
  Workers,      \* the jest worker processes
  Tests,        \* callers that live in the workers
  Refills,      \* callers that are calls of registerAssets in Main
  ProcOf,       \* the process of each caller
  Batch,        \* tokens registered at a time (300 in the code)
  Backend,      \* isBackendTest(): does globalSetup register tokens itself?
  FeeLocked,    \* does the chain have fee lock metadata already?
  MayFail,      \* the calls of registerAssets whose transaction may fail
  FirstNonce,   \* accountNextIndex(sudo) when globalSetup runs
  FirstCandidate, \* candidatePool().length when globalSetup runs
  FirstToken,   \* nextCurrencyId of the chain when globalSetup runs
  Undef,        \* undefined
  NoCaller,     \* the value of ipc.config.id before any call
  MaxCalls      \* bound: calls a test makes

Callers == Tests \cup Refills
Processes == Workers \cup {Main}
Kinds == {"getNonce", "getCandidate", "getTokenId"}

ASSUME ProcessAssumption ==
  /\ Main \notin Workers
  /\ Tests \cap Refills = {}
  /\ ProcOf \in [Callers -> Processes]
  /\ \A t \in Tests : ProcOf[t] \in Workers
  /\ \A r \in Refills : ProcOf[r] = Main
  /\ NoCaller \notin Callers

ASSUME CounterAssumption ==
  /\ Batch \in Nat \ {0}
  /\ Backend \in BOOLEAN
  /\ FeeLocked \in BOOLEAN
  /\ MayFail \subseteq Refills
  /\ FirstNonce \in Nat /\ FirstCandidate \in Nat /\ FirstToken \in Nat
  /\ Undef \notin Nat
  /\ MaxCalls \in Nat

VARIABLES
  setup,          \* progress of globalConfig: "gasless", "assets", "ready"
  nonce,          \* server: next nonce of the sudo account
  numCollators,   \* server: next candidate number
  assetIds,       \* server: registered ids, served from the end
  nextCurrencyId, \* chain: next id that a registration gets
  batch,          \* per refill: the ids its batch has got, not yet in the pool
  conn,           \* per process: socket "closed", "connecting" or "open"
  configId,       \* per process: ipc.config.id, the last caller
  onConnect,      \* per process: callers whose "connect" handler will fire
  handlers,       \* per process: callers with a reply handler on the socket
  unsent,         \* per process: emits queued behind an answer (config.sync)
  wire,           \* per process: requests on the socket, not yet served
  replies,        \* per process: answers on the socket, not yet delivered
  orphans,        \* requests of destroyed sockets, by kind, not yet served
  pc,             \* per caller: "idle", "starting", "waiting", "finalizing",
                  \* "registered", "failed"
  kind,           \* per caller: what its current call asks for
  got             \* per caller: the answers its calls resolved with

server  == <<nonce, numCollators, assetIds>>
sockets == <<conn, configId, onConnect, handlers, unsent>>
channel == <<wire, replies, orphans>>
callers == <<pc, kind, got>>
vars == <<setup, server, nextCurrencyId, batch, sockets, channel, callers>>

Request(k, c) == [kind |-> k, id |-> c]
Reply(k, c, v) == [kind |-> k, id |-> c, value |-> v]
Got(k, v) == [kind |-> k, value |-> v]

\* mutant: the events are not filtered, one that carries no id comes last
RegisteredIdsUnfiltered(first) ==
  [i \in 1..(Batch + 1) |-> IF i = 1 THEN Undef ELSE first + Batch + 1 - i]

\* ids of a batch are consecutive and the pool is the reversed batch, so that
\* pop() serves the lowest id first
RegisteredIds(first) == [i \in 1..Batch |-> first + Batch - i]

-----------------------------------------------------------------------------
Init ==
  /\ setup = "gasless"
  /\ nonce = FirstNonce
  /\ numCollators = FirstCandidate
  /\ assetIds = <<>>
  /\ nextCurrencyId = FirstToken
  /\ batch = [r \in Refills |-> <<>>]
  /\ conn = [p \in Processes |-> "closed"]
  /\ configId = [p \in Processes |-> NoCaller]
  /\ onConnect = [p \in Processes |-> <<>>]
  /\ handlers = [p \in Processes |-> {}]
  /\ unsent = [p \in Processes |-> <<>>]
  /\ wire = [p \in Processes |-> <<>>]
  /\ replies = [p \in Processes |-> <<>>]
  /\ orphans = [k \in Kinds |-> 0]
  /\ pc = [c \in Callers |-> "idle"]
  /\ kind = [c \in Callers |-> "getNonce"]
  /\ got = [c \in Callers |-> <<>>]

(***************************************************************************)
(* globalConfig, before any worker exists: setupGasLess spends a nonce     *)
(* unless the chain already has a fee lock, then a backend run registers   *)
(* the first batch, which spends another.  Nothing else uses the server    *)
(* meanwhile, so each is one step.                                         *)
(***************************************************************************)
SetupGasLess ==
  /\ setup = "gasless"
  /\ setup' = "assets"
  /\ nonce' = IF FeeLocked THEN nonce ELSE nonce + 1
  /\ UNCHANGED <<numCollators, assetIds, nextCurrencyId, batch, sockets, channel,
                 callers>>

SetupAssets ==
  /\ setup = "assets"
  /\ setup' = "ready"
  /\ IF Backend
       THEN /\ nonce' = nonce + 1
            /\ assetIds' = RegisteredIds(nextCurrencyId)
            /\ nextCurrencyId' = nextCurrencyId + Batch
       ELSE UNCHANGED <<nonce, assetIds, nextCurrencyId>>
  /\ UNCHANGED <<numCollators, batch, sockets, channel, callers>>

-----------------------------------------------------------------------------
\* mutant: the new call's reply handler replaces the others'
AskReplacingHandlers(c, k) ==
  LET p == ProcOf[c] IN
  /\ pc' = [pc EXCEPT ![c] = "waiting"]
  /\ kind' = [kind EXCEPT ![c] = k]
  /\ configId' = [configId EXCEPT ![p] = c]
  /\ handlers' = [handlers EXCEPT ![p] = {c}]
  /\ conn' = [conn EXCEPT ![p] = IF @ = "closed" THEN "connecting" ELSE @]
  /\ onConnect' = [onConnect EXCEPT ![p] =
                     IF conn[p] = "open" THEN @ ELSE Append(@, c)]
  /\ UNCHANGED <<setup, server, nextCurrencyId, batch, unsent, channel, got>>

(***************************************************************************)
(* getNonceFromIPC, getCandidateCountFromIPC, getTokenIdFromIPC up to the  *)
(* first await: overwrite ipc.config.id, connectTo, add the two handlers.  *)
(* A live socket is reused, and its "connect" event may be over already.   *)
(***************************************************************************)
Ask(c, k) ==
  LET p == ProcOf[c] IN
  /\ pc' = [pc EXCEPT ![c] = "waiting"]
  /\ kind' = [kind EXCEPT ![c] = k]
  /\ configId' = [configId EXCEPT ![p] = c]
  /\ handlers' = [handlers EXCEPT ![p] = @ \cup {c}]
  /\ conn' = [conn EXCEPT ![p] = IF @ = "closed" THEN "connecting" ELSE @]
  /\ onConnect' = [onConnect EXCEPT ![p] =
                     IF conn[p] = "open" THEN @ ELSE Append(@, c)]
  /\ UNCHANGED <<setup, server, nextCurrencyId, batch, unsent, channel, got>>

\* a test calls getSudoNonce, getNextCandidateNum or getTokenId
TestAsks(t, k) ==
  /\ setup = "ready"
  /\ pc[t] = "idle"
  /\ Len(got[t]) < MaxCalls
  /\ Ask(t, k)

\* registerAssets reaches batchAsSudoFinalized
RefillAsks(r) ==
  /\ pc[r] = "starting"
  /\ Ask(r, "getNonce")

\* mutant: Main emits everything at once, as if ipc.config.sync were off
ConnectWithoutSync(p) ==
  /\ conn[p] = "connecting"
  /\ conn' = [conn EXCEPT ![p] = "open"]
  /\ onConnect' = [onConnect EXCEPT ![p] = <<>>]
  /\ wire' = [wire EXCEPT ![p] =
                [i \in DOMAIN onConnect[p] |->
                   Request(kind[onConnect[p][i]], configId[p])]]
  /\ UNCHANGED <<setup, server, nextCurrencyId, batch, configId, handlers, unsent,
                 replies, orphans, callers>>

(***************************************************************************)
(* The socket connects: every "connect" handler emits its request, with    *)
(* the value ipc.config.id has now.  Main runs with ipc.config.sync, which *)
(* holds all but the first emit back until an answer arrives.              *)
(***************************************************************************)
Connect(p) ==
  LET emits == [i \in DOMAIN onConnect[p] |->
                  Request(kind[onConnect[p][i]], configId[p])]
  IN
  /\ conn[p] = "connecting"
  /\ conn' = [conn EXCEPT ![p] = "open"]
  /\ onConnect' = [onConnect EXCEPT ![p] = <<>>]
  /\ IF p = Main
       THEN /\ wire' = [wire EXCEPT ![p] = <<Head(emits)>>]
            /\ unsent' = [unsent EXCEPT ![p] = Tail(emits)]
       ELSE /\ wire' = [wire EXCEPT ![p] = emits]
            /\ UNCHANGED unsent
  /\ UNCHANGED <<setup, server, nextCurrencyId, batch, configId, handlers, replies,
                 orphans, callers>>

-----------------------------------------------------------------------------
(***************************************************************************)
(* The server's handlers.  Answer(k) is what the reply carries, Handle(k)  *)
(* what the handler does to the counters.                                  *)
(***************************************************************************)
Answer(k) ==
  CASE k = "getNonce"     -> nonce
    [] k = "getCandidate" -> numCollators
    [] k = "getTokenId"   -> IF assetIds = <<>> THEN Undef
                             ELSE assetIds[Len(assetIds)]

\* mutant: addn instead of iaddn, the sum is thrown away
HandleGetNonceWithAddn == UNCHANGED <<nonce, numCollators, assetIds, pc>>

HandleGetNonce ==
  /\ nonce' = nonce + 1
  /\ UNCHANGED <<numCollators, assetIds, pc>>

HandleGetCandidate ==
  /\ numCollators' = numCollators + 1
  /\ UNCHANGED <<nonce, assetIds, pc>>

\* One more registerAssets begins, and nobody waits for it (the free slots of
\* Refills bound how many overlap).  A batch that failed before is forgotten.
StartRefill ==
  \E r \in Refills :
    /\ pc[r] \in {"idle", "failed"}
    /\ pc' = [c \in Callers |-> IF c = r THEN "starting"
                               ELSE IF pc[c] = "failed" THEN "idle" ELSE pc[c]]

\* mutants: the pool is read without pop(); it is tested before pop()
HandleGetTokenIdPeeking ==
  /\ IF Len(assetIds) = 0 THEN StartRefill ELSE UNCHANGED pc
  /\ UNCHANGED <<nonce, numCollators, assetIds>>
HandleGetTokenIdTestingFirst ==
  /\ assetIds' = SubSeq(assetIds, 1, Len(assetIds) - 1)
  /\ IF Len(assetIds) = 0 THEN StartRefill ELSE UNCHANGED pc
  /\ UNCHANGED <<nonce, numCollators>>

\* pop() the pool, and refill it when nothing is left behind
HandleGetTokenId ==
  /\ assetIds' = SubSeq(assetIds, 1, Len(assetIds) - 1)
  /\ IF Len(assetIds) <= 1 THEN StartRefill ELSE UNCHANGED pc
  /\ UNCHANGED <<nonce, numCollators>>

Handle(k) ==
  \/ k = "getNonce" /\ HandleGetNonce
  \/ k = "getCandidate" /\ HandleGetCandidate
  \/ k = "getTokenId" /\ HandleGetTokenId

Serve(p) ==
  /\ wire[p] # <<>>
  /\ LET m == Head(wire[p]) IN
       /\ Handle(m.kind)
       /\ replies' = [replies EXCEPT ![p] =
                        Append(@, Reply(m.kind, m.id, Answer(m.kind)))]
  /\ wire' = [wire EXCEPT ![p] = Tail(@)]
  /\ UNCHANGED <<setup, nextCurrencyId, batch, sockets, orphans, kind, got>>

\* a request whose socket the client has destroyed is handled all the same,
\* and its answer goes nowhere
ServeOrphan(k) ==
  /\ orphans[k] > 0
  /\ Handle(k)
  /\ orphans' = [orphans EXCEPT ![k] = @ - 1]
  /\ UNCHANGED <<setup, nextCurrencyId, batch, sockets, wire, replies, kind, got>>

-----------------------------------------------------------------------------
\* requests of kind k on the wire of p
OnWire(p, k) == Cardinality({i \in DOMAIN wire[p] : wire[p][i].kind = k})

\* mutant: the socket is left open after the answer
ResolveWithoutDisconnect(p) ==
  /\ replies[p] # <<>>
  /\ LET m == Head(replies[p]) IN
       /\ m.id \in handlers[p]
       /\ kind[m.id] = m.kind
       /\ got' = [got EXCEPT ![m.id] = Append(@, Got(m.kind, m.value))]
       /\ pc' = [pc EXCEPT ![m.id] = IF m.id \in Refills THEN "finalizing"
                                     ELSE "idle"]
  /\ replies' = [replies EXCEPT ![p] = Tail(@)]
  /\ UNCHANGED <<setup, server, nextCurrencyId, batch, sockets, wire, orphans, kind>>

(***************************************************************************)
(* An answer arrives for a caller that listens for it: ipc.disconnect      *)
(* drops every handler of the process and destroys the socket with all     *)
(* that is on it, then the call resolves.                                  *)
(***************************************************************************)
Resolve(p) ==
  /\ replies[p] # <<>>
  /\ LET m == Head(replies[p]) IN
       /\ m.id \in handlers[p]
       /\ kind[m.id] = m.kind
       /\ got' = [got EXCEPT ![m.id] = Append(@, Got(m.kind, m.value))]
       /\ pc' = [pc EXCEPT ![m.id] = IF m.id \in Refills THEN "finalizing"
                                     ELSE "idle"]
  /\ conn' = [conn EXCEPT ![p] = "closed"]
  /\ handlers' = [handlers EXCEPT ![p] = {}]
  /\ unsent' = [unsent EXCEPT ![p] = <<>>]
  /\ replies' = [replies EXCEPT ![p] = <<>>]
  /\ orphans' = [k \in Kinds |-> orphans[k] + OnWire(p, k)]
  /\ wire' = [wire EXCEPT ![p] = <<>>]
  /\ UNCHANGED <<setup, server, nextCurrencyId, batch, configId, onConnect, kind>>

\* an answer nobody listens for is dropped; the queue of a sync process moves
Ignore(p) ==
  /\ replies[p] # <<>>
  /\ LET m == Head(replies[p]) IN
       ~ (m.id \in handlers[p] /\ kind[m.id] = m.kind)
  /\ replies' = [replies EXCEPT ![p] = Tail(@)]
  /\ IF unsent[p] # <<>>
       THEN /\ wire' = [wire EXCEPT ![p] = Append(@, Head(unsent[p]))]
            /\ unsent' = [unsent EXCEPT ![p] = Tail(@)]
       ELSE UNCHANGED <<wire, unsent>>
  /\ UNCHANGED <<setup, server, nextCurrencyId, batch, conn, configId, onConnect,
                 handlers, orphans, callers>>

\* chain: the batch of r is executed, and its tokens get the next ids
Registered(r) ==
  /\ pc[r] = "finalizing"
  /\ pc' = [pc EXCEPT ![r] = "registered"]
  /\ batch' = [batch EXCEPT ![r] = RegisteredIds(nextCurrencyId)]
  /\ nextCurrencyId' = nextCurrencyId + Batch
  /\ UNCHANGED <<setup, server, sockets, channel, kind, got>>

(***************************************************************************)
(* registerAssets resolves: the batch is finalized and its ids replace     *)
(* whatever the pool holds by now, be it of a later batch.                 *)
(***************************************************************************)
Refilled(r) ==
  /\ pc[r] = "registered"
  /\ pc' = [pc EXCEPT ![r] = "idle"]
  /\ assetIds' = batch[r]
  /\ batch' = [batch EXCEPT ![r] = <<>>]
  /\ UNCHANGED <<setup, nonce, numCollators, nextCurrencyId, sockets, channel, kind, got>>

\* the batch is rejected: nobody handles the rejection, the pool stays as it is
RefillFails(r) ==
  /\ r \in MayFail
  /\ pc[r] = "finalizing"
  /\ pc' = [pc EXCEPT ![r] = "failed"]
  /\ UNCHANGED <<setup, server, nextCurrencyId, batch, sockets, channel, kind, got>>

-----------------------------------------------------------------------------
Next ==
  \/ SetupGasLess
  \/ SetupAssets
  \/ \E t \in Tests, k \in Kinds : TestAsks(t, k)
  \/ \E r \in Refills : RefillAsks(r) \/ Registered(r) \/ Refilled(r) \/ RefillFails(r)
  \/ \E p \in Processes : Connect(p) \/ Serve(p) \/ Resolve(p) \/ Ignore(p)
  \/ \E k \in Kinds : ServeOrphan(k)

Spec == Init /\ [][Next]_vars

\* The event loops keep running and the chain finalizes the batches; nothing
\* obliges a test to ask.
Fairness ==
  /\ WF_vars(SetupGasLess)
  /\ WF_vars(SetupAssets)
  /\ \A p \in Processes : /\ WF_vars(Connect(p))
                          /\ WF_vars(Serve(p))
                          /\ WF_vars(Resolve(p))
                          /\ WF_vars(Ignore(p))
  /\ \A r \in Refills : /\ WF_vars(RefillAsks(r))
                        /\ WF_vars(Registered(r)) /\ WF_vars(Refilled(r))
  /\ \A k \in Kinds : WF_vars(ServeOrphan(k))

FairSpec == Spec /\ Fairness

-----------------------------------------------------------------------------
Statuses == {"idle", "starting", "waiting", "finalizing", "registered", "failed"}
Values == Nat \cup {Undef}
Requests == [kind : Kinds, id : Callers \cup {NoCaller}]
Replies == [kind : Kinds, id : Callers \cup {NoCaller}, value : Values]
Results == [kind : Kinds, value : Values]

\* Every variable has the type the code gives it.
TypeOK ==
  /\ setup \in {"gasless", "assets", "ready"}
  /\ nonce \in Nat
  /\ numCollators \in Nat
  /\ assetIds \in Seq(Nat)
  /\ nextCurrencyId \in Nat
  /\ batch \in [Refills -> Seq(Nat)]
  /\ conn \in [Processes -> {"closed", "connecting", "open"}]
  /\ configId \in [Processes -> Callers \cup {NoCaller}]
  /\ onConnect \in [Processes -> Seq(Callers)]
  /\ handlers \in [Processes -> SUBSET Callers]
  /\ unsent \in [Processes -> Seq(Requests)]
  /\ wire \in [Processes -> Seq(Requests)]
  /\ replies \in [Processes -> Seq(Replies)]
  /\ orphans \in [Kinds -> Nat]
  /\ pc \in [Callers -> Statuses]
  /\ kind \in [Callers -> Kinds]
  /\ got \in [Callers -> Seq(Results)]

\* the k-th thing caller c got is a number of kind kd
Grants(kd) == {g \in UNION {{c} \X DOMAIN got[c] : c \in Callers} :
                 got[g[1]][g[2]].kind = kd}
ValueOf(g) == got[g[1]][g[2]].value

DistinctGrants(kd) ==
  \A g, h \in Grants(kd) :
    g # h /\ ValueOf(g) # Undef => ValueOf(g) # ValueOf(h)

(***************************************************************************)
(* No two calls of getSudoNonce, by whatever process and however they      *)
(* overlap, resolve with the same nonce, no two calls of                   *)
(* getNextCandidateNum with the same number, and no two calls of           *)
(* getTokenId with the same registered id, although overlapping refills    *)
(* overwrite the pool (globalSetup.js:39-56).                              *)
(***************************************************************************)
GrantsDistinct == \A kd \in Kinds : DistinctGrants(kd)

\* the first answer on p's socket that a caller of p listens for, if any
Listened(p, i) == /\ replies[p][i].id \in handlers[p]
                  /\ kind[replies[p][i].id] = replies[p][i].kind
WillResolve(p, i) == Listened(p, i) /\ \A j \in 1..(i - 1) : ~ Listened(p, j)

\* the nonce from which tests and refills are served
FirstServed == FirstNonce + (IF FeeLocked THEN 0 ELSE 1)
                          + (IF Backend THEN 1 ELSE 0)

\* c waits, and an answer to it is sure to come
WillBeAnswered(c) ==
  LET p == ProcOf[c]
      ForCaller(s) == \E i \in DOMAIN s : s[i].id = c /\ s[i].kind = kind[c]
  IN /\ pc[c] = "waiting"
     /\ c \in handlers[p]
     /\ \/ conn[p] = "connecting" /\ configId[p] = c
        \/ ForCaller(wire[p]) \/ ForCaller(replies[p]) \/ ForCaller(unsent[p])

(***************************************************************************)
(* While the pool is empty a registration is under way, or one has failed  *)
(* since the last request (globalSetup.js:48-56): the handler that took    *)
(* the last id, or found none, started one, also when those before it have *)
(* failed, and of the registrations that fight over Main's socket one      *)
(* always survives.                                                        *)
(***************************************************************************)
EmptyPoolIsRefilling ==
  Backend /\ setup = "ready" /\ assetIds = <<>> =>
    \E r \in Refills : \/ pc[r] \in {"starting", "finalizing", "registered", "failed"}
                       \/ WillBeAnswered(r)

(***************************************************************************)
(* A test that asks gets an answer (the promises of SudoDB.ts have neither *)
(* a timeout nor a reject).                                                *)
(***************************************************************************)
TestsAreAnswered == \A t \in Tests : pc[t] = "waiting" ~> pc[t] = "idle"

(***************************************************************************)
(* Whatever calls share a socket, one of them resolves and closes it.      *)
(***************************************************************************)
SocketsAreReleased ==
  \A p \in Processes : conn[p] # "closed" ~> conn[p] = "closed"

(***************************************************************************)
(* What getTokenId hands out is a registered id, as its declared type      *)
(* says (SudoDB.ts:125 declares Promise<string>).                          *)
(***************************************************************************)
TokenGrantsDefined == \A g \in Grants("getTokenId") : ValueOf(g) # Undef

-----------------------------------------------------------------------------
(***************************************************************************)
(* Why no number is served twice.  Whatever has left the server, delivered *)
(* or on a socket, lies below the counter it came from, the ids in the     *)
(* pool or on their way to it have not left it, and no two are the same.   *)
(***************************************************************************)
Limit(kd) == CASE kd = "getNonce"     -> nonce
               [] kd = "getCandidate" -> numCollators
               [] kd = "getTokenId"   -> nextCurrencyId

\* the ids in the pool, and those on their way to it
Ids(s) == {s[i] : i \in DOMAIN s}
Stock == Ids(assetIds) \cup UNION {Ids(batch[r]) : r \in Refills}

Below(m) == m.value # Undef => m.value < Limit(m.kind)
Same(m, n) == m.kind = n.kind /\ m.value # Undef /\ m.value = n.value
Pooled(m) == m.kind = "getTokenId" /\ m.value \in Stock

LeftServerOnce ==
  /\ \A c, d \in Callers : \A i \in DOMAIN got[c], j \in DOMAIN got[d] :
       Same(got[c][i], got[d][j]) => c = d /\ i = j
  /\ \A c \in Callers, p \in Processes :
       \A i \in DOMAIN got[c], j \in DOMAIN replies[p] :
         ~ Same(got[c][i], replies[p][j])
  /\ \A p, q \in Processes :
       \A i \in DOMAIN replies[p], j \in DOMAIN replies[q] :
         Same(replies[p][i], replies[q][j]) => p = q /\ i = j

LeftServer ==
  /\ \A c \in Callers : \A i \in DOMAIN got[c] :
       Below(got[c][i]) /\ ~ Pooled(got[c][i])
  /\ \A p \in Processes : \A i \in DOMAIN replies[p] :
       Below(replies[p][i]) /\ ~ Pooled(replies[p][i])

NoRepeat(s) == \A i, j \in DOMAIN s : s[i] = s[j] => i = j
PoolFresh ==
  /\ \A v \in Stock : v < nextCurrencyId
  /\ NoRepeat(assetIds)
  /\ \A r \in Refills :
       /\ NoRepeat(batch[r])
       /\ Ids(batch[r]) \cap Ids(assetIds) = {}
       /\ \A q \in Refills : q # r => Ids(batch[r]) \cap Ids(batch[q]) = {}

\* a registered batch has ids
Stocked == \A r \in Refills : pc[r] = "registered" => batch[r] # <<>>

\* a socket that connects has a request to send
Connecting == \A p \in Processes : conn[p] = "connecting" => onConnect[p] # <<>>

\* The inductive invariant behind both distinctness properties.
IInv == TypeOK /\ Connecting /\ LeftServerOnce /\ LeftServer /\ PoolFresh

(***************************************************************************)
(* What is on a socket is addressed to a caller that listens there: an     *)
(* answer that resolves a call takes the whole socket with it.             *)
(***************************************************************************)
Addressed ==
  \A p \in Processes :
    /\ \A c \in handlers[p] : ProcOf[c] = p /\ pc[c] = "waiting"
    /\ conn[p] = "connecting" => configId[p] \in handlers[p]
    /\ \A i \in DOMAIN wire[p] : wire[p][i].id \in handlers[p]
    /\ \A i \in DOMAIN unsent[p] : unsent[p][i].id \in handlers[p]
    /\ \A i \in DOMAIN replies[p] : replies[p][i].id \in handlers[p]

\* nobody uses the server before globalSetup is done
SettingUp ==
  /\ setup = "gasless" => nonce = FirstNonce
  /\ setup = "assets" => nonce = FirstNonce + (IF FeeLocked THEN 0 ELSE 1)
  /\ setup # "ready" =>
       /\ \A c \in Callers : pc[c] = "idle"
       /\ \A k \in Kinds : orphans[k] = 0
       /\ \A p \in Processes : /\ conn[p] = "closed"
                               /\ wire[p] = <<>> /\ replies[p] = <<>>

(***************************************************************************)
(* Main asks for nonces only.  Its open socket carries an exchange, and it *)
(* carries nothing that nobody listens for.                                *)
(***************************************************************************)
MainSocket ==
  /\ \A r \in Refills : kind[r] = "getNonce"
  /\ \A p \in Processes : \A i \in DOMAIN onConnect[p] : ProcOf[onConnect[p][i]] = p
  /\ \A i \in DOMAIN wire[Main] : wire[Main][i].kind = "getNonce"
  /\ \A i \in DOMAIN unsent[Main] : unsent[Main][i].kind = "getNonce"
  /\ \A i \in DOMAIN replies[Main] : replies[Main][i].kind = "getNonce"
  /\ conn[Main] = "open" => wire[Main] # <<>> \/ replies[Main] # <<>>

(***************************************************************************)
(* With one call at a time in each worker a socket carries one exchange,   *)
(* and its answer is listened for; Main's sync queue sees to that too.     *)
(***************************************************************************)
OneExchange ==
  /\ \A k \in Kinds : orphans[k] = 0
  /\ \A p \in Processes :
       /\ conn[p] # "connecting" => onConnect[p] = <<>>
       /\ conn[p] # "open" => wire[p] = <<>> /\ replies[p] = <<>>
       /\ Len(wire[p]) + Len(replies[p]) <= 1
       /\ \A i \in DOMAIN wire[p] : wire[p][i].kind = kind[wire[p][i].id]
       /\ \A i \in DOMAIN replies[p] : replies[p][i].kind = kind[replies[p][i].id]
       /\ p # Main => Len(onConnect[p]) <= 1

-----------------------------------------------------------------------------
(***************************************************************************)
(* A call takes its nonce when the server handles the request: what the    *)
(* callers hold, plus the answers that are sure to be delivered, is the    *)
(* abstract counter.                                                       *)
(***************************************************************************)
NonceIndices(s) == {i \in DOMAIN s : s[i].kind = "getNonce"}
Rank(s, i) == Cardinality({j \in NonceIndices(s) : j <= i})
NthNonce(s, n) ==
  CHOOSE v \in {s[i].value : i \in {i \in NonceIndices(s) : Rank(s, i) = n}} : TRUE
NoncesOf(s) == [n \in 1..Cardinality(NonceIndices(s)) |-> NthNonce(s, n)]

Arriving(c) ==
  LET p == ProcOf[c]
      mine == {i \in DOMAIN replies[p] : /\ replies[p][i].id = c
                                         /\ replies[p][i].kind = "getNonce"
                                         /\ WillResolve(p, i)}
  IN IF mine = {} THEN <<>> ELSE <<replies[p][CHOOSE i \in mine : TRUE].value>>

Ticket == INSTANCE TicketCounter WITH
  Holders <- Callers,
  First <- {FirstServed},
  next <- IF setup = "ready" THEN nonce ELSE FirstServed,
  taken <- [c \in Callers |-> NoncesOf(got[c]) \o Arriving(c)]

\* Calls of getSudoNonce behave as atomic takes of one counter, and no nonce is
\* lost: a gap in the sudo account would block every later sudo transaction.
NoncesAreTickets == Ticket!TicketSpec

\* With several calls in one process they still do, but numbers get lost.
NoncesAreLossyTickets == Ticket!LossyTicketSpec

=============================================================================
