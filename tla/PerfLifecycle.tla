---------------------------- MODULE PerfLifecycle ----------------------------
(***************************************************************************)
(* A run of the performance tests from arrange to the exit of the process: *)
(* performanceTestItem.ts, the items that extend it, the trackers of       *)
(* testReporter.ts and main of index.ts.  What runTransactions does is     *)
(* PerfRunner's subject: here it signs with the users that arrange has     *)
(* minted tokens for, and ends.                                            *)
(***************************************************************************)
EXTENDS Naturals, FiniteSets

CONSTANTS
  Items,      \* the commands to run
  NodeCounts, \* testParams.nodes.length
  Threads,    \* testParams.threads
  Durations,  \* testParams.duration, which may be NaN
  LiqAssets,  \* the liquidity tokens of the items that mint some: 2
  MaxActive   \* callbacks of a tracker that run at once

AllItems == {"transfer", "swap", "schedule", "scheduleActivate", "claim"}

\* parseInt of what is no number, which is neither <= 0 nor > 10000
NaN == 0

\* verifyArgs
ASSUME ArgsAssumption ==
  /\ Items \subseteq AllItems
  /\ NodeCounts \subseteq Nat \ {0} /\ Threads \in Nat \ {0}
  /\ Durations \subseteq {NaN} \cup 1 .. 10000
  /\ LiqAssets \in Nat /\ MaxActive \in Nat \ {0}

VARIABLES
  item, nodes, duration,  \* the arguments
  pc,        \* what run, or main, awaits
  executed,  \* chain: the next nonce of sudo
  ipcNonce,  \* the counter of the process's own nonce server
  batches,   \* batches that arrange has still to send with its nonces
  node,      \* mintTokensToUsers: nodeNumber
  user,      \*   and i
  sudoNonce, \*   and sudoNonce
  flying,    \* mints that have not reached the pool
  pooled,    \* chain: mints in the pool
  lost,      \* mints that were refused: mintAsset logs and goes on
  funded,    \* chain: who has got which asset, as <<node, user, asset>>
  trackers,  \* per tracker: measurements, running callbacks, has it resolved?
  threw      \* history: a quantile had no data

arguments == <<item, nodes, duration>>
minting == <<node, user, sudoNonce, flying, pooled, lost, funded>>
vars == <<arguments, pc, executed, ipcNonce, batches, minting, trackers, threw>>

Native == 1
Trackers == {"executed", "enqueued", "pending"}

\* process.exit(0) and process.exit(-1)
Exits == {"exit0", "exit1"}

\* the batches that the items send with nonces of the server: the issuance of
\* two assets, their registration, the pools, and their rewards
Batches(i) == CASE i \in {"schedule", "scheduleActivate"} -> 3 [] i = "claim" -> 4 [] OTHER -> 0

\* the assets that the items mint to every user: native tokens, and liquidity
AssetsOf(i) == IF i \in {"scheduleActivate", "claim"} THEN 1 + LiqAssets ELSE 1

NoMeasurement == [t \in Trackers |-> [count |-> 0, running |-> 0, resolved |-> FALSE]]

\* arrange of performanceTestItem has read the nonce of sudo and serves it
Init ==
  /\ item \in Items /\ nodes \in NodeCounts /\ duration \in Durations
  /\ pc = "arrange"
  /\ executed = 0 /\ ipcNonce = 0
  /\ batches = Batches(item)
  /\ node = 0 /\ user = 0 /\ sudoNonce = 0
  /\ flying = {} /\ pooled = {} /\ lost = {} /\ funded = {}
  /\ trackers = NoMeasurement
  /\ threw = FALSE

-----------------------------------------------------------------------------
\* batchAsSudoFinalized: a nonce of the server, and the batch is in a block
ServeNonce ==
  /\ pc = "arrange" /\ batches > 0
  /\ ipcNonce' = ipcNonce + 1
  /\ IF ipcNonce = executed
     THEN batches' = batches - 1 /\ executed' = executed + 1 /\ UNCHANGED pc
     ELSE pc' = "exit1" /\ UNCHANGED <<batches, executed>>
  /\ UNCHANGED <<arguments, minting, trackers, threw>>

\* swap does not set Assets.legacy, so setupUserWithCurrencies asks the server
\* for a token id.  This server has no handler for it and never answers.
AskTokenId ==
  /\ pc = "arrange" /\ item = "swap"
  /\ pc' = "tokenId"
  /\ UNCHANGED <<arguments, executed, ipcNonce, batches, minting, trackers, threw>>

Prepared ==
  /\ pc = "arrange" /\ item # "swap" /\ batches = 0
  /\ pc' = "nonce"
  /\ UNCHANGED <<arguments, executed, ipcNonce, batches, minting, trackers, threw>>

\* mutant: the nonce of a later node is one too high
ReadTooHighNonce ==
  /\ pc = "nonce"
  /\ pc' = "users"
  /\ sudoNonce' = executed + Cardinality(pooled) + 1
  /\ user' = 0
  /\ UNCHANGED <<arguments, executed, ipcNonce, batches, node, flying, pooled, lost, funded,
                 trackers, threw>>

\* getNonce at a node, which has seen some of what is in the pools
ReadSudoNonce ==
  /\ pc = "nonce"
  /\ pc' = "users"
  /\ sudoNonce' \in {n \in executed .. executed + Cardinality(pooled) :
                       executed .. n - 1 \subseteq {m.nonce : m \in pooled}}
  /\ user' = 0
  /\ UNCHANGED <<arguments, executed, ipcNonce, batches, node, flying, pooled, lost, funded,
                 trackers, threw>>

\* mutant: sudoNonce stands still
MintWithSameNonce ==
  /\ pc = "users"
  /\ flying' = flying \cup {[node |-> node, user |-> user, asset |-> a, nonce |-> sudoNonce] :
                              a \in 1 .. AssetsOf(item)}
  /\ UNCHANGED sudoNonce
  /\ IF user + 1 < Threads
     THEN user' = user + 1 /\ UNCHANGED <<node, pc>>
     ELSE /\ node' = node + 1
          /\ pc' = IF node + 1 < nodes THEN "nonce" ELSE "settle"
          /\ UNCHANGED user
  /\ UNCHANGED <<arguments, executed, ipcNonce, batches, pooled, lost, funded, trackers, threw>>

\* the nonce of a user is there: mintAsset for each asset, not awaited
MintToUser ==
  /\ pc = "users"
  /\ flying' = flying \cup
       {[node |-> node, user |-> user, asset |-> a, nonce |-> sudoNonce + a - 1] :
          a \in 1 .. AssetsOf(item)}
  /\ sudoNonce' = sudoNonce + AssetsOf(item)
  /\ IF user + 1 < Threads
     THEN user' = user + 1 /\ UNCHANGED <<node, pc>>
     ELSE /\ node' = node + 1
          /\ pc' = IF node + 1 < nodes THEN "nonce" ELSE "settle"
          /\ UNCHANGED user
  /\ UNCHANGED <<arguments, executed, ipcNonce, batches, pooled, lost, funded, trackers, threw>>

\* external: a mint reaches the pool, which refuses a nonce that is taken
Arrive(m) ==
  /\ flying' = flying \ {m}
  /\ IF m.nonce < executed \/ \E o \in pooled : o.nonce = m.nonce
     THEN lost' = lost \cup {m} /\ UNCHANGED pooled
     ELSE pooled' = pooled \cup {m} /\ UNCHANGED lost
  /\ UNCHANGED <<arguments, pc, executed, ipcNonce, batches, node, user, sudoNonce, funded,
                 trackers, threw>>

\* external: a block with the mint whose turn it is
Execute(m) ==
  /\ m.nonce = executed
  /\ pooled' = pooled \ {m}
  /\ executed' = executed + 1
  /\ funded' = funded \cup {<<m.node, m.user, m.asset>>}
  /\ UNCHANGED <<arguments, pc, ipcNonce, batches, node, user, sudoNonce, flying, lost,
                 trackers, threw>>

AllUsers == (0 .. nodes - 1) \X (0 .. Threads - 1)
CanPay(u) == <<u[1], u[2], Native>> \in funded

\* Promise.all(mintPromises), and for claim the activations, which the pool
\* refuses for a user that cannot pay
MintsSettled ==
  /\ pc = "settle" /\ flying \cup pooled = {}
  /\ pc' = IF item = "claim" /\ \E u \in AllUsers : ~CanPay(u) THEN "exit1" ELSE "act"
  /\ UNCHANGED <<arguments, executed, ipcNonce, batches, minting, trackers, threw>>

-----------------------------------------------------------------------------
Tracking == pc \in {"run", "expect", "teardown"}

\* act subscribes the trackers and starts the threads
Act ==
  /\ pc = "act"
  /\ pc' = "run"
  /\ UNCHANGED <<arguments, executed, ipcNonce, batches, minting, trackers, threw>>

\* a thread signs with a user of its own number, at the node of its turn
Signers == {<<t % nodes, t>> : t \in 0 .. Threads - 1}

\* runTransactions: the refusal of a signer that cannot pay is handled nowhere
\* and ends the process
ThreadsEnd ==
  /\ pc = "run"
  /\ pc' = IF \A u \in Signers : CanPay(u) THEN "expect" ELSE "exit1"
  /\ UNCHANGED <<arguments, executed, ipcNonce, batches, minting, trackers, threw>>

\* every tracker that has not unsubscribed gets the head
NewHead ==
  /\ Tracking
  /\ \E t \in Trackers : ~trackers[t].resolved
  /\ \A t \in Trackers : ~trackers[t].resolved => trackers[t].running < MaxActive
  /\ trackers' = [t \in Trackers |->
       IF trackers[t].resolved THEN trackers[t] ELSE [trackers[t] EXCEPT !.running = @ + 1]]
  /\ UNCHANGED <<arguments, pc, executed, ipcNonce, batches, minting, threw>>

\* mutant: nobody unsubscribes
MeasureForever(t) ==
  /\ Tracking
  /\ trackers[t].running > 0
  /\ trackers' = [trackers EXCEPT ![t].count = @ + 1, ![t].running = @ - 1]
  /\ UNCHANGED <<arguments, pc, executed, ipcNonce, batches, minting, threw>>

\* a callback has its answer; the first that finds more than duration results
\* resolves, those that still run push theirs to the same list.  No number is
\* more than NaN: the results pile up, and are not counted here
Measure(t) ==
  /\ Tracking
  /\ trackers[t].running > 0
  /\ trackers' = [trackers EXCEPT
       ![t] = [count |-> IF duration = NaN THEN @.count ELSE @.count + 1,
               running |-> @.running - 1,
               resolved |-> @.resolved \/ (duration # NaN /\ @.count + 1 > duration)]]
  /\ UNCHANGED <<arguments, pc, executed, ipcNonce, batches, minting, threw>>

Ignored == 5   \* ignore first few blocks

\* the quantiles of what is left, and whether they reach the throughput
Expect ==
  /\ pc = "expect"
  /\ \A t \in Trackers : trackers[t].resolved
  /\ IF \E t \in Trackers : trackers[t].count <= Ignored
     THEN pc' = "exit1" /\ threw' = TRUE
     ELSE pc' \in {"teardown", "teardownFailed"} /\ UNCHANGED threw
  /\ UNCHANGED <<arguments, executed, ipcNonce, batches, minting, trackers>>

\* teardown, and main's exit.  The disconnect rejects the query of a callback
\* that still runs, which is handled nowhere.
Teardown ==
  /\ pc \in {"teardown", "teardownFailed"}
  /\ \/ pc' = IF pc = "teardown" THEN "exit0" ELSE "exit1"
     \/ pc' = "exit1" /\ \E t \in Trackers : trackers[t].running > 0
  /\ UNCHANGED <<arguments, executed, ipcNonce, batches, minting, trackers, threw>>

Main ==
  \/ ServeNonce \/ AskTokenId \/ Prepared \/ ReadSudoNonce \/ MintToUser \/ MintsSettled
  \/ Act \/ ThreadsEnd \/ Expect \/ Teardown

Chain ==
  \/ \E m \in flying : Arrive(m)
  \/ \E m \in pooled : Execute(m)
  \/ NewHead

Next == Main \/ Chain \/ \E t \in Trackers : Measure(t)

Spec == Init /\ [][Next]_vars

\* Mints reach the pool and are executed, blocks come, and every await whose
\* answer is there returns.
Fairness ==
  /\ WF_vars(Main)
  /\ WF_vars(\E m \in flying : Arrive(m))
  /\ WF_vars(\E m \in pooled : Execute(m))
  /\ WF_vars(NewHead)
  /\ \A t \in Trackers : WF_vars(Measure(t))

FairSpec == Spec /\ Fairness

-----------------------------------------------------------------------------
Exited == pc \in Exits
Mints == [node : 0 .. nodes - 1, user : 0 .. Threads - 1, asset : 1 .. AssetsOf(item), nonce : Nat]

\* The state is type correct, and a mint is in one place.
TypeOK ==
  /\ item \in Items /\ nodes \in NodeCounts /\ duration \in Durations
  /\ pc \in {"arrange", "tokenId", "nonce", "users", "settle", "act", "run", "expect",
             "teardown", "teardownFailed"} \cup Exits
  /\ executed \in Nat /\ ipcNonce \in Nat /\ sudoNonce \in Nat
  /\ batches \in 0 .. 4
  /\ node \in 0 .. nodes /\ user \in 0 .. Threads - 1
  /\ \A m \in flying \cup pooled \cup lost : m \in Mints
  /\ flying \cap pooled = {} /\ pooled \cap lost = {} /\ lost \cap flying = {}
  /\ funded \subseteq (0 .. nodes - 1) \X (0 .. Threads - 1) \X (1 .. AssetsOf(item))
  /\ trackers \in [Trackers -> [count : 0 .. duration + 1 + MaxActive,
                                running : 0 .. MaxActive, resolved : BOOLEAN]]
  /\ threw \in BOOLEAN

\* A run passes only if every user that a thread signs with has got its tokens,
\* and every tracker has measured all the blocks of the duration and at least
\* one that counts; only a duration of up to four blocks leaves a quantile
\* without data.  A mint is refused, because mints for another node have its
\* nonce, only if there are several nodes: with one nobody goes without.
PassedRunIsReal ==
  /\ pc = "exit0" =>
       /\ \A u \in Signers : CanPay(u)
       /\ \A t \in Trackers : trackers[t].count > duration /\ trackers[t].count > Ignored
  /\ threw => duration < Ignored
  /\ lost # {} => nodes > 1
  /\ nodes = 1 /\ pc \in {"act", "run", "expect", "exit0"} =>
       \A u \in AllUsers : CanPay(u)

\* Every run ends, but for sell and buy, which wait for a token id for ever, and
\* for a duration that is no number, which verifyArgs lets pass (index.ts:131)
\* and with which a run whose threads could pay waits for its trackers for ever.
RunEnds ==
  /\ item # "swap" /\ duration # NaN => <>Exited
  /\ item = "swap" => <>[](pc = "tokenId")
  /\ item # "swap" /\ duration = NaN => <>[](pc \in {"expect", "exit1"})
=============================================================================
