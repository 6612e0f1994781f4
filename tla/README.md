# Verification of the gasp-e2e test framework

gasp-e2e drives a Gasp/Mangata node from the outside. It is a library of helpers
(`utils/`), a load generator (`performance/`), a command line tool (`cliTool/`)
and 168 jest suites (`test/`). What makes it hard is not what one
helper computes; it is that jest runs many test files at the same time, in
worker processes that share **one sudo account, one chain and one IPC server**,
and that nearly every function reads something, awaits, and acts on what it
read. A test suite cannot test its own scaffolding under those interleavings.
This directory models the scaffolding in TLA+, checks it with TLC and proves
the core of it with TLAPS.

Paths below are relative to the repository. `PROJECT.json` maps every
definition to its lines.

## 1. Inventory

### 1.1 The parts that share state

| Component | Source | State | Operations | Hard because |
|---|---|---|---|---|
| IPC server of shared numbers | `utils/globalSetup.js`, `utils/SudoDB.ts` | in the main jest process: `nonce`, `numCollators`, `assetIds`; in each process one node-ipc client with one `config.id` and one set of handlers | `globalConfig`; serve `getNonce`, `getCandidate`, `getTokenId`; `registerAssets`; `getSudoNonce`, `getCandidateNum`, `getTokenId`, `getTokenIds` | workers race; a refill runs while the pool is served; calls of one worker share a socket that the first answer closes |
| Sudo account | `utils/sudo.ts`, `utils/sign.ts`, `utils/txHandler.ts`, `utils/tx.ts` | the account's nonce on chain, the node's pool, the nonce each test holds | ask for a nonce, wait a second, sign, submit, watch to finalization; or read the nonce from the chain | transactions reach the pool in any order; a lost one is a gap in front of everybody; two sources of nonces |
| Load generator | `performance/plugins/testRunner.ts` | per thread: the set of its transactions, the count of executed ones, the nonce offset | subscribe to heads; in each callback count, decide, sign and send a top-up | the callback is asynchronous and the next head does not wait for it |
| Block waits | `utils/eventListeners.ts` (`waitNewBlock`), `utils/utils.ts`, `utils/Bootstrap.ts` | a subscription, a counter, values read before the loop | seven helpers that loop around `waitNewBlock` | off-by-one in blocks and sessions; the chain moves between two queries |
| Event waits | `utils/eventListeners.ts`, `utils/utils.ts` | a subscription, a counter shared by overlapping callbacks | `waitForEvents`, `waitForSessionChange`, `waitForRewards`, `waitUntilUserCollatorRewarded` | answers of the node overtake each other; a timeout races the event |
| Candidate and delegation hints | `utils/Staking.ts`, `utils/tx.ts`, `utils/txHandler.ts`, `utils/setupsOnTheGo.ts` | the number of members read, plus a slack | eight ways to compute the hint of `joinCandidates` and `delegate` | the chain refuses a hint below the count at *execution*; everybody joins at once |
| Storage walks | `utils/setupsOnTheGo.ts` | page, next page, batch, cursor | `migrate`, `getTokensAccountDataStorage` | pagination boundaries; keys come and go during the walk |
| Set-ups | `utils/setupsOnTheGo.ts`, `setup.ts`, `tx.ts`, `feeLockHelper.ts`, `Council.ts`, `Assets.ts` | what a script has read so far; the chain | 27 scripts of reads, sudo batches and user transactions | few scripts look at the results of wrapped calls (`feeLockHelper.ts` does); several tests and command lines work on one chain |
| User wallets and prices | `utils/User.ts`, `utils/tx.ts`, `utils/utils.ts` | the assets added, their amounts before and after, a price computed from supply and reserves | `addAsset`, `refreshAmounts`, `getWalletDifferences`, `buyAssets`, `sellAssets`, `mintLiquidity`, the local price functions | refreshes that are not awaited, others who trade, integer division |
| Performance lifecycle | `performance/plugins/performanceTestItem.ts`, the items, `testReporter.ts`, `index.ts` | the process's own nonce server, the sudo nonce per node, the measurements of three trackers | arrange, act, expect, teardown, exit | mints that nobody checks, several nodes, trackers whose callbacks overlap, quantiles of too few measurements |

Interactions: the tests call the set-up helpers; these ask the IPC server for a
nonce (message over a unix socket), submit to the node (RPC), and wait with the
block and event waits (subscriptions, i.e. callbacks). `registerAssets`, run by
the server itself, is again a client of the same server. The load generator
talks to the node alone and keeps its own nonces. There is no persistence and
no restart: a crash of jest ends the run, so crash recovery does not occur.

### 1.2 The parts that are not modelled, or only in part

| Component | Decision |
|---|---|
| Set-ups on the go, command line tool | partly: `claimForAllAvlRewards`, `findAllRewardsAndClaim`, `testTokensForUsers`, `provisionWith100Users`, `userAggregatesOn`, `createProposal` and `replaceByStateCall` are loops around one call; the rest prints or subscribes |
| Council, governance, bootstrap, maintenance | partly: `waitForBootstrapStatus`, the council, its motions and the maintenance mode; the other functions build one extrinsic or one batch |
| Asset and pool set-up, fee lock | partly: what the scripts use; `Framework/Supply` has no caller that changes state |
| Performance test items | partly: those that the factory builds; the ones that it has commented out are dead code |
| Prices and fees | partly: `calculateCompleteFees` and the multi-swap helpers are pure and stand alone |
| Sudo account, load generator | partly: the contents of batches and the decoding of events; `runQuery` |
| Node connections, subscriptions | not modelled: sub-classes and singletons around one connection of the polkadot library, which does the reconnecting; a subscription that a node keeps stores a number nobody waits for |
| Websocket mock | not modelled: a stand-alone proxy that no module imports; how many clients it has, and whether their requests overlap, is not in the repository, so that a property of it would rest on an invented environment |
| Cross-chain networks, rollup helpers, page objects, stash mock, file lock, validators, tests, containers | not modelled: configuration, wrappers of one external call, browser clicks, dead code; no state of their own, or the behaviour is that of an external system |

Measured in lines, nearly all of the repository is the vendored
`.yarn/releases/yarn-1.22.19.cjs` (147529 of 169483 lines), which is not this
project's program; after it come page objects of the browser tests and functions
that log.

## 2. Modules

| Module | Models | Kind |
|---|---|---|
| `TicketCounter` | what `getSudoNonce` promises | abstract specification |
| `NonceManager` | IPC server, node-ipc sockets, callers, refills | detailed specification, implements `TicketCounter` |
| `NonceManagerProofs` | theorems about `NonceManager` | proofs |
| `SudoAccount` | sudo clients, node pool and chain, composed with `TicketCounter` | composition |
| `SudoAccountProofs` | theorems about `SudoAccount` | proofs |
| `PerfRunner` | execution threads of the load generator against a chain | component + environment |
| `BlockWaits` | the seven helpers, one subscription, a chain with forks and lag | component + environment |
| `EventWaits` | the four waits, overlapping callbacks | component + environment |
| `CandidateHints` | joiners, the hints and the chain that judges them | composition |
| `StoragePages` | the two walks, a storage that changes | component + environment |
| `PerfRunnerProofs` | theorems about `PerfRunner` | proofs |
| `Ledger` | the part of the chain that set-ups write to, as a record and its calls | environment |
| `Setups` | 27 set-up scripts over `Ledger`, run side by side | composition |
| `PoolMath` | the price, fee and share formulas | pure operators |
| `Trading` | a test with its wallet and its prices, next to others that trade; uses `PoolMath` | composition |
| `TradingProofs` | lemmas about the formulas, theorems about `Trading` | proofs |
| `PerfLifecycle` | a run of the performance tests from arrange to the exit | component + environment |
| `BlockWaitsProofs`, `PerfLifecycleProofs` | theorems about these two | proofs |
| `ChainReadsProofs` | theorems about `EventWaits`, `StoragePages` and `CandidateHints` | proofs |
| `SetupsProofs` | lemmas about the calls and batches of `Ledger`, theorems about `Setups` | proofs |
| `MC*` | instances | for TLC |

`SudoAccount` takes its nonces from an instance of `TicketCounter`, not from
`NonceManager`: that `NonceManager` implements `TicketCounter` is checked and
proved on its own (`NoncesAreTickets`, `NoncesAreLossyTickets`), which keeps both
state spaces small. This is the assume/guarantee seam of the project.

### 2.1 NonceManager

State follows the code: `nonce`, `numCollators`, `assetIds` are the `let`s of
`globalSetup.js`; `configId`, `onConnect`, `handlers`, `conn` are what node-ipc
keeps per process; `pc`, `kind`, `got` are the callers, where a caller is one
asynchronous control flow (a test, or one call of `registerAssets`).

- `Ask` is `ipcClient` up to its return: it sets `ipc.config.id`, registers the
  connect handler and the reply handler. Because the object is shared, the
  handler that `Connect` runs emits with the id of the **last** caller.
- `HandleGetNonce`, `HandleGetCandidate`, `HandleGetTokenId` are the server's
  handlers. `HandleGetTokenId` pops first and then starts a refill when the pool
  is empty (`StartRefill`), as `globalSetup.js:50-55` does; the refill is a caller
  of kind `getNonce`. The chain gives its batch the next ids (`Registered`), and
  later the batch replaces the pool (`Refilled`), maybe one that is newer; or the
  registration fails (`RefillFails`).
- `Resolve` is the reply handler of the caller whose id the answer carries; it
  disconnects, whatever else is on the socket. `Ignore` is an answer nobody
  listens for. `ServeOrphan` is a request that reached the server although its
  socket is gone: the counter moves, no answer comes.

### 2.2 SudoAccount

A client is a test that asks the server (`Ticketed`) or a caller of
`signSendAndWaitToFinishTx`, which reads the nonce of the best block
(`FromChain`). `Submit` puts the transaction into the pool; `Refuse` is the node
turning down a nonce that is used or already pooled; `Execute` includes the
transaction at the account's nonce; `Lose` is the failed submission that
`tx.ts` catches and forgets, and so is the process that ends between ticket and
submission. `MayLose` names the clients that may.

### 2.3 PerfRunner

`NewBlock` starts one callback per thread with the head and the queue it shows;
`Scan` is the callback up to the await of the signatures: it counts, decides
whether the thread is over, and fixes room and nonces; `Send` is the rest. When
the node refuses a send (`refused`), its rejection is under way, and `Reject` ends
the process (`crashed`); callbacks and other threads go on until then.
`MaxActive` bounds the callbacks of a thread that overlap.

### 2.4 BlockWaits

`Call` picks a helper and its arguments, `Read` makes the queries of its loop
one by one, `Subscribe` and `Deliver` are `waitNewBlock`. Subscribing gives the
current head at once, so the promise resolves at the second head. `Fork`
replaces the best block: a head that is delivered although the height did not
grow. `prompt` says whether the waiter takes its steps before the next block;
when it does not, up to `MaxLag` blocks pass before each.

### 2.5 EventWaits

`Head` runs the callback up to its await; `Answer` is the rest, in order
(`inOrder`) or not. The counter is incremented where each helper does it: on
arrival of the head in `waitForRewards`, after the answer in the others.

### 2.6 CandidateHints

Each `Join…`/`Delegate…` action is one function that computes a hint: from a
ticket of the server, from the selected candidates, from the pool, from the
delegators, or from nothing. `Execute` is the chain, which refuses a hint below
the number of members it has then. The slacks are
10 for candidates and 5 for delegations in the code and constants here; the
properties are stated relative to them. Two histories tell a wrong reading from
a late one: `missed`, the members that a hint did not stand for when it was made
up, and `overtook`, those who joined between that and its execution without
being counted in it. `Unread` names who need not be read: those without a ticket,
for a ticket; and everything that `getCandidates` under `--runInBand` (the
selected candidates, not the pool) and `delegate` of `tx.ts` (nobody) miss.

### 2.7 StoragePages

One action per await of the walk; keys are numbers in the order of the storage,
`0` is `undefined`. A batch is the number of times each key is in it, which is
what the property is about.

### 2.8 Ledger and Setups

`Ledger` is what the scripts expect of the pallets: tokens, pools, promoted
pools and their rewards, vesting, bonds, the fee lock, the council. It is
external and modelled from the calls in `utils/`: a call either applies to a
ledger or fails, and `Wrapped` applies a batch of `sudo.sudo` and `sudo.sudoAs`
calls, which goes on after one that fails: it is the last of `Ledgers`, the
ledgers before, between and after the calls. `Sound` is what the set-ups rely on
and leave: amounts are natural, a pair of tokens has at most one pool, no pool is
empty, the given pool backs the liquidity that users hold of it, and only members
have votes. A run may start with any sound ledger (`ChainAssumption`). `Setups` has one action per script
with one disjunct per await (`At(c, script, k)`), so that two scripts interleave
at every read and every batch. A script ends by `Return`, which records whether
what it is for is there, or by `Throw`. `others` remembers which kinds of calls
other clients have made since it began; it is history only and used by the
property. Two default users stand for the six: Bob, who creates pools, and Eve,
for whose rewards the scripts wait. Only the two functions of the fee lock wait for
the success of what they wrapped (`waitSudoOperationSuccess`); that their update
succeeded does not keep another client from undoing it, and `Excused` says so.

### 2.9 PoolMath and Trading

`PoolMath` has the formulas as they are written, integer division included;
`Quotient` truncates toward zero as `BN.div` does. In `Trading` a test adds the
assets it watches (`AddAsset` compares objects, not values, as `User.addAsset`
does), refreshes their amounts, computes a price, trades, refreshes and compares.
`RefreshAmounts` remembers the currencies at the call, `GetUserAssets` reads the
balances one after the other, `RefreshReturns` assigns them to whatever assets
there are by then. A refresh has two slots: the one that is awaited and one that
is not (as in `test/story/story.LP.test.ts:77-78`). The price of liquidity reads
the supply and then the reserves (`GetAssetSupply`, `GetPrice`); a trade of
others in between, or between price and trade, sets `overtaken`. A test ends with a
trade that is refused, but for a burn: `burnLiquidity` of `tx.ts` asserts nothing,
and some of its callers go on (`AfterRefusal`).

### 2.10 PerfLifecycle

The arguments are chosen in `Init`. `ServeNonce`, `AskTokenId` and `Prepared` are
`arrange` of the items, `ReadSudoNonce` and `MintToUser` are
`mintTokensToUsers` node by node, `Arrive` and `Execute` the chain;
`Act`, `ThreadsEnd`, `Expect`, `Teardown` follow `run`. `NewHead` and `Measure`
are the three trackers, whose callbacks may overlap: those that still run after
the promise has resolved push to the list that `expect` reads. A callback that still
runs when `teardown` disconnects has its query rejected, which nobody handles: the
process may end with 1 although the run has passed (`Teardown`). A duration that
is no number (`NaN`, written 0 in the instance, which `verifyArgs` refuses) passes
`verifyArgs`; the results of such a run pile up and are not counted.

## 3. Runs

| Run | Instance | Properties and what they show |
|---|---|---|
| `nonce_parallel` | two workers with one caller each, two calls per caller, pool of two, three refills, two of which may fail | `GrantsDistinct`: numbers are granted once; `EmptyPoolIsRefilling`: an empty pool has a refill under way, or one that failed since the last request; `TestsAreAnswered`; `NoncesAreTickets`: `getSudoNonce` implements `TicketCounter` without loss |
| `nonce_shared` | three calls overlapping in one worker, a refill that may fail, fee lock already there | `SocketsAreReleased`; `NoncesAreLossyTickets`: it implements the lossy `TicketCounter` |
| `token_pool_dry` | as `nonce_parallel` | *violation* of `TokenGrantsDefined`: `getTokenId` resolves with `undefined` |
| `sudo` | two ticketed clients, one of which may lose a ticket, and one that reads the chain; two transactions each | `SignedByHolder`, `OnlyChainReadersCollide`: every refusal involves the reader; `StuckOnlyBehindGap`: a transaction waits for ever only behind a lost nonce |
| `perf` | two threads, callbacks that return before the next head, or overlap in one thread | `WindowKept`, `NoncesConsecutive`: whatever overlaps, windows hold no more than the load and nonces follow each other until a send is refused, and none is refused without overlap; `CountedOnce`; `ThreadsEnd` |
| `block_waits` | all helpers, sessions of six blocks, two targets, lag two, one fork | `NoWaitEndsEarly`, `NoBlockMissed`, `SessionHolds`, `WaitsEnd` |
| `event_waits` | all waits, three callbacks at a time, six heads | `FailureIsReal`: a wait gives up only after its answers; `OnlyTimeoutsLeak`; `WaitsSettle` |
| `candidate_hints` | three joiners in every mix of eight ways, one founder, slack one | `RefusedOnlyWhenOvertaken`: only joins that overtake a call beyond its slack have it refused, but for what tickets, `getCandidates` and `delegate` of `tx.ts` do not read |
| `storage_pages` | two items, up to five keys, pages of two, a batch every two pages, one change | `KeysMigratedOnce`, `WalksEnd`: `migrate` sends every steady key once and ends; the other walk ends only on full pages |
| `setups` | two clients, every pair of 27 scripts, seven ledgers, up to two undefined token ids | `FiveChained`: five pools are chained or the script throws; `MissingPoolCreated`: two clients that miss the same pool both end with it; `AimsMet`: a script misses what it is for only for one of the reasons in `Excused` |
| `trading` | a pool of 60 and 200, amounts 1 and 60, two own trades and one of others, a wallet of one token and the liquidity | `PriceFavoursPool`: a price that nobody overtook never favours the user; `DifferencesAreTheTrades`: the wallet reports the prices that were paid |
| `perf_lifecycle` | five commands, one and two nodes, durations 4, 5 and NaN, two threads, two callbacks at once | `PassedRunIsReal`: exit 0 means funded signers and full measurements, and only several nodes lose mints; `RunEnds`: all end but sell, buy and those without a number for a duration |

Each run but `token_pool_dry`, `nonce_shared` also checks the `TypeOK` of its
module.

**Why these bounds are enough.** The hazards are races of two parties around a
third: two workers and a refill, two ticket holders and a gap, two callbacks and
a head, two scripts and a pool. Each instance has those parties and one round
more than the race needs (`MaxCalls`, `MaxTxs`, `MaxTrades` 2). Pages of two with
five keys give a full last page, a partial one and an empty storage; a session of
six has a wait that fits, one that just fits and one that does not (`Periods` 0,
1, 3); slack one lets a joiner be overtaken by as many as the slack and by one
more. The amounts of `trading` are one token, where every division rounds, and
the whole reserve of the smaller token, where the buy price divides by zero; a
later purchase meets less than the reserve and exceeds it. The ledgers of
`setups` are: no pool; a pool with enough, with too little and with hardly any
liquidity, one that is promoted, one whose liquidity is diluted; with and
without a fee lock, a motion and maintenance. Durations 4 and 5 lie on both
sides of the five measurements that `expect` drops, and NaN is neither. Heights and heads end where
every wait has returned. All bounds are constants named in the `.cfg` files.
`CHECK_DEADLOCK FALSE` is said where the program may stop: the tests have made
their calls, a gap blocks the account, the threads, scripts and walks have ended.

**What the runs found.** One finding: the server answers `getTokenId` with
`undefined` while the pool is refilled, although `SudoDB.ts:125` promises a
string (`token_pool_dry`); the caller makes it token 0. Facts that contradict no
doc but that a user of the helpers should know, all visible in the models:

- `waitNewBlock` returns at the second head, and a replaced best block counts as
  a block; `waitIfSessionWillChangeInNblocks(n)` compares with `>`, so the
  session is guaranteed for `n - 1` blocks only; `waitBlockNumber` logs a timeout
  also when its last wait reached the number; `waitNewStakingRound`'s default
  limit suffices as long as at most two blocks pass between its two queries.
- `waitForEvents` and `waitUntilUserCollatorRewarded` leave the subscription open
  after they reject.
- Overlapping callbacks of the load generator sign the same nonces. The pool
  refuses the second, and until that rejection ends the process the window may
  be overfull and its room negative.
- `getTokensAccountDataStorage` walks by `keys[99]` and does not end on a partial
  page.
- Tickets for candidate numbers count calls, while `--runInBand` counts the
  selected candidates only; `delegate` of `tx.ts` always sends the hint 0.
- The fifth pool of `setup5PoolsChained` is with the native token
  (`index + (1 % length)`), and so is any whose id the token pool left undefined.
- A set-up misses its aim without a word in the cases that `Excused` lists. Among
  them: of two that spend the same user's liquidity (`addStakedUnactivatedReserves`,
  the activations, `burnAllTokensFromPool`) the later may have nothing left, and
  `addStakedUnactivatedReserves` with a given token dilutes its pool by its own mint,
  so that in a small pool the bond is worth less than the minimum.
- The sell and buy commands of the load generator never get past `arrange`: they
  do not set `Assets.legacy`, so `setupUserWithCurrencies` asks a nonce server
  that has no handler for token ids. For the same reason swaps are out of reach.
- A duration of up to four blocks passes `verifyArgs` and makes `expect` throw
  after the whole run; one that is no number passes too, and the run then never
  ends, since no number of results exceeds NaN. With several nodes the mints of two nodes may carry the
  same nonce, and `mintAsset` swallows the refusal; thread `t` signs with user
  `t` of node `t % nodes`, so users of other nodes that went without are not
  noticed.
- The default amounts `{free: 0}` of an asset have no `reserved` and `frozen`: to
  compare a wallet before its first refresh throws.
- The local buy price is negative for more than the reserve, and the chain
  refuses the purchase, not the formula.

## 4. Fairness

The liveness properties assume weak fairness only, of steps the code or the node
takes by itself: the event loop delivers what is on a socket (`Connect`,
`Serve`, `Resolve`, `Ignore`, `ServeOrphan`), a started refill goes on
(`RefillAsks`, `Registered`, `Refilled`), a client with a nonce submits it (`Submit`,
`Refuse`, `Lose`), the chain produces blocks and executes what is ready
(`NewBlock`, `Execute`), a callback that was started ends (`Scan`, `Send`,
`Answer`), a waiter in its loop goes on; in `PerfLifecycle` a mint reaches the
pool and is executed, heads come, an await whose answer is there returns
(`Main`) and a tracker's callback ends (`Measure`). None is assumed of a test
that starts a call, of failures, forks, changes of storage, or of leaving
candidates. The scripts of `Setups` and the test of `Trading` have safety
properties only. Strong fairness is not used.

## 5. Proofs

### 5.1 NonceManagerProofs

For every number of workers, tests and refills, any batch size and any number of
calls:

- `TypeCorrect`: `Spec => []TypeOK`;
- `NumbersServedOnce`: `Spec => []GrantsDistinct`.

The second is not inductive. A grant is distinct because the answer on the wire was,
because the server's counter had passed it, and because neither the pool nor a
batch on its way there held it any more; so the invariant must speak of answers
on every socket and of that stock of ids, not only of what callers got. The inductive invariant is

    IInv == TypeOK /\ Connecting /\ LeftServerOnce /\ LeftServer /\ PoolFresh

- `Connecting`: a socket that is connecting has somebody to connect for (so that
  `Head` and `Tail` of the handlers are defined);
- `LeftServer`: every number that has left the server, on a wire or in a
  caller's hands, lies below the counter it came from;
- `LeftServerOnce`: no two places hold the same number of the same kind;
- `PoolFresh`: what is in the pool or in a batch is below `nextCurrencyId`, has
  not left the server, and is there once. It is what makes the *overwriting*
  refill harmless, in whatever order the batches arrive: a batch is new when it
  is registered, because the chain's counter is above everything ever served, and
  nobody serves from it until it is the pool.

There is one lemma per action; actions that move a number from one place to
another share the lemma that a moved number keeps the invariant.

Three more theorems are about who gets what through sockets that calls share:

- `NoncesImplementLossyTickets`: `Spec => NoncesAreLossyTickets`, that is, the
  server with its sockets implements the `TicketCounter` that may lose tickets;
- `NoncesImplementTickets`: if each worker runs one test at a time
  (`OneTestPerWorker`), it implements the one that loses nothing;
- `EmptyPoolIsRefilled`: `Spec => []EmptyPoolIsRefilling`, whichever registrations
  fail: the request that then finds the pool empty starts another.

The hypothesis is that of the instance in which the run checks the property:
without it the refinement is false, since the first answer closes the socket
under the other calls, which is why there is a lossy counter. Under the mapping a call takes its number when the server handles the
request, if the answer is sure to be delivered, and otherwise the number is
forfeited. So one must know of every message whether somebody listens for it:

    SInv == IInv /\ Addressed /\ SettingUp /\ MainSocket

- `Addressed`: whatever is on the socket of a process is for a call of that
  process that waits for it;
- `SettingUp`: nobody uses the server before `globalSetup` is done, and until
  then its nonce is the first one;
- `MainSocket`: the main process asks for nonces only, and its open socket
  carries a request or an answer.

`NoncesImplementTickets` adds `OneExchange`: a socket carries at most one request
or answer, so closing it drops nothing. `EmptyPoolIsRefilled` adds `AtWork`: a
refill is at its batch or has failed, or the main process's socket is not closed,
and then what is on it is for a refill; and `Stocked`: a registered batch has ids. `NoncesOf`, which the mapping uses, takes the
entries by their rank among the nonces, because nothing can be proved here about
the recursive `SelectSeq`.

The assumptions are the two named ones of `NonceManager` (`ProcessAssumption`,
`CounterAssumption`), which TLC evaluates in every run.

### 5.2 SudoAccountProofs

For every number of clients and transactions, from `ClientAssumption`:

- `TypeCorrect`: `Spec => []TypeOK`;
- `HoldersSign`: `Spec => []SignedByHolder`;
- `ReadersCollide`: `Spec => []OnlyChainReadersCollide`;
- `TicketsSuffice`: `FromChain = {} => (Spec => []NoneRefused)`.

A refusal looks back: the pool refuses a nonce because a transaction with that
nonce was accepted, maybe long ago. So the invariant relates what clients hold
now to everything ever accepted (`Accepted`: the pool and the log):
`TicketsDistinct` and `TicketsBelow` (the ticket counter's promise), `BusyHold`
and `AcceptedHeld` (whoever is busy, and whoever signed an accepted transaction,
was given its nonce), `InHandUnused` (a client does not have in hand a nonce of
which it has an accepted transaction), `AccountCounts`, `FromFirst` and
`PoolWaits`. The argument: a refused nonce is that of an accepted transaction
(`RefusableAccepted`); its signer is another client, by `InHandUnused`; were both
ticketed, both would hold the same number, against `TicketsDistinct`. A client
that reads the chain keeps `InHandUnused` because the nonce it reads is above
the log and its own transactions are not in the pool while it is idle.
`TicketsSuffice` is the case without such clients.

### 5.3 TradingProofs

For every pool, all funds, amounts, assets and any number of trades:

- `TypeCorrect`: `Spec => []TypeOK`, that is, no accepted trade overdraws the
  user or the pool;
- `PricesFavourPool`: `Spec => []PriceFavoursPool`;
- `WalletReportsTrades`: `Spec => []DifferencesAreTheTrades`.

The first part of the module is the algebra, without any state: from `DivBounds` (a quotient
lies between two multiples) and the monotony and cancellation of products follow
`SellKeepsProduct`, `BuyKeepsProduct`, `BuyBeyondReserve`, `FeeCosts`,
`MintBounds`, `MintThenBurnFirst`, `MintThenBurnSecond` and `BurnLeavesShares`.
The products are nonlinear, so each lemma names the products it needs and leaves
linear arithmetic to the solver.

The second has the invariant `IInv == ChainSane /\ WalletSane /\ FlightsSane
/\ QuoteSane`: reserves, issuance and balances are natural and nobody holds more
shares than there are; a quote that was not overtaken is the price by the
reserves of now. Proving it brought up a condition that the small instance had
not: with an empty reserve and issued shares the buy price is positive although
nothing can be bought, so the property is about pools that hold both tokens.

The third strengthens it by `WInv == InPlace /\ Answers /\ Before /\ After
/\ Known`. What a wallet reports depends on answers that were asked for earlier,
so the invariant says that a refresh under way asked for the assets there are and
has the balances there are (`Answers`), which holds because whoever trades or
adds an asset beside it sets `raced`; that an amount before is the balance
without the trades since (`Before`); and that an asset that was there for a
refresh has an amount (`Known`).

### 5.4 PerfRunnerProofs

For any threads, window and number of overlapping callbacks: `TypeCorrect`,
`WindowIsKept`, `NoncesInOrder`, `CountedAtMostOnce`. The invariant is `PInv ==
TypeOK /\ Finite /\ Seen /\ OnChain /\ Counted /\ Windows /\ OneAtATime /\
RejectionsOnly /\ NoncesConsecutive`. A transaction that was counted leaves no
trace in the state, so `Counted` bounds the counter by the queued nonces under
which nothing that the queue has shown is still in flight (`Done`). A block takes
nothing from `Done`, because what it queues has a nonce that was not queued
(`OnChain`); a scan adds a nonce for each transaction it counts, because what was
shown has different nonces; a send takes nothing away, because what it makes is
new. `Windows` is the argument for callbacks that overlap: one that signs has
fixed its nonces no later than the offset. If it is behind, its nonces are taken
and its send is refused; if not, nobody has sent since, and the window still has
the room it has found. `OneAtATime` says that it is never behind when none
overlaps.

### 5.5 ChainReadsProofs

`EventWaits`. For every limit, every number of callbacks that overlap, and a chain of any
length on which anything may happen: `TypeCorrect`, `FailuresAreReal`
(`Spec => []FailureIsReal`) and `FoundUnsubscribes` (`Spec => []OnlyTimeoutsLeak`).
A wait that gives up has looked at a counter that other callbacks move, so the
invariant `FInv == TypeOK /\ Ordered /\ NothingSeen /\ FailedLate /\
FailureIsReal` says what the counter counts: with a node that answers in order,
`Ordered` splits the heads into those answered, `1..k`, and the two or fewer
whose callbacks run, up to `m`; `waitForEvents` counts to `k`,
`waitForRewards` to `m`. `NothingSeen`: no callback that has returned has seen the
event while the wait is pending. `FailedLate`: a wait that has given up was given
all the heads it allows for.

`StoragePages`. For any number of items, any keys that come and go, and any size of
pages and batches: `WalksTypeCorrect` (`WalksSpec => []WalksTypeOK`) and
`KeysAreMigratedOnce` (`WalksSpec => []KeysMigratedOnce`). The invariant is

    SInv == WalksTypeOK /\ Pages /\ Reader /\ Fresh /\ Position /\ Left

`Position` is the argument: every key that was read lies before the page that
`migrate` reads next, and a key of the item that was there all the time is read, in
that page, or behind it. So nothing is read twice, although the last key of a
page may be gone when the next page is asked for, and an empty page means that
everything that stayed was read. `Fresh` carries this through the batches: an
entry waits to be sent or was sent, never both. `Left` keeps it for the items the
walk has left. The lemma `PageOf` says what a page is for a storage of any size:
no longer than was asked for, past the start, and with every key of the storage
behind the start in it or behind all of it. It rests on `LastOf` and `FirstOf`:
a set of keys has a last and a first one, which follows from the well-founded
order of the finite sets.

`CandidateHints`. For any joiners, founders and slacks, given that the users of a loop have
different indices (`HintAssumption`): `HintsTypeCorrect`
(`HintsSpec => []HintsTypeOK`) and `RefusalsAreOvertaken`
(`HintsSpec => []RefusedOnlyWhenOvertaken`). The invariant `HInv` adds `HintCovers`: a hint
is at least the number of members it stands for, plus the slack; and `Foreseen`:
whoever is a member while a call is under way is counted in its hint, or need not
be (`Unread`), or has overtaken it. When the members exceed the hint, those that
need not be counted or overtook exceed the slack (`CountUnion`). For a loop, at
most `n` users have an index below `n` (`Earlier`, by an injection); for tickets,
the server has counted every ticket, which is a part of `HintsTypeOK`, and a
member with a ticket has asked for it before (`Joined`).

### 5.6 PerfLifecycleProofs

For any nodes, users, threads and overlapping callbacks: `TypeCorrect` and
`PassedRunsAreReal` (`Spec => []PassedRunIsReal`). The invariant is `IInv == TypeOK
/\ AtNode /\ Issued /\ Measured /\ Passing /\ OneNode`. Its core is `OneNode`: with
one node the mints carry consecutive nonces from the account's own, so that each
is in flight, pooled or executed and none is refused; with several nodes that
fails, which is why the property excepts them. `Measured` ties what a tracker has
counted to its promise, and `Passing` what `expect` has seen to the exit code.

### 5.7 BlockWaitsProofs

For every length of a session, every argument and a chain of any height:

- `TypeCorrect`: `Spec => []TypeOK`;
- `CountedBlocksAreNew`: whatever the lag, every block that `waitForNBlocks` counts
  was made, or replaced another, after the call;
- `WaitsAreLongEnough`: `MaxLag <= 2 => (Spec => []NoWaitEndsEarly)`;
- `EveryBlockLookedAt`: `Spec => []NoBlockMissed`;
- `SessionOutlastsCaller`: `Spec => []SessionHolds`.

`MaxLag <= 2` is what the two blocks stand for that `waitNewStakingRound` adds to the
length of a session: its limit counts from the block it reads first, its session
is that of the block it reads next, and with three blocks between the two the
next session need not have come when it gives up. The proof fails there for
`MaxLag <= 3`. The invariant is

    WInv == TypeOK /\ Steps /\ Counted /\ RoundWait /\ CollatorWait /\ SessionWait

- `Counted`: the height and the replaced blocks have grown by as many as were
  counted and are on their way, less the first head of a subscription, which is
  not new;
- `RoundWait`: the session it starts from is at most that of the second block after
  the call, and the session it compares is not older than the block number;
- `CollatorWait`: a prompt waiter has looked at all blocks up to `cur`;
- `SessionWait`: it waits exactly if the position and the argument exceed the length.

The arithmetic of sessions comes first: `SameQuotient`, `SessionMonotone`,
`SessionLater`, `SessionOf` and `SessionPassed` follow from the bounds of a
quotient.

### 5.8 SetupsProofs

For any clients, any scripts of the twenty-seven, any amounts and any sound ledger
to start with:

- `TypeCorrect`: `Spec => []TypeOK`, that is, the ledger stays sound, and the ids
  that a script takes for those of its tokens have been issued;
- `FivePoolsChained`: `Spec => []FiveChained`;
- `MissingPoolsCreated`: `Spec => []MissingPoolCreated`.

The assumptions are `SetupAssumption`, among others that the five token ids the IPC server
grants a client are different and none is the native token (the first is
`NumbersServedOnce` of `NonceManagerProofs`), and `ChainAssumption`, that the
ledgers a run may start with are sound and those ids issued. TLC evaluates both
in the run.

A batch is a list of any length, and what it leaves is a recursive function.
`UpTo` is the induction that this takes: if a set of numbers up to `n` has 0 and
the successor of each of its members below `n`, it has them all, because what it
lacks has no least number. It is about a set, not an operator, so the provers
can use it: `Ledgers` exists and is what its equation says (`LedgersOf`), every
ledger of a batch is sound and keeps the pools of the one before
(`LedgersKeep`, `WrappedKeeps`), and a pool that one call of a batch makes is
there at its end (`PoolStays`).

Per call there is one lemma (`MintKeeps` to `BurnLiquidityKeeps`, together
`AppliedKeeps`): from a sound ledger, a call that fits leaves a sound one.
The hard one is `burnLiquidity`. `burnAllTokensFromPool` burns what it computed
from balances it read before, and its shares of the reserves are quotients by the
issuance: that a pool never gets an empty reserve while it stays needs that
nobody holds more liquidity than was issued, which is `Backed`. It is about the
sum over all users, so amounts are counted as sets of coins (`Coins`), and
`CoinsPlus` says how a transfer changes their number. Only the liquidity of the
given pool is ever burnt, so only there is it needed; every other pool stays for
good (`Kept`), which is what makes the properties of the two pool set-ups stable
under what other clients do.

The inductive invariant is

    Inv == Sound(chain) /\ (the granted ids are issued)
           /\ \A c \in Clients : Local(chain, script[c], pc[c], outcome[c], loc[c])

where `Local` is what a client has read when it comes to a step: the ids it has
issued and how many they are, the numbers it computes amounts with, and, for the
two pool set-ups, the pools that are there (`Chained`, `HasPool`). `Sound` alone is not inductive: a
script sends calls with amounts and ids it has read at an earlier await, and a
batch is only good if those are numbers and issued tokens. `LocalLater` is the
interference lemma: what others do takes nothing of it away. `GotoKeeps`,
`LearnGotoKeeps` and `EndKeeps` reduce each step of a script to three questions:
are its calls good, is what it has read enough for the next step, and where does
it go; the lemmas named for the scripts answer them, step by step.

For `FivePoolsChained` the ids must differ although the token pool may have left
some of them undefined, which the codec makes 0, the native token. `FiveDiffer`
is the reason: `createPool` fits only for two different tokens that have no pool
(`PoolMade`, `PairsDiffer`), the fifth pool is with the native token, and with
two ids undefined two of the five would be the same pair or a token with itself;
the batch is then refused as a whole and the set-up throws. For
`MissingPoolsCreated`: after its mints sudo has enough of both tokens
(`MissingMinted`), so the only reason for its `createPool` to be refused is that
another client has made the pool (`MissingMade`), and then it finds that one.

### 5.9 What is not proved

TLC checked every inductive invariant of 5.1 to 5.8 on the instance of its run
before it was proved.

Only model-checked: all liveness and everything that needs ENABLED (out of the
prover's reach), and the action property `AimsMet` of `Setups`. That a script
meets its aim unless one of the listed reasons excuses it is about the balances
of its users after each of its batches, next to what all other scripts may have
done to the same users in between: it takes for each of the twenty-seven an
account of every amount on the way, where `Local` has only what the client
itself has read.

## 6. Plan

1. Proofs: `AimsMet`, script by script, beginning with those of one batch
   (`mint`, `enable`, the council's motions).
2. Models: the multi-swap fee helpers as operators of `PoolMath`; the remaining
   scripts of the command line that loop around one call.

To check the proofs, run `tlapm` on `NonceManagerProofs.tla`,
`SudoAccountProofs.tla`, `TradingProofs.tla`, `PerfRunnerProofs.tla`,
`ChainReadsProofs.tla`, `PerfLifecycleProofs.tla`, `BlockWaitsProofs.tla` and
`SetupsProofs.tla`; to repeat a run:
`tlc -config <cfg> <module>` with the pairs of `PROJECT.json`.
