----------------------------- MODULE PerfRunner -----------------------------
(***************************************************************************)
(* The load generator of the performance tests, testRunner.ts.             *)
(*                                                                         *)
(* Every execution thread keeps a window of `load` transactions in flight: *)
(* at each new head it looks which of its transactions have reached the    *)
(* chain's execution queue, counts them, and signs and sends as many new   *)
(* ones.  The head callback is asynchronous and nobody awaits it: when     *)
(* reading the queue and signing take longer than a block, the callbacks   *)
(* of one thread overlap.                                                  *)
(*                                                                         *)
(* The chain is external.  A block moves transactions from the pool to the *)
(* queue that api.query.system.storageQueue shows, where they stay for one *)
(* or more blocks.  The pool refuses a nonce that is in use, and since no  *)
(* one awaits tx.send(), its rejection ends the process when it arrives.   *)
(***************************************************************************)
EXTENDS Integers, FiniteSets

CONSTANTS
  Threads,    \* execution threads, each with an account of its own
  TotalTx,    \* testParams.totalTx
  Pending,    \* testParams.pending
  Duration,   \* testParams.duration, counted in blocks
  Slow,       \* threads whose callbacks overlap when not steady
  MaxActive,  \* how many callbacks of such a thread run at once
  BlockSize,  \* transactions of a thread that fit into a block
  MaxHeight   \* bound: heads that the chain produces

N == Cardinality(Threads)
CeilDiv(a, b) == (a + b - 1) \div b
Smaller(a, b) == IF a < b THEN a ELSE b

\* transactions of a thread: in all, and in flight
Limit == CeilDiv(TotalTx, N)
Load == Smaller(Limit, CeilDiv(Pending, N))

ASSUME ParamsAssumption ==
  /\ IsFiniteSet(Threads) /\ Threads # {} /\ Slow \subseteq Threads
  /\ TotalTx \in Nat \ {0} /\ Pending \in Nat \ {0} /\ Duration \in Nat \ {0}
  /\ MaxActive \in Nat \ {0} /\ BlockSize \in Nat \ {0}
  /\ MaxHeight \in Nat

VARIABLES
  steady,   \* do callbacks return before the next head comes?
  height,   \* chain: number of the best block
  pool,     \* chain, per thread: transactions that wait
  queue,    \* chain, per thread: what storageQueue shows at the best block
  queued,   \* chain, per thread: nonces that have reached the queue
  active,   \* per thread: head callbacks that have not returned
  myTxs,    \* per thread: transactions in flight
  counter,  \* per thread: exec_counter
  offset,   \* per thread: nonce_offset
  sent,     \* per thread: transactions made so far
  resolved, \* per thread: has it unsubscribed and resolved?
  refused,  \* per thread: has the pool refused one of its transactions?
  crashed   \* a rejection that nobody handles has ended the process

chain == <<height, pool, queue, queued>>
vars == <<steady, chain, active, myTxs, counter, offset, sent, resolved, refused,
          crashed>>

\* A subscription starts with the best block, which is number `now` in the
\* code and 0 here.  Signatures are randomized: signing one nonce twice makes two transactions,
\* told apart by the number of the one before.
Tx(n, id) == [nonce |-> n, id |-> id]

Reading(h, q) == [head |-> h, queue |-> q, phase |-> "reading", from |-> 0, count |-> 0]

Init ==
  /\ steady \in BOOLEAN
  /\ height = 0
  /\ pool = [t \in Threads |-> {}]
  /\ queue = [t \in Threads |-> {}]
  /\ queued = [t \in Threads |-> {}]
  /\ active = [t \in Threads |-> {Reading(0, {})}]
  /\ myTxs = [t \in Threads |-> {}]
  /\ counter = [t \in Threads |-> 0]
  /\ offset = [t \in Threads |-> 0]
  /\ sent = [t \in Threads |-> 0]
  /\ resolved = [t \in Threads |-> FALSE]
  /\ refused = [t \in Threads |-> FALSE]
  /\ crashed = FALSE

-----------------------------------------------------------------------------
\* the transactions of t that the next k nonces in its pool make
Ready(t, k) ==
  LET first == Cardinality(queued[t])
  IN {tx \in pool[t] : /\ first <= tx.nonce /\ tx.nonce < first + k
                       /\ \A n \in first..tx.nonce :
                            \E other \in pool[t] : other.nonce = n}

(***************************************************************************)
(* A block: some of the pool enters the queue, in nonce order, and some of *)
(* the queue is executed and leaves it.  Every thread that has not         *)
(* unsubscribed gets the head.                                             *)
(***************************************************************************)
NewBlock ==
  /\ ~ crashed
  /\ height < MaxHeight
  /\ \A t \in Threads : ~ resolved[t] =>
       Cardinality(active[t]) < (IF ~ steady /\ t \in Slow THEN MaxActive ELSE 1)
  /\ \E k \in [Threads -> 0..BlockSize], stays \in SUBSET UNION {queue[t] : t \in Threads} :
       LET enters(t) == Ready(t, k[t])
           shown == [t \in Threads |-> (queue[t] \cap stays) \cup enters(t)]
       IN /\ pool' = [t \in Threads |-> pool[t] \ enters(t)]
          /\ queue' = shown
          /\ queued' = [t \in Threads |-> queued[t] \cup {tx.nonce : tx \in enters(t)}]
          /\ active' = [t \in Threads |->
                          IF resolved[t] THEN active[t]
                          ELSE active[t] \cup {Reading(height + 1, shown[t])}]
  /\ height' = height + 1
  /\ UNCHANGED <<steady, myTxs, counter, offset, sent, resolved, refused, crashed>>

-----------------------------------------------------------------------------
(***************************************************************************)
(* The queue has been read: count and forget the transactions that are in  *)
(* it, then stop, or ask the generator for as many as the window has room  *)
(* for.  The nonces are fixed here, nonce_offset moves only when all are   *)
(* signed.  A window that is more than full has no room, and Array throws. *)
(***************************************************************************)
\* mutants: the duration is not looked at; the window is filled whatever it
\* holds; the difference is taken the wrong way round
OverByCount(cb, c) == c >= Limit
RoomForAll(txs) == Load
RoomSwapped(txs) == Cardinality(txs) - Load

Over(cb, c) == c >= Limit \/ cb.head >= Duration
Room(txs) == Load - Cardinality(txs)

\* mutant: the counted transactions stay in the window's set
CountKeeping(t, cb) ==
  /\ counter' = [counter EXCEPT ![t] = @ + Cardinality(myTxs[t] \cap cb.queue)]
  /\ UNCHANGED myTxs

Count(t, cb) ==
  LET found == myTxs[t] \cap cb.queue
  IN /\ counter' = [counter EXCEPT ![t] = @ + Cardinality(found)]
     /\ myTxs' = [myTxs EXCEPT ![t] = @ \ found]

Scan(t, cb) ==
  /\ ~ crashed
  /\ cb \in active[t]
  /\ cb.phase = "reading"
  /\ Count(t, cb)
  /\ LET rest == active[t] \ {cb}
     IN IF Over(cb, counter'[t])
          THEN /\ resolved' = [resolved EXCEPT ![t] = TRUE]
               /\ active' = [active EXCEPT ![t] = rest]
               /\ UNCHANGED crashed
          ELSE /\ UNCHANGED resolved
               /\ IF Cardinality(myTxs'[t]) > Load
                    THEN /\ crashed' = TRUE
                         /\ active' = [active EXCEPT ![t] = rest]
                    ELSE /\ UNCHANGED crashed
                         /\ active' = [active EXCEPT ![t] = rest \cup
                              {[cb EXCEPT !.phase = "signing", !.queue = {},
                                          !.from = offset[t], !.count = Room(myTxs'[t])]}]
  /\ UNCHANGED <<steady, chain, offset, sent, refused>>

\* The transactions are signed: remember and send them.
Submit(t, cb) ==
  LET made == {Tx(cb.from + i, sent[t] + i) : i \in 0..(cb.count - 1)}
      InUse(n) == n \in queued[t] \/ \E tx \in pool[t] : tx.nonce = n
  IN
  /\ ~ crashed
  /\ cb \in active[t]
  /\ cb.phase = "signing"
  /\ active' = [active EXCEPT ![t] = @ \ {cb}]
  /\ sent' = [sent EXCEPT ![t] = @ + cb.count]
  /\ myTxs' = [myTxs EXCEPT ![t] = @ \cup made]
  /\ pool' = [pool EXCEPT ![t] = @ \cup {tx \in made : ~ InUse(tx.nonce)}]
  /\ refused' = [refused EXCEPT ![t] = @ \/ \E tx \in made : InUse(tx.nonce)]
  /\ UNCHANGED <<steady, height, queue, queued, counter, resolved, crashed>>

\* mutant: nonce_offset is not moved
SendSameNonces(t, cb) == Submit(t, cb) /\ UNCHANGED offset

\* Once all are signed, nonce_offset is moved before the first is sent.
Send(t, cb) ==
  /\ Submit(t, cb)
  /\ offset' = [offset EXCEPT ![t] = @ + cb.count]

\* The rejection of a send arrives, and nobody handles it.  The callbacks go on
\* until then.
Reject ==
  /\ ~ crashed
  /\ \E t \in Threads : refused[t]
  /\ crashed' = TRUE
  /\ UNCHANGED <<steady, chain, active, myTxs, counter, offset, sent, resolved, refused>>

Next ==
  \/ NewBlock \/ Reject
  \/ \E t \in Threads : \E cb \in active[t] : Scan(t, cb) \/ Send(t, cb)

Spec == Init /\ [][Next]_vars

\* The chain makes blocks, the node answers and the process runs its callbacks.
Fairness ==
  /\ WF_vars(NewBlock) /\ WF_vars(Reject)
  /\ \A t \in Threads :
       WF_vars(\E cb \in active[t] : Scan(t, cb) \/ Send(t, cb))

FairSpec == Spec /\ Fairness

-----------------------------------------------------------------------------
Txs == [nonce : Nat, id : Nat]
Callbacks == [head : Nat, queue : SUBSET Txs, phase : {"reading", "signing"},
              from : Nat, count : Nat]

\* Every variable has its type; in particular no window is overfull when a
\* callback computes the room in it.
TypeOK ==
  /\ steady \in BOOLEAN
  /\ height \in Nat
  /\ pool \in [Threads -> SUBSET Txs]
  /\ queue \in [Threads -> SUBSET Txs]
  /\ queued \in [Threads -> SUBSET Nat]
  /\ active \in [Threads -> SUBSET Callbacks]
  /\ myTxs \in [Threads -> SUBSET Txs]
  /\ counter \in [Threads -> Nat]
  /\ offset \in [Threads -> Nat]
  /\ sent \in [Threads -> Nat]
  /\ resolved \in [Threads -> BOOLEAN]
  /\ refused \in [Threads -> BOOLEAN]
  /\ crashed \in BOOLEAN

(***************************************************************************)
(* No send is refused while callbacks do not overlap (testRunner.ts:60-95).*)
(* When they do, two of them may compute the same room and fix the same    *)
(* nonces; but the second to send is then refused, so that up to then no   *)
(* thread has more transactions in flight than the load it was asked for,  *)
(* and the process ends only after a refusal.                              *)
(***************************************************************************)
WindowKept ==
  /\ steady => \A t \in Threads : ~ refused[t]
  /\ crashed => \E t \in Threads : refused[t]
  /\ \A t \in Threads : ~ refused[t] => Cardinality(myTxs[t]) <= Load

(***************************************************************************)
(* The transactions of a thread carry the nonces from 0 on, each once,     *)
(* also while several of its callbacks have fixed their nonces and not yet *)
(* sent (testRunner.ts:85-91): until a send is refused nothing was left    *)
(* out, which would stop the account, and nothing was signed twice.        *)
(***************************************************************************)
NoncesConsecutive ==
  \A t \in Threads : ~ refused[t] =>
    /\ {tx.nonce : tx \in pool[t]} \cup queued[t] = 0..(offset[t] - 1)
    /\ {tx.nonce : tx \in pool[t]} \cap queued[t] = {}
    /\ offset[t] = sent[t]

(***************************************************************************)
(* A transaction is counted once, however many heads show it in the queue, *)
(* and however many callbacks see those heads at once.                     *)
(***************************************************************************)
CountedOnce == \A t \in Threads : counter[t] <= Cardinality(queued[t])

(***************************************************************************)
(* Every thread resolves, even if the chain executes nothing; callbacks    *)
(* that overlap may end the process instead.                               *)
(***************************************************************************)
ThreadsEnd == \A t \in Threads : <>(resolved[t] \/ (~ steady /\ crashed))
=============================================================================
