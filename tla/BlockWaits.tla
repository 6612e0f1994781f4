----------------------------- MODULE BlockWaits -----------------------------
(***************************************************************************)
(* The helpers with which a test waits for the chain: waitNewBlock         *)
(* (eventListeners.ts) and the loops around it, waitForNBlocks,            *)
(* waitBlockNumber, waitNewStakingRound, waitUntilCollatorProducesBlocks   *)
(* and waitIfSessionWillChangeInNblocks (utils.ts) and                     *)
(* waitForBootstrapStatus (Bootstrap.ts).                                  *)
(*                                                                         *)
(* waitNewBlock subscribes to the heads, which starts with the best block  *)
(* at once, and returns at the second head it is given.  Every query is    *)
(* awaited, so the chain may have moved between two of them, and heads     *)
(* that come between two waits are not counted.                            *)
(*                                                                         *)
(* The chain is external: it makes blocks, replaces its best block by      *)
(* another of the same height, and changes session at every multiple of    *)
(* SessionLength.  The calls share nothing, so a behaviour holds one call, *)
(* and the chain is of interest only while it lasts.                       *)
(***************************************************************************)
EXTENDS Integers

CONSTANTS
  Helpers,       \* the helpers that are called
  SessionLength, \* parachainStaking.blocksPerRound
  Periods,       \* the numbers of blocks that the tests ask for
  Targets,       \* the block numbers that the tests wait for
  MaxLag,        \* blocks that a slow waiter lets pass before each step
  MaxForks,      \* bound: best blocks replaced
  MaxHeight      \* bound: highest block

ASSUME ChainAssumption ==
  /\ Helpers \subseteq {"blocks", "number", "round", "collator", "session", "phase"}
  /\ SessionLength \in Nat \ {0} /\ SessionLength <= MaxHeight + 1
  /\ Periods \subseteq Nat /\ Targets \subseteq Nat
  /\ MaxLag \in Nat /\ MaxForks \in Nat /\ MaxHeight \in Nat

VARIABLES
  prompt,  \* does the waiter keep up with the chain, and does that not fork?
  height,  \* chain: the best block
  forks,   \* chain: how often it was replaced
  mine,    \* chain: the blocks that the collator in question has made
  phase,   \* chain: 0 before the awaited bootstrap phase, 1 in it, 2 after it
  lag,     \* blocks since the waiter could take a step
  helper,  \* which helper was called
  pc,      \* what it does next
  ask,     \* its argument: a number of blocks, or a block number
  limit,   \* awaitedBlockNumber, lastBlock, maxWaitingPeriod or numberOfBlocks
  start,   \* the best block when it started
  first,   \* initialSessionNumber
  cur,     \* currentBlockNumber
  seen,    \* the session, the phase or the author (1: the collator) last read
  waited,  \* new blocks awaited
  heads,   \* heads on their way to the open subscription
  count    \* heads it has counted

chain == <<height, forks, mine, phase>>
args == <<helper, ask, limit, start>>
reads == <<first, cur, seen>>
subscription == <<heads, count>>
vars == <<prompt, chain, lag, pc, args, reads, waited, subscription>>

Session(h) == h \div SessionLength

Init ==
  /\ prompt \in BOOLEAN
  /\ height \in 0..(SessionLength - 1)
  /\ forks = 0 /\ mine = {} /\ phase \in 0..1
  /\ lag = 0
  /\ helper \in Helpers
  /\ pc = "called"
  /\ ask = 0 /\ limit = 0 /\ start = 0
  /\ first = 0 /\ cur = 0 /\ seen = 0
  /\ waited = 0
  /\ heads = 0 /\ count = 0

-----------------------------------------------------------------------------
\* The chain.  A prompt waiter takes its steps before the next block, and a
\* slow one is not outrun by more than MaxLag blocks; while it has nothing to
\* do but wait there is no limit.

Waiting == pc = "listening" /\ heads = 0

Outrun ==
  /\ pc \notin {"called", "returned"}
  /\ IF Waiting THEN lag' = lag
     ELSE ~ prompt /\ lag < MaxLag /\ lag' = lag + 1
  /\ heads' = IF pc = "listening" THEN heads + 1 ELSE heads
  /\ UNCHANGED <<prompt, pc, args, reads, waited, count>>

\* bound: the collator makes at most one of the blocks
Author(h, made) == IF made /\ mine \subseteq {h} THEN {h} ELSE mine \ {h}

NewBlock ==
  /\ height < MaxHeight
  /\ height' = height + 1
  /\ \E made \in BOOLEAN : /\ made => helper = "collator"
                           /\ mine' = Author(height + 1, made)
  /\ \E p \in phase..2 : /\ p # phase => helper = "phase"
                         /\ phase' = p
  /\ UNCHANGED forks
  /\ Outrun

\* another block of the same height becomes the best one
Fork ==
  /\ ~ prompt /\ forks < MaxForks
  /\ forks' = forks + 1
  /\ \E made \in BOOLEAN : /\ made => helper = "collator"
                           /\ mine' = Author(height, made)
  /\ UNCHANGED <<height, phase>>
  /\ Outrun

-----------------------------------------------------------------------------
\* The conditions of the loops, on what was read last.

\* the default of waitNewStakingRound, and a default one block shorter
DefaultRoundShort == SessionLength + 1
DefaultRound == SessionLength + 2

\* mutant: every loop gives up a block early
AgainShort(c, s, k) ==
  CASE helper \in {"blocks", "session"} -> k + 1 < limit
    [] helper = "number" -> c < ask /\ k + 1 < limit
    [] helper = "round" -> limit > c + 1 /\ s <= first
    [] helper = "phase" -> limit > c + 1 /\ s # 1
    [] helper = "collator" -> limit > c + 1 /\ s # 1

Again(c, s, k) ==
  CASE helper \in {"blocks", "session"} -> k < limit
    [] helper = "number" -> c < ask /\ k < limit
    [] helper = "round" -> limit > c /\ s <= first
    [] helper = "phase" -> limit > c /\ s # 1
    [] helper = "collator" -> limit > c /\ s # 1

\* into the body of the loop, or behind it; two of the bodies start with a read
Loop(again) ==
  pc' = IF ~ again THEN "returned"
        ELSE IF helper \in {"round", "collator"} THEN "number" ELSE "subscribe"

-----------------------------------------------------------------------------
\* The calls, as far as their first read of the chain.

WaitForNBlocks(n) ==
  /\ helper = "blocks"
  /\ limit' = n
  /\ Loop(n > 0)
  /\ UNCHANGED <<ask, reads>>

\* mutant: the call never waits
SessionWaitMissing(n) ==
  /\ helper = "session"
  /\ ask' = n /\ limit' = n /\ cur' = height
  /\ Loop(FALSE)
  /\ UNCHANGED <<first, seen>>

WaitIfSessionWillChangeInNblocks(n) ==
  /\ helper = "session"
  /\ ask' = n /\ limit' = n /\ cur' = height
  /\ Loop(n > 0 /\ (height % SessionLength) + n > SessionLength)
  /\ UNCHANGED <<first, seen>>

WaitBlockNumber(target, max) ==
  /\ helper = "number"
  /\ ask' = target /\ limit' = max /\ cur' = height
  /\ Loop(height < target /\ 0 < max)
  /\ UNCHANGED <<first, seen>>

WaitNewStakingRound(max) ==
  /\ helper = "round"
  /\ ask' = max
  /\ limit' = height + (IF max <= 0 THEN DefaultRound ELSE max)
  /\ cur' = height
  /\ pc' = "firstSession"
  /\ UNCHANGED <<first, seen>>

WaitUntilCollatorProducesBlocks(max) ==
  /\ helper = "collator"
  /\ ask' = max /\ limit' = height + max /\ cur' = height
  /\ Loop(max > 0)
  /\ UNCHANGED <<first, seen>>

WaitForBootstrapStatus(max) ==
  /\ helper = "phase"
  /\ ask' = max /\ limit' = height + max
  /\ pc' = "secondNumber"
  /\ UNCHANGED reads

Call ==
  /\ pc = "called"
  /\ start' = height
  /\ \E n \in Periods : \/ WaitForNBlocks(n)
                        \/ WaitIfSessionWillChangeInNblocks(n)
                        \/ \E target \in Targets : WaitBlockNumber(target, n)
                        \/ WaitNewStakingRound(n)
                        \/ WaitUntilCollatorProducesBlocks(n)
                        \/ WaitForBootstrapStatus(n)
  /\ lag' = 0
  /\ UNCHANGED <<prompt, chain, helper, waited, subscription>>

-----------------------------------------------------------------------------
\* The reads before the loop.

\* waitNewStakingRound reads the session in a query after that of the number
FirstSession ==
  /\ pc = "firstSession"
  /\ first' = Session(height) /\ seen' = Session(height)
  /\ pc' = IF limit > cur THEN "number" ELSE "returned"
  /\ UNCHANGED cur

\* waitForBootstrapStatus reads the number twice, and then the phase
SecondNumber ==
  /\ pc = "secondNumber"
  /\ cur' = height
  /\ pc' = "firstPhase"
  /\ UNCHANGED <<first, seen>>

FirstPhase ==
  /\ pc = "firstPhase"
  /\ seen' = phase
  /\ Loop(Again(cur, phase, waited))
  /\ UNCHANGED <<first, cur>>

\* The reads in the loop.  waitUntilCollatorProducesBlocks looks up the
\* author of the block whose number it has read.
ReadNumber ==
  /\ pc = "number"
  /\ cur' = height
  /\ seen' = IF helper = "collator" THEN (IF height \in mine THEN 1 ELSE 0) ELSE seen
  /\ CASE helper = "round" -> pc' = "session"
       [] helper = "collator" -> pc' = "subscribe"
       [] OTHER -> Loop(Again(height, seen, waited))
  /\ UNCHANGED first

ReadSession ==
  /\ pc = "session"
  /\ seen' = Session(height)
  /\ pc' = "subscribe"
  /\ UNCHANGED <<first, cur>>

ReadPhase ==
  /\ pc = "phase"
  /\ seen' = phase
  /\ pc' = "number"
  /\ UNCHANGED <<first, cur>>

Read ==
  /\ \/ FirstSession \/ SecondNumber \/ FirstPhase
     \/ ReadNumber \/ ReadSession \/ ReadPhase
  /\ lag' = 0
  /\ UNCHANGED <<prompt, chain, args, waited, subscription>>

-----------------------------------------------------------------------------
\* waitNewBlock: the subscription starts with the best block.
Subscribe ==
  /\ pc = "subscribe"
  /\ heads' = 1 /\ count' = 0
  /\ pc' = "listening"
  /\ lag' = 0
  /\ UNCHANGED <<prompt, chain, args, reads, waited>>

\* after the wait, what the loop does before it looks at its condition
AfterWait ==
  CASE helper = "number" -> pc' = "number"
    [] helper = "phase" -> pc' = "phase"
    [] OTHER -> Loop(Again(cur, seen, waited + 1))

\* mutants: the first head is taken for a new block, the count passes its
\* limit, and heads are not counted
DeliverFirst ==
  /\ pc = "listening" /\ heads > 0
  /\ heads' = 0 /\ count' = 0 /\ waited' = waited + 1
  /\ AfterWait
  /\ lag' = 0
  /\ UNCHANGED <<prompt, chain, args, reads>>

DeliverPastTwo ==
  /\ pc = "listening" /\ heads > 0
  /\ heads' = heads - 1 /\ count' = count + 1
  /\ lag' = 0
  /\ UNCHANGED <<prompt, chain, pc, args, reads, waited>>

DeliverUncounted ==
  /\ pc = "listening" /\ heads > 0
  /\ heads' = 0
  /\ lag' = 0
  /\ UNCHANGED <<prompt, chain, count, pc, args, reads, waited>>

Deliver ==
  /\ pc = "listening" /\ heads > 0
  /\ IF count + 1 = 2
     THEN heads' = 0 /\ count' = 0 /\ waited' = waited + 1 /\ AfterWait
     ELSE heads' = heads - 1 /\ count' = count + 1 /\ UNCHANGED <<pc, waited>>
  /\ lag' = 0
  /\ UNCHANGED <<prompt, chain, args, reads>>

Next == NewBlock \/ Fork \/ Call \/ Read \/ Subscribe \/ Deliver

Spec == Init /\ [][Next]_vars

(***************************************************************************)
(* The chain keeps making blocks, the node keeps answering.                *)
(***************************************************************************)
FairSpec ==
  Spec /\ WF_vars(NewBlock) /\ WF_vars(Call \/ Read \/ Subscribe \/ Deliver)

-----------------------------------------------------------------------------
\* PROPERTIES

TypeOK ==
  /\ prompt \in BOOLEAN
  /\ height \in 0..MaxHeight /\ forks \in 0..MaxForks
  /\ mine \subseteq 0..MaxHeight /\ phase \in 0..2 /\ lag \in 0..MaxLag
  /\ helper \in Helpers
  /\ pc \in {"called", "firstSession", "secondNumber", "firstPhase", "number",
             "session", "phase", "subscribe", "listening", "returned"}
  /\ ask \in Periods \cup Targets \cup {0} /\ limit \in Nat /\ start \in 0..MaxHeight
  /\ first \in Nat /\ cur \in 0..MaxHeight /\ seen \in Nat
  /\ waited \in Nat /\ heads \in Nat /\ count \in 0..1

\* No wait gives up early.  Every block that waitForNBlocks counts, on its own
\* or below waitIfSessionWillChangeInNblocks, is a block made after the call;
\* only a replaced best block counts without adding to the height.  And the two
\* blocks that waitNewStakingRound adds to the length of a session make up for
\* the chain moving between its first two reads: with the default limit it
\* returns only when the session has changed (utils.ts:265, 341-353).
NoWaitEndsEarly ==
  pc = "returned" =>
    /\ helper \in {"blocks", "session"} /\ waited > 0 => height + forks >= start + limit
    /\ helper = "round" /\ ask = 0 => seen > first

\* A waiter that keeps up with the chain looks at the author of every block
\* from the first to the last of its allowance (utils.ts:382-392).
NoBlockMissed ==
  prompt /\ pc = "returned" /\ helper = "collator" /\ ask > 0 /\ seen # 1
    => mine \cap start..limit = {}

\* For a prompt caller, behind waitIfSessionWillChangeInNblocks(n) the next n - 1 blocks belong to
\* the session that the caller is in, for an n of at most half a session.  It
\* is not n blocks: the code waits when position + n is beyond the length and
\* not when it meets it (utils.ts:306-309).
SessionHolds ==
  prompt /\ pc = "returned" /\ helper = "session" /\ 0 < ask /\ 2 * ask <= SessionLength
    => LET h == IF waited = 0 THEN cur ELSE cur + limit
       IN height >= h /\ Session(h + ask - 1) = Session(h)

-----------------------------------------------------------------------------
\* Why the waits are long enough.

\* which helper takes which step
Steps ==
  /\ pc \in {"firstSession", "session"} => helper = "round"
  /\ pc \in {"secondNumber", "firstPhase", "phase"} => helper = "phase"
  /\ pc = "number" => helper \in {"number", "round", "collator", "phase"}

\* every block that is counted was made, or put in place of another, since the
\* call: a subscription starts with a head that is not new
Counted ==
  /\ pc = "called" => waited = 0
  /\ pc # "called" => height >= start
  /\ cur <= height
  /\ prompt => forks = 0
  /\ IF pc = "listening"
     THEN count + heads >= 1 /\ height + forks >= start + waited + count + heads - 1
     ELSE heads = 0 /\ count = 0 /\ (pc # "called" => height + forks >= start + waited)
  /\ pc = "returned" /\ helper \in {"blocks", "session"} /\ waited > 0 => waited >= limit

\* the session that waitNewStakingRound starts from is at most the one two
\* blocks after the call, and what it compares is not older than its number
RoundWait ==
  helper = "round" /\ ask = 0 /\ pc # "called" =>
    /\ limit = start + DefaultRound
    /\ IF pc = "firstSession" THEN cur = start /\ height <= start + lag
       ELSE first <= Session(start + 2)
    /\ pc \in {"subscribe", "listening"} => seen >= Session(cur)
    /\ pc = "returned" => seen > first

\* a prompt waiter for the collator reads each number in turn, and none of the
\* blocks behind it is the collator's
CollatorWait ==
  /\ mine \subseteq 0..height
  /\ prompt /\ helper = "collator" /\ ask > 0 =>
       /\ pc = "number" => mine \cap start..(height - 1) = {}
       /\ pc = "subscribe" => cur = height
       /\ pc = "listening" => /\ height = cur + count + heads - 1 /\ count + heads <= 2
                              /\ count = 0 => heads = 1
       /\ pc \in {"subscribe", "listening"} /\ seen # 1 => mine \cap start..cur = {}
       /\ pc = "returned" /\ seen # 1 => mine \cap start..limit = {}

\* waitIfSessionWillChangeInNblocks waits when the session might change
SessionWait ==
  helper = "session" /\ pc # "called" =>
    /\ cur = start /\ limit = ask
    /\ pc # "returned" \/ waited > 0 => (cur % SessionLength) + ask > SessionLength
    /\ pc = "returned" /\ waited = 0 /\ ask > 0 => (cur % SessionLength) + ask <= SessionLength

WInv == TypeOK /\ Steps /\ Counted /\ RoundWait /\ CollatorWait /\ SessionWait

-----------------------------------------------------------------------------
\* Whatever is waited for, the wait ends if the chain goes on.
WaitsEnd == prompt => <>(pc = "returned")
=============================================================================
