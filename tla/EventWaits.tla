----------------------------- MODULE EventWaits -----------------------------
(***************************************************************************)
(* The helpers that wait for something to happen on the chain:             *)
(* waitForEvents, waitForSessionChange and waitForRewards                  *)
(* (eventListeners.ts) and waitUntilUserCollatorRewarded (utils.ts).       *)
(*                                                                         *)
(* Each subscribes to the heads with an asynchronous callback, in which it *)
(* asks the node and then decides.  Nobody awaits the callback: when the   *)
(* node answers more slowly than heads come, callbacks overlap, and they   *)
(* share the counter of heads.                                             *)
(*                                                                         *)
(* The chain is external.  "It" happens in some of the heads: the event is *)
(* among the events of that block only, the session and the rewards are    *)
(* state that keeps what has happened and is read at the best block.       *)
(***************************************************************************)
EXTENDS Integers, FiniteSets

CONSTANTS
  Helpers,   \* the helpers that are called
  Blocks,    \* `blocks`, `max` or `maxBlocks`
  Overlap,   \* callbacks that wait at once for a slow node
  MaxHeads   \* bound: heads that the chain produces

ASSUME WaitAssumption ==
  /\ Helpers \subseteq {"events", "collator", "session", "rewards"}
  /\ Blocks \in Nat \ {0} /\ Overlap \in Nat \ {0} /\ MaxHeads \in Nat

VARIABLES
  inOrder,  \* does the node answer in order, and before the head after next?
  heads,    \* heads since the call, the best block at that time being the first
  happened, \* the heads in which it happened
  helper,   \* which helper was called
  counter,  \* `counter`, `numblocks` or `maxBlocks`
  running,  \* heads whose callback waits for the node
  answered, \* heads whose callback has returned
  open,     \* is the subscription open?
  outcome   \* "pending", "found" or "failed": what became of the promise

vars == <<inOrder, heads, happened, helper, counter, running, answered, open, outcome>>

Init ==
  /\ inOrder \in BOOLEAN
  /\ heads = 0 /\ happened = {}
  /\ helper \in Helpers
  /\ counter = IF helper = "events" THEN 0 ELSE Blocks
  /\ running = {} /\ answered = {}
  /\ open = TRUE
  /\ outcome = "pending"

-----------------------------------------------------------------------------
\* A head.  waitForRewards counts it before it asks, the others when they
\* have the answer.
Head ==
  /\ heads < MaxHeads
  /\ open => Cardinality(running) < (IF inOrder THEN 2 ELSE Overlap)
  /\ heads' = heads + 1
  /\ \E now \in BOOLEAN : happened' = IF now THEN happened \cup {heads + 1} ELSE happened
  /\ running' = IF open THEN running \cup {heads + 1} ELSE running
  /\ counter' = IF open /\ helper = "rewards" THEN counter - 1 ELSE counter
  /\ UNCHANGED <<inOrder, helper, answered, open, outcome>>

\* What the node tells the callback of head h: the events of that block, or
\* the state at one of the best blocks since then.
Told(h) ==
  IF helper \in {"events", "collator"} THEN {h \in happened}
  ELSE {\E past \in 1..read : past \in happened : read \in h..heads}

\* the promise settles once
Settle(as) == outcome' = IF outcome = "pending" THEN as ELSE outcome

\* mutants: time is looked at before the answer; the subscription stays open;
\* nothing is rejected
OnEventTimeFirst(yes) ==
  /\ counter' = counter + 1
  /\ IF counter' = Blocks THEN Settle("failed")
     ELSE IF yes THEN Settle("found") ELSE UNCHANGED outcome
  /\ open' = (open /\ ~ yes)

OnEventKeeping(yes) ==
  /\ counter' = counter + 1
  /\ IF yes THEN Settle("found")
     ELSE IF counter' = Blocks THEN Settle("failed") ELSE UNCHANGED outcome
  /\ UNCHANGED open

OnEventWithoutLimit(yes) ==
  /\ counter' = counter + 1
  /\ IF yes THEN Settle("found") ELSE UNCHANGED outcome
  /\ open' = (open /\ ~ yes)

\* waitForEvents: a timeout leaves the subscription open
OnEvent(yes) ==
  /\ counter' = counter + 1
  /\ IF yes THEN Settle("found")
     ELSE IF counter' = Blocks THEN Settle("failed") ELSE UNCHANGED outcome
  /\ open' = (open /\ ~ yes)

\* waitUntilUserCollatorRewarded: so does this one, and it counts one head more
OnCollatorReward(yes) ==
  /\ counter' = counter - 1
  /\ IF yes THEN Settle("found")
     ELSE IF counter' < 0 THEN Settle("failed") ELSE UNCHANGED outcome
  /\ open' = (open /\ ~ yes)

OnSession(yes) ==
  /\ IF yes THEN Settle("found") ELSE UNCHANGED outcome
  /\ open' = (open /\ ~ yes)
  /\ UNCHANGED counter

\* waitForRewards: by now other heads may have been counted
OnRewards(yes) ==
  /\ IF yes THEN Settle("found")
     ELSE IF counter < 0 THEN Settle("failed") ELSE UNCHANGED outcome
  /\ open' = (open /\ ~ yes /\ counter >= 0)
  /\ UNCHANGED counter

\* mutant: a callback runs again
AnswerKeeping(h) ==
  /\ h \in running
  /\ answered' = answered \cup {h}
  /\ \E yes \in Told(h) : CASE helper = "events" -> OnEvent(yes)
                            [] helper = "collator" -> OnCollatorReward(yes)
                            [] helper = "session" -> OnSession(yes)
                            [] helper = "rewards" -> OnRewards(yes)
  /\ UNCHANGED <<inOrder, heads, happened, helper, running>>

Answer(h) ==
  /\ h \in running
  /\ inOrder => \A other \in running : h <= other
  /\ running' = running \ {h}
  /\ answered' = answered \cup {h}
  /\ \E yes \in Told(h) : CASE helper = "events" -> OnEvent(yes)
                            [] helper = "collator" -> OnCollatorReward(yes)
                            [] helper = "session" -> OnSession(yes)
                            [] helper = "rewards" -> OnRewards(yes)
  /\ UNCHANGED <<inOrder, heads, happened, helper>>

Next == Head \/ \E h \in 1..MaxHeads : Answer(h)

Spec == Init /\ [][Next]_vars

\* the chain goes on, and every query is answered
FairSpec == Spec /\ WF_vars(Head) /\ \A h \in 1..MaxHeads : WF_vars(Answer(h))

-----------------------------------------------------------------------------
\* PROPERTIES

TypeOK ==
  /\ inOrder \in BOOLEAN
  /\ heads \in 0..MaxHeads /\ happened \subseteq 1..heads
  /\ helper \in Helpers /\ counter \in Int
  /\ running \subseteq 1..heads /\ answered \subseteq 1..heads
  /\ running \cap answered = {}
  /\ open \in BOOLEAN /\ outcome \in {"pending", "found", "failed"}

\* When the node answers in order and at most two callbacks overlap, giving
\* up means that nothing happened in all the heads that the caller allowed
\* for (eventListeners.ts:178-180, 232-239; utils.ts:428-430).
FailureIsReal == inOrder /\ outcome = "failed" => happened \cap 1..Blocks = {}

\* Who found what it waited for hears no more heads.  The two helpers that
\* reject on a timeout stay subscribed then, and only then.
OnlyTimeoutsLeak ==
  /\ outcome = "found" => ~ open
  /\ outcome = "failed" /\ helper = "rewards" => ~ open
  /\ ~ open => outcome # "pending"

\* The helpers with a limit settle, whatever happens on the chain; the one
\* without settles when the session changes.
WaitsSettle ==
  /\ helper # "session" => <>(outcome # "pending")
  /\ [](happened # {} /\ helper = "session" => <>(outcome = "found"))
=============================================================================
