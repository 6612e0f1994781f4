--------------------------- MODULE CandidateHints ---------------------------
(***************************************************************************)
(* Joining the candidates, or the delegators of a collator.                *)
(*                                                                         *)
(* joinCandidates and delegate of parachainStaking carry a hint: an upper  *)
(* bound of the number of members the pool has when the call is executed.  *)
(* The chain refuses a call whose hint is too low.  The repository makes   *)
(* up the hint in eight ways (Ways), from what it read of the chain before *)
(* it signs or from a number of the IPC server, plus some slack; between   *)
(* that and the execution come awaits, a sudo batch and the joins of other *)
(* tests.                                                                  *)
(***************************************************************************)
EXTENDS Naturals, FiniteSets

CONSTANTS
  Joiners,          \* the users of the tests that join
  Founders,         \* the members at the start
  Index,            \* Index[j]: position of j in the loop of a group
  CandidateSlack,   \* 10 in Staking.joinAsCandidate
  DelegationSlack,  \* 5 in Staking.delegate
  MaxLeaves         \* bound: members that leave

ASSUME HintAssumption ==
  /\ IsFiniteSet(Joiners) /\ IsFiniteSet(Founders)
  /\ Joiners \cap Founders = {}
  /\ Index \in [Joiners -> Nat]
  /\ \A i, j \in Joiners : Index[i] = Index[j] => i = j
  /\ CandidateSlack \in Nat /\ DelegationSlack \in Nat /\ MaxLeaves \in Nat

CandidateWays == {"ticket", "selected", "poolSlack", "pool", "few"}
DelegationWays == {"delegators", "zero", "fill"}
Ways == CandidateWays \cup DelegationWays

VARIABLES
  way,        \* per joiner: the function that joins it
  members,    \* chain: candidatePool, or the delegations of the collator
  selected,   \* chain: selectedCandidates, chosen among them at a round
  numCollators, \* the counter of the IPC server
  stage,      \* per joiner: "idle", "hinted", "joined", "refused"
  counted,    \* per joiner: the members its hint stands for
  hint,       \* per joiner: the hint its call carries
  missed,     \* history, per joiner: members its hint does not stand for when
              \*   it is made up
  overtook,   \* history, per joiner: who joined between that and its execution
              \*   without being counted
  leaves      \* history: members that left

hintsVars == <<way, members, selected, numCollators, stage, counted, hint,
               missed, overtook, leaves>>

Slack(j) ==
  CASE way[j] \in {"ticket", "selected", "poolSlack"} -> CandidateSlack
    [] way[j] = "delegators" -> DelegationSlack
    [] OTHER -> 0

HintsInit ==
  /\ way \in [Joiners -> CandidateWays] \cup [Joiners -> DelegationWays]
  /\ members = Founders
  /\ selected \in SUBSET Founders \ {{}}
  /\ numCollators = Cardinality(Founders)
  /\ stage = [j \in Joiners |-> "idle"]
  /\ counted = [j \in Joiners |-> {}]
  /\ hint = [j \in Joiners |-> 0]
  /\ missed = [j \in Joiners |-> {}]
  /\ overtook = [j \in Joiners |-> {}]
  /\ leaves = 0

-----------------------------------------------------------------------------
\* the joiners in js have their hints: h[j] for the members in c[j]
Hinted(js, h, c) ==
  /\ \A j \in js : stage[j] = "idle"
  /\ stage' = [j \in Joiners |-> IF j \in js THEN "hinted" ELSE stage[j]]
  /\ hint' = [j \in Joiners |-> IF j \in js THEN h[j] ELSE hint[j]]
  /\ counted' = [j \in Joiners |-> IF j \in js THEN c[j] ELSE counted[j]]
  /\ missed' = [j \in Joiners |-> IF j \in js THEN members \ c[j] ELSE missed[j]]
  /\ UNCHANGED <<way, members, selected, overtook, leaves>>

\* j alone reads the set s and adds its slack
ReadSet(j, s) ==
  /\ Hinted({j}, [k \in {j} |-> Cardinality(s) + Slack(j)], [k \in {j} |-> s])
  /\ UNCHANGED numCollators

\* mutant: the server answers and does not count the call
JoinWithStaleTicket(j) ==
  /\ way[j] = "ticket"
  /\ Hinted({j}, [k \in {j} |-> numCollators + CandidateSlack],
       [k \in {j} |-> Founders \cup
          {i \in Joiners : way[i] = "ticket" /\ stage[i] # "idle"}])
  /\ UNCHANGED numCollators

\* Staking.joinAsCandidate and addStakedUnactivatedReserves in a parallel run:
\* the IPC server counts every call that asked before, joined or not
JoinWithTicket(j) ==
  /\ way[j] = "ticket"
  /\ Hinted({j}, [k \in {j} |-> numCollators + CandidateSlack],
       [k \in {j} |-> Founders \cup
          {i \in Joiners : way[i] = "ticket" /\ stage[i] # "idle"}])
  /\ numCollators' = numCollators + 1

\* Staking.joinAsCandidate under --runInBand: getCandidates counts the selected
\* candidates, not the pool
JoinInBand(j) == way[j] = "selected" /\ ReadSet(j, selected)

\* mutant: the selected candidates again
JoinCandidateCountingSelected(j) == way[j] = "poolSlack" /\ ReadSet(j, selected)

\* joinCandidate of tx.ts
JoinCandidate(j) == way[j] = "poolSlack" /\ ReadSet(j, members)

\* Staking.joinAsCandidateWithUser and joinAsCandidate of setupsOnTheGo.ts,
\* which then await a sudo batch
JoinAsCandidate(j) == way[j] = "pool" /\ ReadSet(j, members)

\* Staking.delegate
Delegate(j) == way[j] = "delegators" /\ ReadSet(j, members)

\* delegate of tx.ts: the delegator state it counts is that of the collator,
\* which delegates to nobody
DelegateUncounted(j) == way[j] = "zero" /\ ReadSet(j, {})

\* A loop over the users of a group: it reads once, and the call of the user at
\* index i carries the number it read plus i.
GroupHinted(group) ==
  /\ group # {}
  /\ Hinted(group, [j \in group |-> Cardinality(members) + Index[j]],
       [j \in group |-> members \cup {i \in group : Index[i] < Index[j]}])
  /\ UNCHANGED numCollators

\* joinAFewCandidates reads candidatePool, fillWithDelegators the delegators
JoinAFewCandidates == GroupHinted({j \in Joiners : way[j] = "few"})
FillWithDelegators == GroupHinted({j \in Joiners : way[j] = "fill"})

\* j joins while i is under way with a hint that does not stand for j
Surprises(j, i) == i # j /\ stage[i] = "hinted" /\ j \notin counted[i]

\* chain: the call of j is executed, in any order among the accounts
Execute(j) ==
  /\ stage[j] = "hinted"
  /\ IF Cardinality(members) <= hint[j]
     THEN /\ members' = members \cup {j}
          /\ stage' = [stage EXCEPT ![j] = "joined"]
          /\ overtook' = [i \in Joiners |-> IF Surprises(j, i) THEN overtook[i] \cup {j}
                                           ELSE overtook[i]]
     ELSE /\ stage' = [stage EXCEPT ![j] = "refused"]
          /\ UNCHANGED <<members, overtook>>
  /\ UNCHANGED <<way, selected, numCollators, counted, hint, missed, leaves>>

\* chain: a member leaves
Leave(m) ==
  /\ leaves < MaxLeaves
  /\ m \in members
  /\ members' = members \ {m}
  /\ selected' = selected \ {m}
  /\ leaves' = leaves + 1
  /\ UNCHANGED <<way, numCollators, stage, counted, hint, missed, overtook>>

\* chain: a round begins and selects some of the members
Round ==
  /\ \E s \in SUBSET members : selected' = s
  /\ UNCHANGED <<way, members, numCollators, stage, counted, hint,
                 missed, overtook, leaves>>

HintsNext ==
  \/ \E j \in Joiners :
       \/ JoinWithTicket(j) \/ JoinInBand(j) \/ JoinCandidate(j)
       \/ JoinAsCandidate(j) \/ Delegate(j) \/ DelegateUncounted(j)
       \/ Execute(j)
  \/ JoinAFewCandidates \/ FillWithDelegators
  \/ \E m \in members : Leave(m)
  \/ Round

HintsSpec == HintsInit /\ [][HintsNext]_hintsVars

-----------------------------------------------------------------------------
\* The state is type correct; the counter of the IPC server is never behind
\* the tickets it has given.
HintsTypeOK ==
  /\ way \in [Joiners -> Ways]
  /\ members \subseteq Joiners \cup Founders
  /\ selected \subseteq members
  /\ stage \in [Joiners -> {"idle", "hinted", "joined", "refused"}]
  /\ hint \in [Joiners -> Nat]
  /\ counted \in [Joiners -> SUBSET (Joiners \cup Founders)]
  /\ missed \in [Joiners -> SUBSET (Joiners \cup Founders)]
  /\ overtook \in [Joiners -> SUBSET Joiners]
  /\ leaves \in 0 .. MaxLeaves
  /\ numCollators = Cardinality(Founders)
       + Cardinality({j \in Joiners : way[j] = "ticket" /\ stage[j] # "idle"})

(***************************************************************************)
(* Who was a member when j made up its hint, and need not be counted in    *)
(* it.  What reads the pool, or the delegations of the collator, counts    *)
(* all.  A ticket counts all who asked for one.  Two ways read something   *)
(* else: getCandidates misses whoever is not selected, and delegate of     *)
(* tx.ts misses everybody.                                                 *)
(***************************************************************************)
Unread(j) ==
  CASE way[j] \in {"selected", "zero"} -> missed[j]
    [] way[j] = "ticket" -> {i \in missed[j] \cap Joiners : way[i] # "ticket"}
    [] OTHER -> {}

(***************************************************************************)
(* The chain refuses a call for its hint (Staking.ts:41-79, tx.ts:484-528, *)
(* setupsOnTheGo.ts:621-848) only when more than its slack of others have  *)
(* joined between the reading and the execution, apart from the earlier    *)
(* ones of its own loop and those with an earlier ticket, and from whoever *)
(* Unread exempts.  So if all joiners of a run take tickets, a call of     *)
(* Staking.joinAsCandidate survives CandidateSlack joins that overtake it, *)
(* and joinCandidate of tx.ts does whatever the others do; one join is     *)
(* enough to have joinAsCandidate, joinAFewCandidates or fillWithDelegators*)
(* refused.  Under --runInBand, and for delegate of tx.ts, nobody need     *)
(* overtake: members that are not selected, or any delegation, suffice.    *)
(***************************************************************************)
RefusedOnlyWhenOvertaken ==
  \A j \in Joiners :
    stage[j] = "refused" => Cardinality(Unread(j) \cup overtook[j]) > Slack(j)
=============================================================================
