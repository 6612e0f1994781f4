-------------------------- MODULE BlockWaitsProofs --------------------------
(***************************************************************************)
(* Theorems about BlockWaits, for every length of a session, every argument *)
(* of the helpers, and a chain of any length.                              *)
(***************************************************************************)
EXTENDS BlockWaits, TLAPS

-----------------------------------------------------------------------------
\* sessions

\* The session of a block is the quotient of its number by the length.
LEMMA SessionBounds ==
  ASSUME NEW h \in Nat
  PROVE  /\ Session(h) \in Nat
         /\ SessionLength * Session(h) <= h
         /\ h < SessionLength * Session(h) + SessionLength
         /\ h % SessionLength = h - SessionLength * Session(h)
<1>1. SessionLength \in Nat \ {0}
  BY ChainAssumption
<1> QED
  BY <1>1 DEF Session

\* A quotient is told by its bounds.
LEMMA SameQuotient ==
  ASSUME NEW L \in Nat \ {0}, NEW q \in Nat, NEW r \in Nat, NEW h \in Nat,
         L * q <= h, h < L * q + L, L * r <= h, h < L * r + L
  PROVE  q = r
<1>1. \A a, b \in Nat : a < b => L * a + L <= L * b
  <2> TAKE a, b \in Nat
  <2> HAVE a < b
  <2>1. PICK d \in Nat : b = a + 1 + d
    <3>1. b - a - 1 \in Nat /\ b = a + 1 + (b - a - 1)
      OBVIOUS
    <3> QED
      BY <3>1
  <2>2. L * b = L * a + L + L * d
    BY <2>1
  <2>3. L * d \in Nat /\ L * a \in Nat
    OBVIOUS
  <2> QED
    BY <2>2, <2>3
<1>2. L * q \in Nat /\ L * r \in Nat
  OBVIOUS
<1>3. ~ (q < r)
  BY <1>1, <1>2
<1>4. ~ (r < q)
  BY <1>1, <1>2
<1> QED
  BY <1>3, <1>4

\* A later block is in the same session or in a later one.
LEMMA SessionMonotone ==
  ASSUME NEW g \in Nat, NEW h \in Nat, g <= h
  PROVE  Session(g) <= Session(h)
<1>1. SessionLength \in Nat \ {0}
  BY ChainAssumption
<1>2. /\ Session(g) \in Nat /\ SessionLength * Session(g) <= g
      /\ Session(h) \in Nat /\ h < SessionLength * Session(h) + SessionLength
  BY SessionBounds
<1>3. SUFFICES ASSUME Session(h) < Session(g)
               PROVE  FALSE
  BY <1>2
<1>4. PICK d \in Nat : Session(g) = Session(h) + 1 + d
  <2>1. \A a, b \in Nat : b < a => a - b - 1 \in Nat /\ a = b + 1 + (a - b - 1)
    OBVIOUS
  <2> QED
    BY <1>2, <1>3, <2>1
<1>5. SessionLength * Session(g) = SessionLength * Session(h) + SessionLength + SessionLength * d
  BY <1>1, <1>2, <1>4
<1>6. SessionLength * d \in Nat /\ SessionLength * Session(h) \in Nat
  BY <1>1, <1>2
<1>7. SessionLength * Session(g) >= SessionLength * Session(h) + SessionLength
  BY <1>1, <1>5, <1>6
<1> QED
  BY <1>1, <1>2, <1>6, <1>7

\* A session later, the session is the next one.
LEMMA SessionLater ==
  ASSUME NEW h \in Nat
  PROVE  Session(h + SessionLength) = Session(h) + 1
<1>1. SessionLength \in Nat \ {0} /\ h + SessionLength \in Nat
  BY ChainAssumption
<1>2. PICK q \in Nat : q = Session(h)
  BY SessionBounds
<1>3. SessionLength * q <= h /\ h < SessionLength * q + SessionLength
  BY <1>2, SessionBounds
<1>4. PICK r \in Nat : r = Session(h + SessionLength)
  BY <1>1, SessionBounds
<1>5. /\ SessionLength * r <= h + SessionLength
      /\ h + SessionLength < SessionLength * r + SessionLength
  BY <1>1, <1>4, SessionBounds
<1>6. SessionLength * (q + 1) = SessionLength * q + SessionLength /\ SessionLength * q \in Nat
  BY <1>1
<1>7. /\ SessionLength * (q + 1) <= h + SessionLength
      /\ h + SessionLength < SessionLength * (q + 1) + SessionLength
  BY <1>1, <1>3, <1>6
<1>8. q + 1 \in Nat
  OBVIOUS
<1>9. q + 1 = r
  BY ONLY <1>1, <1>5, <1>7, <1>8, SameQuotient
<1> QED
  BY <1>2, <1>4, <1>9

\* The blocks up to the end of a session are in it.
LEMMA SessionOf ==
  ASSUME NEW h \in Nat, NEW n \in Nat, (h % SessionLength) + n < SessionLength
  PROVE  Session(h + n) = Session(h)
<1>1. SessionLength \in Nat \ {0} /\ h + n \in Nat
  BY ChainAssumption
<1>2. PICK q \in Nat : q = Session(h)
  BY SessionBounds
<1>3. SessionLength * q <= h /\ h % SessionLength = h - SessionLength * q
  BY <1>2, SessionBounds
<1>4. SessionLength * q \in Nat
  BY <1>1
<1>5. SessionLength * q <= h + n /\ h + n < SessionLength * q + SessionLength
  BY <1>1, <1>3, <1>4
<1>6. PICK r \in Nat : r = Session(h + n)
  BY <1>1, SessionBounds
<1>7. SessionLength * r <= h + n /\ h + n < SessionLength * r + SessionLength
  BY <1>1, <1>6, SessionBounds
<1>8. q = r
  BY ONLY <1>1, <1>5, <1>7, SameQuotient
<1> QED
  BY <1>2, <1>6, <1>8

\* From a block near the end of its session, half a session or less takes one
\* to the start of the next.
LEMMA SessionPassed ==
  ASSUME NEW h \in Nat, NEW n \in Nat, n > 0, 2 * n <= SessionLength,
         (h % SessionLength) + n > SessionLength
  PROVE  Session(h + n + n - 1) = Session(h + n)
<1>1. SessionLength \in Nat \ {0} /\ n - 1 \in Nat
  BY ChainAssumption
<1>2. PICK k \in Nat : k = h + n
  OBVIOUS
<1>3. PICK q \in Nat : q = Session(h)
  BY SessionBounds
<1>4. /\ SessionLength * q <= h /\ h < SessionLength * q + SessionLength
      /\ h % SessionLength = h - SessionLength * q
  BY <1>3, SessionBounds
<1>5. SessionLength * (q + 1) = SessionLength * q + SessionLength /\ SessionLength * q \in Nat
  BY <1>1
<1>6. SessionLength * (q + 1) <= k /\ k < SessionLength * (q + 1) + SessionLength
  BY <1>1, <1>2, <1>4, <1>5
<1>7. PICK r \in Nat : r = Session(k)
  BY <1>1, SessionBounds
<1>8. /\ SessionLength * r <= k /\ k < SessionLength * r + SessionLength
      /\ k % SessionLength = k - SessionLength * r
  BY <1>7, SessionBounds
<1>9. q + 1 = r
  <2>1. q + 1 \in Nat
    OBVIOUS
  <2> QED
    BY ONLY <1>1, <1>6, <1>8, <2>1, SameQuotient
<1>10. (k % SessionLength) + (n - 1) < SessionLength
  BY <1>1, <1>2, <1>4, <1>5, <1>8, <1>9
<1>11. Session(k + (n - 1)) = Session(k)
  BY ONLY <1>1, <1>10, SessionOf
<1>12. k + (n - 1) = h + n + n - 1
  BY <1>2
<1> QED
  BY <1>2, <1>11, <1>12
-----------------------------------------------------------------------------
\* the steps

\* What a block made or replaced does to the chain: a prompt waiter sees only
\* new blocks, and only while it listens and has no head to look at.
LEMMA ChainMoves ==
  ASSUME TypeOK, NewBlock \/ Fork
  PROVE  /\ height' \in 0..MaxHeight /\ forks' \in 0..MaxForks
         /\ height <= height' /\ height' <= height + 1
         /\ height' + forks' = height + forks + 1
         /\ mine' \subseteq mine \cup {height'}
         /\ phase' \in 0..2
         /\ prompt => height' = height + 1 /\ forks' = forks /\ Waiting
         /\ Outrun
<1>1. height \in 0..MaxHeight /\ forks \in 0..MaxForks /\ phase \in 0..2 /\ MaxHeight \in Nat /\ MaxForks \in Nat
  BY ChainAssumption DEF TypeOK
<1>2. CASE NewBlock
  <2>1. height' = height + 1 /\ height < MaxHeight /\ forks' = forks /\ Outrun
    BY <1>2 DEF NewBlock
  <2>2. mine' \subseteq mine \cup {height + 1}
    BY <1>2 DEF NewBlock, Author
  <2>3. phase' \in 0..2
    BY <1>1, <1>2 DEF NewBlock
  <2>4. prompt => Waiting
    BY <2>1 DEF Outrun
  <2> QED
    BY <1>1, <2>1, <2>2, <2>3, <2>4
<1>3. CASE Fork
  <2>1. height' = height /\ forks < MaxForks /\ forks' = forks + 1 /\ phase' = phase /\ Outrun /\ ~ prompt
    BY <1>3 DEF Fork
  <2>2. mine' \subseteq mine \cup {height}
    BY <1>3 DEF Fork, Author
  <2> QED
    BY <1>1, <2>1, <2>2
<1> QED
  BY <1>2, <1>3

\* The helper that is called.
LEMMA CallCases ==
  ASSUME TypeOK, Call
  PROVE  \E n \in Periods : \/ WaitForNBlocks(n)
                            \/ WaitIfSessionWillChangeInNblocks(n)
                            \/ \E target \in Targets : WaitBlockNumber(target, n)
                            \/ WaitNewStakingRound(n)
                            \/ WaitUntilCollatorProducesBlocks(n)
                            \/ WaitForBootstrapStatus(n)
  BY DEF Call

\* After a wait, a read or the condition of the loop follows.
LEMMA AfterWaitNext ==
  ASSUME TypeOK, AfterWait
  PROVE  pc' \in {"number", "phase", "subscribe", "returned"}
  BY DEF AfterWait, Loop

LEMMA TypeOnChain ==
  ASSUME TypeOK, NewBlock \/ Fork
  PROVE  TypeOK'
<1>1. height' \in 0..MaxHeight /\ forks' \in 0..MaxForks /\ mine' \subseteq mine \cup {height'} /\ phase' \in 0..2 /\ Outrun
  BY ChainMoves
<1>2. mine' \subseteq 0..MaxHeight
  BY <1>1 DEF TypeOK
<1>3. lag' \in 0..MaxLag
  BY <1>1, ChainAssumption DEF TypeOK, Outrun
<1>4. heads' \in Nat
  BY <1>1 DEF TypeOK, Outrun
<1>5. UNCHANGED <<prompt, pc, helper, ask, limit, start, first, cur, seen, waited, count>>
  BY <1>1 DEF Outrun, args, reads
<1> QED
  BY <1>1, <1>2, <1>3, <1>4, <1>5 DEF TypeOK

LEMMA TypeOnCall ==
  ASSUME TypeOK, Call
  PROVE  TypeOK'
<1>1. /\ UNCHANGED <<prompt, height, forks, mine, phase, helper, waited, heads, count>>
      /\ start' = height /\ lag' = 0
  BY DEF Call, chain, subscription
<1>2. /\ height \in 0..MaxHeight /\ height \in Nat /\ Periods \subseteq Nat /\ Targets \subseteq Nat
      /\ SessionLength \in Nat /\ 0 \in 0..MaxLag
  BY ChainAssumption DEF TypeOK
<1>3. PICK n \in Periods : \/ WaitForNBlocks(n)
                           \/ WaitIfSessionWillChangeInNblocks(n)
                           \/ \E target \in Targets : WaitBlockNumber(target, n)
                           \/ WaitNewStakingRound(n)
                           \/ WaitUntilCollatorProducesBlocks(n)
                           \/ WaitForBootstrapStatus(n)
  BY CallCases
<1>4. n \in Nat
  BY <1>2
<1> DEFINE New == /\ ask' \in Periods \cup Targets \cup {0} /\ limit' \in Nat
                  /\ first' \in Nat /\ cur' \in 0..MaxHeight /\ seen' \in Nat
                  /\ pc' \in {"firstSession", "secondNumber", "number", "subscribe", "returned"}
<1>5. ask \in Periods \cup Targets \cup {0} /\ first \in Nat /\ cur \in 0..MaxHeight /\ seen \in Nat
  BY DEF TypeOK
<1>6. New
  <2>1. CASE WaitForNBlocks(n)
    BY <1>4, <1>5, <2>1 DEF WaitForNBlocks, Loop, reads
  <2>2. CASE WaitIfSessionWillChangeInNblocks(n)
    BY <1>2, <1>4, <1>5, <2>2 DEF WaitIfSessionWillChangeInNblocks, Loop
  <2>3. CASE \E target \in Targets : WaitBlockNumber(target, n)
    BY <1>2, <1>4, <1>5, <2>3 DEF WaitBlockNumber, Loop
  <2>4. CASE WaitNewStakingRound(n)
    <3>1. (IF n <= 0 THEN DefaultRound ELSE n) \in Nat
      BY <1>2, <1>4 DEF DefaultRound
    <3>2. limit' \in Nat
      BY <1>2, <2>4, <3>1 DEF WaitNewStakingRound
    <3> QED
      BY <1>2, <1>5, <2>4, <3>2 DEF WaitNewStakingRound
  <2>5. CASE WaitUntilCollatorProducesBlocks(n)
    BY <1>2, <1>4, <1>5, <2>5 DEF WaitUntilCollatorProducesBlocks, Loop
  <2>6. CASE WaitForBootstrapStatus(n)
    BY <1>2, <1>4, <1>5, <2>6 DEF WaitForBootstrapStatus, reads
  <2> QED
    BY <1>3, <2>1, <2>2, <2>3, <2>4, <2>5, <2>6
<1> QED
  BY <1>1, <1>2, <1>6 DEF TypeOK

LEMMA TypeOnRead ==
  ASSUME TypeOK, Read
  PROVE  TypeOK'
<1>1. /\ UNCHANGED <<prompt, height, forks, mine, phase, helper, ask, limit, start, waited, heads, count>>
      /\ lag' = 0
  BY DEF Read, chain, subscription, args
<1>2. height \in 0..MaxHeight /\ height \in Nat /\ 0 \in 0..MaxLag /\ phase \in Nat
  BY ChainAssumption DEF TypeOK
<1>3. Session(height) \in Nat
  BY <1>2, SessionBounds
<1> DEFINE New == /\ first' \in Nat /\ cur' \in 0..MaxHeight /\ seen' \in Nat
                  /\ pc' \in {"firstPhase", "number", "session", "subscribe", "returned"}
<1>4. first \in Nat /\ cur \in 0..MaxHeight /\ seen \in Nat
  BY DEF TypeOK
<1>5. New
  <2>1. CASE FirstSession
    BY <1>3, <1>4, <2>1 DEF FirstSession
  <2>2. CASE SecondNumber
    BY <1>2, <1>4, <2>2 DEF SecondNumber
  <2>3. CASE FirstPhase
    BY <1>2, <1>4, <2>3 DEF FirstPhase, Loop
  <2>4. CASE ReadNumber
    <3>1. seen' \in Nat
      BY <1>4, <2>4 DEF ReadNumber
    <3>2. pc' \in {"number", "session", "subscribe", "returned"}
      BY <2>4 DEF ReadNumber, Loop
    <3> QED
      BY <1>2, <1>4, <2>4, <3>1, <3>2 DEF ReadNumber
  <2>5. CASE ReadSession
    BY <1>3, <1>4, <2>5 DEF ReadSession
  <2>6. CASE ReadPhase
    BY <1>2, <1>4, <2>6 DEF ReadPhase
  <2> QED
    BY <2>1, <2>2, <2>3, <2>4, <2>5, <2>6 DEF Read
<1> QED
  BY <1>1, <1>2, <1>5 DEF TypeOK

LEMMA TypeOnWait ==
  ASSUME TypeOK, Subscribe \/ Deliver
  PROVE  TypeOK'
<1>1. 0 \in 0..MaxLag
  BY ChainAssumption
<1>2. CASE Subscribe
  BY <1>1, <1>2 DEF Subscribe, TypeOK, chain, args, reads
<1>3. CASE Deliver
  <2>1. /\ UNCHANGED <<prompt, height, forks, mine, phase, helper, ask, limit, start, first, cur, seen>>
        /\ lag' = 0
    BY <1>3 DEF Deliver, chain, args, reads
  <2>2. CASE count + 1 = 2
    <3>1. heads' = 0 /\ count' = 0 /\ waited' = waited + 1 /\ AfterWait
      BY <1>3, <2>2 DEF Deliver
    <3>2. pc' \in {"number", "phase", "subscribe", "returned"}
      BY <3>1, AfterWaitNext
    <3> QED
      BY <1>1, <2>1, <3>1, <3>2 DEF TypeOK
  <2>3. CASE count + 1 # 2
    <3>1. heads' = heads - 1 /\ count' = count + 1 /\ heads > 0 /\ UNCHANGED <<pc, waited>>
      BY <1>3, <2>3 DEF Deliver
    <3>2. heads' \in Nat
      BY <3>1 DEF TypeOK
    <3>3. count' \in 0..1
      BY <2>3, <3>1 DEF TypeOK
    <3> QED
      BY <1>1, <2>1, <3>1, <3>2, <3>3 DEF TypeOK
  <2> QED
    BY <2>2, <2>3
<1> QED
  BY <1>2, <1>3

LEMMA TypeStep ==
  TypeOK /\ [Next]_vars => TypeOK'
<1> SUFFICES ASSUME TypeOK, [Next]_vars
             PROVE  TypeOK'
  OBVIOUS
<1>1. CASE UNCHANGED vars
  BY <1>1 DEF TypeOK, vars, chain, args, reads, subscription
<1> QED
  BY <1>1, TypeOnChain, TypeOnCall, TypeOnRead, TypeOnWait DEF Next

LEMMA TypeInit == Init => TypeOK
<1> SUFFICES ASSUME Init
             PROVE  TypeOK
  OBVIOUS
<1>1. height \in 0..MaxHeight
  BY ChainAssumption DEF Init
<1> QED
  BY <1>1, ChainAssumption DEF Init, TypeOK

\* Every variable keeps its type, for every length of a session, argument and
\* lag (utils.ts:256-392).
THEOREM TypeCorrect == Spec => []TypeOK
  BY TypeInit, TypeStep, PTL DEF Spec
-----------------------------------------------------------------------------
\* what is counted

LEMMA StepsStep ==
  TypeOK /\ Steps /\ [Next]_vars => Steps'
<1> SUFFICES ASSUME TypeOK, Steps, [Next]_vars
             PROVE  Steps'
  OBVIOUS
<1>1. helper \in {"blocks", "number", "round", "collator", "session", "phase"}
  BY ChainAssumption DEF TypeOK
<1>2. CASE UNCHANGED vars
  BY <1>2 DEF Steps, vars, args
<1>3. CASE NewBlock \/ Fork
  BY <1>3 DEF NewBlock, Fork, Outrun, args, Steps
<1>4. CASE Call
  <2>1. helper' = helper
    BY <1>4 DEF Call
  <2>2. PICK n \in Periods : \/ WaitForNBlocks(n)
                             \/ WaitIfSessionWillChangeInNblocks(n)
                             \/ \E target \in Targets : WaitBlockNumber(target, n)
                             \/ WaitNewStakingRound(n)
                             \/ WaitUntilCollatorProducesBlocks(n)
                             \/ WaitForBootstrapStatus(n)
    BY <1>4, CallCases
  <2>3. CASE WaitForNBlocks(n)
    BY <2>1, <2>3 DEF WaitForNBlocks, Loop, Steps
  <2>4. CASE WaitIfSessionWillChangeInNblocks(n)
    BY <2>1, <2>4 DEF WaitIfSessionWillChangeInNblocks, Loop, Steps
  <2>5. CASE \E target \in Targets : WaitBlockNumber(target, n)
    BY <2>1, <2>5 DEF WaitBlockNumber, Loop, Steps
  <2>6. CASE WaitNewStakingRound(n)
    BY <2>1, <2>6 DEF WaitNewStakingRound, Steps
  <2>7. CASE WaitUntilCollatorProducesBlocks(n)
    BY <2>1, <2>7 DEF WaitUntilCollatorProducesBlocks, Loop, Steps
  <2>8. CASE WaitForBootstrapStatus(n)
    BY <2>1, <2>8 DEF WaitForBootstrapStatus, Steps
  <2> QED
    BY <2>2, <2>3, <2>4, <2>5, <2>6, <2>7, <2>8
<1>5. CASE Read
  <2>1. helper' = helper
    BY <1>5 DEF Read, args
  <2>2. CASE FirstSession
    BY <2>1, <2>2 DEF FirstSession, Steps
  <2>3. CASE SecondNumber
    BY <2>1, <2>3 DEF SecondNumber, Steps
  <2>4. CASE FirstPhase
    BY <2>1, <2>4 DEF FirstPhase, Loop, Steps
  <2>5. CASE ReadNumber
    <3>1. \/ helper = "round" /\ pc' = "session"
          \/ helper # "round" /\ pc' \in {"number", "subscribe", "returned"} /\ helper \in {"number", "collator", "phase"}
      BY <1>1, <2>5 DEF ReadNumber, Loop, Steps
    <3> QED
      BY <2>1, <3>1 DEF Steps
  <2>6. CASE ReadSession
    BY <2>1, <2>6 DEF ReadSession, Steps
  <2>7. CASE ReadPhase
    BY <2>1, <2>7 DEF ReadPhase, Steps
  <2> QED
    BY <1>5, <2>2, <2>3, <2>4, <2>5, <2>6, <2>7 DEF Read
<1>6. CASE Subscribe
  BY <1>6 DEF Subscribe, args, Steps
<1>7. CASE Deliver
  <2>1. helper' = helper /\ pc = "listening"
    BY <1>7 DEF Deliver, args
  <2>2. CASE pc' = pc
    BY <2>1, <2>2 DEF Steps
  <2>3. CASE AfterWait
    <3>1. \/ helper = "number" /\ pc' = "number"
          \/ helper = "phase" /\ pc' = "phase"
          \/ helper \notin {"number", "phase"} /\ Loop(Again(cur, seen, waited + 1))
      BY <2>3 DEF AfterWait
    <3>2. \/ helper = "number" /\ pc' = "number"
          \/ helper = "phase" /\ pc' = "phase"
          \/ helper \in {"round", "collator"} /\ pc' = "number"
          \/ pc' \in {"subscribe", "returned"}
      BY <3>1 DEF Loop
    <3> QED
      BY <2>1, <3>2 DEF Steps
  <2> QED
    BY <1>7, <2>2, <2>3 DEF Deliver
<1> QED
  BY <1>2, <1>3, <1>4, <1>5, <1>6, <1>7 DEF Next

\* A call has not waited, and it starts at the best block.
LEMMA CountedOnCall ==
  ASSUME TypeOK, Counted, Call
  PROVE  Counted'
<1>1. /\ pc = "called" /\ start' = height
      /\ UNCHANGED <<prompt, height, forks, helper, waited, heads, count>>
  BY DEF Call, chain, subscription
<1>2. waited = 0 /\ heads = 0 /\ count = 0 /\ cur <= height /\ (prompt => forks = 0)
  BY <1>1 DEF Counted
<1>3. height \in Nat /\ forks \in Nat
  BY ChainAssumption DEF TypeOK
<1>4. pc' \in {"firstSession", "secondNumber", "number", "subscribe", "returned"} /\ cur' \in {cur, height}
  <2>1. PICK n \in Periods : \/ WaitForNBlocks(n)
                             \/ WaitIfSessionWillChangeInNblocks(n)
                             \/ \E target \in Targets : WaitBlockNumber(target, n)
                             \/ WaitNewStakingRound(n)
                             \/ WaitUntilCollatorProducesBlocks(n)
                             \/ WaitForBootstrapStatus(n)
    BY CallCases
  <2>2. CASE WaitForNBlocks(n)
    BY <2>2 DEF WaitForNBlocks, Loop, reads
  <2>3. CASE WaitIfSessionWillChangeInNblocks(n)
    BY <2>3 DEF WaitIfSessionWillChangeInNblocks, Loop
  <2>4. CASE \E target \in Targets : WaitBlockNumber(target, n)
    BY <2>4 DEF WaitBlockNumber, Loop
  <2>5. CASE WaitNewStakingRound(n)
    BY <2>5 DEF WaitNewStakingRound
  <2>6. CASE WaitUntilCollatorProducesBlocks(n)
    BY <2>6 DEF WaitUntilCollatorProducesBlocks, Loop
  <2>7. CASE WaitForBootstrapStatus(n)
    BY <2>7 DEF WaitForBootstrapStatus, reads
  <2> QED
    BY <2>1, <2>2, <2>3, <2>4, <2>5, <2>6, <2>7
<1>5. cur' <= height
  BY <1>2, <1>3, <1>4
<1> QED
  BY <1>1, <1>2, <1>3, <1>4, <1>5 DEF Counted

\* A block made or replaced while the waiter listens is one more head on its
\* way to it.
LEMMA CountedOnChain ==
  ASSUME TypeOK, Counted, NewBlock \/ Fork
  PROVE  Counted'
<1>1. /\ height' \in Nat /\ height <= height' /\ height' + forks' = height + forks + 1 /\ forks' \in Nat
      /\ prompt => forks' = forks
      /\ Outrun
  BY ChainMoves, ChainAssumption
<1>2. /\ pc \notin {"called", "returned"}
      /\ heads' = IF pc = "listening" THEN heads + 1 ELSE heads
      /\ UNCHANGED <<prompt, pc, helper, limit, start, cur, waited, count>>
  BY <1>1 DEF Outrun, args, reads
<1>3. /\ height \in Nat /\ forks \in Nat /\ waited \in Nat /\ heads \in Nat
      /\ count \in Nat /\ start \in Nat /\ cur \in Nat
  BY ChainAssumption DEF TypeOK
<1>4. height' >= start' /\ cur' <= height'
  BY <1>1, <1>2, <1>3 DEF Counted
<1>5. CASE pc = "listening"
  <2>1. heads' = heads + 1
    BY <1>2, <1>5
  <2>2. count + heads >= 1 /\ height + forks >= start + waited + count + heads - 1
    BY <1>5 DEF Counted
  <2>3. height + forks + 1 >= start + waited + count + (heads + 1) - 1
    BY <1>3, <2>2
  <2>4. count' = count /\ start' = start /\ waited' = waited
    BY <1>2
  <2>5. height' + forks' >= start' + waited' + count' + heads' - 1
    BY <1>1, <2>1, <2>3, <2>4
  <2>6. count' + heads' >= 1
    BY <1>3, <2>1, <2>4
  <2> QED
    BY <1>1, <1>2, <1>4, <1>5, <2>5, <2>6 DEF Counted
<1>6. CASE pc # "listening"
  <2>1. heads' = 0 /\ count' = 0 /\ height + forks >= start + waited
    BY <1>2, <1>6 DEF Counted
  <2>2. height + forks + 1 >= start + waited
    BY <1>3, <2>1
  <2>3. start' = start /\ waited' = waited
    BY <1>2
  <2>4. height' + forks' >= start' + waited'
    BY <1>1, <2>2, <2>3
  <2> QED
    BY <1>1, <1>2, <1>4, <1>6, <2>1, <2>4 DEF Counted
<1> QED
  BY <1>5, <1>6

\* The first head is the block at which the subscription started.
LEMMA CountedOnSubscribe ==
  ASSUME TypeOK, Counted, Subscribe
  PROVE  Counted'
<1>1. /\ pc = "subscribe" /\ pc' = "listening" /\ heads' = 1 /\ count' = 0
      /\ UNCHANGED <<prompt, height, forks, helper, limit, start, cur, waited>>
  BY DEF Subscribe, chain, args, reads
<1>2. /\ height \in Nat /\ forks \in Nat /\ waited \in Nat /\ start \in Nat
  BY ChainAssumption DEF TypeOK
<1> QED
  BY <1>1, <1>2 DEF Counted

\* The second head is a block that was made or replaced since.
LEMMA CountedOnDeliver ==
  ASSUME TypeOK, Counted, Deliver
  PROVE  Counted'
<1>1. /\ pc = "listening" /\ heads > 0
      /\ UNCHANGED <<prompt, height, forks, helper, limit, start, cur>>
  BY DEF Deliver, chain, args, reads
<1>2. /\ height \in Nat /\ forks \in Nat /\ waited \in Nat /\ heads \in Nat
      /\ count \in 0..1 /\ start \in Nat /\ limit \in Nat
  BY ChainAssumption DEF TypeOK
<1>3. /\ count + heads >= 1 /\ height + forks >= start + waited + count + heads - 1
      /\ height >= start /\ cur <= height /\ (prompt => forks = 0)
  BY <1>1 DEF Counted
<1>4. CASE count + 1 = 2
  <2>1. heads' = 0 /\ count' = 0 /\ waited' = waited + 1 /\ AfterWait
    BY <1>4 DEF Deliver
  <2>2. pc' \in {"number", "phase", "subscribe", "returned"}
    BY <2>1, AfterWaitNext
  <2>3. height + forks >= start + waited'
    BY <1>1, <1>2, <1>3, <1>4, <2>1
  <2>4. ASSUME helper \in {"blocks", "session"}, pc' = "returned"
        PROVE  waited' >= limit
    <3>1. Loop(Again(cur, seen, waited + 1))
      BY <2>1, <2>4 DEF AfterWait
    <3>2. ~ Again(cur, seen, waited + 1)
      BY <2>4, <3>1 DEF Loop
    <3>3. ~ (waited + 1 < limit)
      BY <2>4, <3>2 DEF Again
    <3> QED
      BY <1>2, <2>1, <3>3
  <2> QED
    BY <1>1, <1>3, <2>1, <2>2, <2>3, <2>4 DEF Counted
<1>5. CASE count + 1 # 2
  <2>1. heads' = heads - 1 /\ count' = count + 1 /\ UNCHANGED <<pc, waited>>
    BY <1>5 DEF Deliver
  <2>2. count' + heads' >= 1 /\ height + forks >= start + waited + count' + heads' - 1
    BY <1>1, <1>2, <1>3, <2>1
  <2> QED
    BY <1>1, <1>3, <2>1, <2>2 DEF Counted
<1> QED
  BY <1>4, <1>5

LEMMA CountedOnRead ==
  ASSUME TypeOK, Steps, Counted, Read
  PROVE  Counted'
<1>1. UNCHANGED <<prompt, height, forks, helper, limit, start, waited, heads, count>>
  BY DEF Read, chain, args, subscription
<1>2. /\ pc \in {"firstSession", "secondNumber", "firstPhase", "number", "session", "phase"}
      /\ helper \notin {"blocks", "session"}
  BY DEF Read, FirstSession, SecondNumber, FirstPhase, ReadNumber, ReadSession, ReadPhase, Steps
<1>3. pc' \in {"firstPhase", "number", "session", "subscribe", "returned"} /\ cur' \in {cur, height}
  BY DEF Read, FirstSession, SecondNumber, FirstPhase, ReadNumber, ReadSession, ReadPhase, Loop
<1>4. height \in Nat /\ cur' <= height
  BY <1>3, ChainAssumption DEF TypeOK, Counted
<1> QED
  BY <1>1, <1>2, <1>3, <1>4 DEF Counted

LEMMA CountedStep ==
  TypeOK /\ Steps /\ Counted /\ [Next]_vars => Counted'
<1> SUFFICES ASSUME TypeOK, Steps, Counted, [Next]_vars
             PROVE  Counted'
  OBVIOUS
<1>1. CASE UNCHANGED vars
  BY <1>1 DEF Counted, vars, chain, args, reads, subscription
<1> QED
  BY <1>1, CountedOnChain, CountedOnCall, CountedOnRead, CountedOnSubscribe, CountedOnDeliver
  DEF Next
-----------------------------------------------------------------------------
\* waiting for a session and for a staking round

LEMMA SessionWaitStep ==
  TypeOK /\ Steps /\ Counted /\ SessionWait /\ [Next]_vars => SessionWait'
<1> SUFFICES ASSUME TypeOK, Steps, Counted, SessionWait, [Next]_vars, helper' = "session", pc' # "called"
             PROVE  /\ cur' = start' /\ limit' = ask'
                    /\ pc' # "returned" \/ waited' > 0 => (cur' % SessionLength) + ask' > SessionLength
                    /\ pc' = "returned" /\ waited' = 0 /\ ask' > 0
                         => (cur' % SessionLength) + ask' <= SessionLength
  BY DEF SessionWait
<1>1. helper = "session"
  BY DEF Next, vars, NewBlock, Fork, Outrun, Call, Read, Subscribe, Deliver, args
<1>2. waited \in Nat /\ height \in Nat /\ SessionLength \in Nat \ {0}
  BY ChainAssumption DEF TypeOK
<1>3. CASE UNCHANGED vars
  BY <1>1, <1>3 DEF SessionWait, vars, args, reads
<1>4. CASE NewBlock \/ Fork
  BY <1>1, <1>4 DEF SessionWait, NewBlock, Fork, Outrun, args, reads
<1>5. CASE Call
  <2>1. pc = "called" /\ start' = height /\ waited' = 0
    BY <1>5 DEF Call, Counted
  <2>2. PICK n \in Periods : WaitIfSessionWillChangeInNblocks(n)
    BY <1>1, <1>5, CallCases DEF WaitForNBlocks, WaitBlockNumber, WaitNewStakingRound,
                                 WaitUntilCollatorProducesBlocks, WaitForBootstrapStatus
  <2>3. n \in Nat /\ ask' = n /\ limit' = n /\ cur' = height
    BY <2>2, ChainAssumption DEF WaitIfSessionWillChangeInNblocks
  <2>4. PICK p \in Nat : p = height % SessionLength
    BY <1>2, SessionBounds
  <2>5. pc' = IF n > 0 /\ p + n > SessionLength THEN "subscribe" ELSE "returned"
    BY <1>1, <2>2, <2>4 DEF WaitIfSessionWillChangeInNblocks, Loop
  <2>6. CASE n > 0 /\ p + n > SessionLength
    BY <2>1, <2>3, <2>4, <2>5, <2>6
  <2>7. CASE ~ (n > 0 /\ p + n > SessionLength)
    <3>1. n > 0 => p + n <= SessionLength
      BY <1>2, <2>3, <2>7
    <3> QED
      BY <2>1, <2>3, <2>4, <2>5, <2>7, <3>1
  <2> QED
    BY <2>6, <2>7
<1>6. CASE Read
  BY <1>1, <1>6 DEF Read, FirstSession, SecondNumber, FirstPhase, ReadNumber, ReadSession, ReadPhase, Steps
<1>7. CASE Subscribe
  BY <1>1, <1>7 DEF SessionWait, Subscribe, args, reads
<1>8. CASE Deliver
  <2>1. /\ pc = "listening" /\ waited' \in {waited, waited + 1}
        /\ UNCHANGED <<ask, limit, start, cur>>
        /\ pc' = pc \/ waited' = waited + 1
    BY <1>8 DEF Deliver, args, reads
  <2>2. /\ cur = start /\ limit = ask
        /\ (cur % SessionLength) + ask > SessionLength
    BY <1>1, <2>1 DEF SessionWait
  <2>3. ~ (pc' = "returned" /\ waited' = 0)
    BY <1>2, <2>1
  <2> QED
    BY <2>1, <2>2, <2>3
<1> QED
  BY <1>3, <1>4, <1>5, <1>6, <1>7, <1>8 DEF Next

\* The two blocks that are added to the length of a session are enough for a
\* chain that makes at most two between the first two reads.
LEMMA RoundWaitStep ==
  ASSUME MaxLag <= 2
  PROVE  TypeOK /\ Steps /\ Counted /\ RoundWait /\ [Next]_vars => RoundWait'
<1> SUFFICES ASSUME TypeOK, Steps, Counted, RoundWait, [Next]_vars,
                    helper' = "round", ask' = 0, pc' # "called"
             PROVE  /\ limit' = start' + DefaultRound
                    /\ IF pc' = "firstSession" THEN cur' = start' /\ height' <= start' + lag'
                       ELSE first' <= Session(start' + 2)
                    /\ pc' \in {"subscribe", "listening"} => seen' >= Session(cur')
                    /\ pc' = "returned" => seen' > first'
  BY DEF RoundWait
<1>1. helper = "round"
  BY DEF Next, vars, NewBlock, Fork, Outrun, Call, Read, Subscribe, Deliver, args
<1>2. /\ height \in Nat /\ start \in Nat /\ cur \in Nat /\ lag \in Nat /\ lag <= 2 /\ first \in Nat
      /\ seen \in Nat /\ SessionLength \in Nat \ {0} /\ Periods \subseteq Nat /\ cur <= height
  BY ChainAssumption DEF TypeOK, Counted
<1>3. CASE UNCHANGED vars
  BY <1>1, <1>3 DEF RoundWait, vars, chain, args, reads
<1>4. CASE NewBlock \/ Fork
  <2>1. /\ height' <= height + 1 /\ height' \in Nat /\ Outrun
    BY <1>4, ChainMoves, ChainAssumption
  <2>2. pc # "called" /\ UNCHANGED <<pc, ask, limit, start, first, cur, seen>>
    BY <2>1 DEF Outrun, args, reads
  <2>3. pc = "firstSession" => lag' = lag + 1
    BY <2>1 DEF Outrun, Waiting
  <2>4. pc = "firstSession" => height' <= start + lag'
    BY <1>1, <1>2, <2>1, <2>2, <2>3 DEF RoundWait
  <2> QED
    BY <1>1, <2>2, <2>4 DEF RoundWait
<1>5. CASE Call
  <2>1. start' = height /\ height' = height /\ lag' = 0
    BY <1>5 DEF Call, chain
  <2>2. PICK n \in Periods : WaitNewStakingRound(n)
    BY <1>1, <1>5, CallCases DEF WaitForNBlocks, WaitBlockNumber, WaitIfSessionWillChangeInNblocks,
                                 WaitUntilCollatorProducesBlocks, WaitForBootstrapStatus
  <2>3. n = 0
    BY <2>2 DEF WaitNewStakingRound
  <2>4. limit' = height + DefaultRound /\ cur' = height /\ pc' = "firstSession"
    BY <2>2, <2>3 DEF WaitNewStakingRound
  <2> QED
    BY <1>2, <2>1, <2>4
<1>6. CASE Read
  <2>1. /\ UNCHANGED <<height, ask, limit, start>> /\ pc # "called"
        /\ FirstSession \/ ReadNumber \/ ReadSession
    BY <1>1, <1>6 DEF Read, chain, args, SecondNumber, FirstPhase, ReadPhase, FirstSession, ReadNumber,
                      ReadSession, Steps
  <2>2. limit = start + DefaultRound
    BY <1>1, <2>1 DEF RoundWait
  <2>3. CASE FirstSession
    <3>1. pc = "firstSession" /\ first' = Session(height)
          /\ pc' = IF limit > cur THEN "number" ELSE "returned"
      BY <2>3 DEF FirstSession
    <3>2. cur = start /\ height <= start + 2
      <4>1. cur = start /\ height <= start + lag
        BY <1>1, <2>1, <3>1 DEF RoundWait
      <4> QED
        BY <1>2, <4>1
    <3>3. Session(height) <= Session(start + 2)
      BY <1>2, <3>2, SessionMonotone
    <3>4. limit > cur
      BY <1>2, <2>2, <3>2 DEF DefaultRound
    <3> QED
      BY <2>1, <2>2, <3>1, <3>3, <3>4
  <2>4. CASE ReadNumber
    BY <1>1, <2>1, <2>4 DEF RoundWait, ReadNumber
  <2>5. CASE ReadSession
    <3>1. Session(cur) <= Session(height) /\ Session(height) \in Nat /\ Session(cur) \in Nat
      BY <1>2, SessionMonotone, SessionBounds
    <3> QED
      BY <1>1, <2>1, <2>5, <3>1 DEF RoundWait, ReadSession
  <2> QED
    BY <2>1, <2>3, <2>4, <2>5
<1>7. CASE Subscribe
  BY <1>1, <1>7 DEF RoundWait, Subscribe, chain, args, reads
<1>8. CASE Deliver
  <2>1. /\ UNCHANGED <<height, ask, limit, start, first, cur, seen>> /\ pc = "listening"
        /\ pc' = pc \/ AfterWait
    BY <1>8 DEF Deliver, chain, args, reads
  <2>2. /\ limit = start + DefaultRound /\ first <= Session(start + 2) /\ seen >= Session(cur)
    BY <1>1, <2>1 DEF RoundWait
  <2>3. CASE pc' = pc
    BY <2>1, <2>2, <2>3
  <2>4. CASE AfterWait
    <3>1. Loop(Again(cur, seen, waited + 1))
      BY <1>1, <2>4 DEF AfterWait
    <3>2. pc' = IF limit > cur /\ seen <= first THEN "number" ELSE "returned"
      BY <1>1, <3>1 DEF Loop, Again
    <3>3. CASE limit > cur /\ seen <= first
      BY <2>1, <2>2, <3>2, <3>3
    <3>4. CASE ~ (limit > cur /\ seen <= first)
      <4>1. CASE limit <= cur
        <5>1. PICK g \in Nat : g = start + 2
          BY <1>2
        <5>2. g + SessionLength \in Nat /\ g + SessionLength <= cur
          BY <1>2, <2>2, <4>1, <5>1 DEF DefaultRound
        <5>3. Session(g + SessionLength) = Session(g) + 1
          BY SessionLater
        <5>4. Session(g + SessionLength) <= Session(cur)
          BY <1>2, <5>2, SessionMonotone
        <5>5. Session(g) \in Nat /\ Session(cur) \in Nat
          BY <1>2, SessionBounds
        <5>6. seen > first
          BY <1>2, <2>2, <5>1, <5>3, <5>4, <5>5
        <5> QED
          BY <2>1, <2>2, <3>2, <3>4, <5>6
      <4>2. CASE seen > first
        BY <2>1, <2>2, <3>2, <3>4, <4>2
      <4>3. limit <= cur \/ seen > first
        <5>1. limit \in Nat
          BY DEF TypeOK
        <5> QED
          BY <1>2, <3>4, <5>1
      <4> QED
        BY <4>1, <4>2, <4>3
    <3> QED
      BY <3>3, <3>4
  <2> QED
    BY <2>1, <2>3, <2>4
<1> QED
  BY <1>3, <1>4, <1>5, <1>6, <1>7, <1>8 DEF Next
-----------------------------------------------------------------------------
\* waiting for a collator

\* The collator's blocks are blocks of the chain.
LEMMA MineStep ==
  TypeOK /\ mine \subseteq 0..height /\ [Next]_vars => mine' \subseteq 0..height'
<1> SUFFICES ASSUME TypeOK, mine \subseteq 0..height, [Next]_vars
             PROVE  mine' \subseteq 0..height'
  OBVIOUS
<1>1. CASE NewBlock \/ Fork
  <2>1. height' \in Nat /\ height \in Nat /\ height <= height' /\ mine' \subseteq mine \cup {height'}
    BY <1>1, ChainMoves, ChainAssumption DEF TypeOK
  <2>2. 0..height \subseteq 0..height' /\ height' \in 0..height'
    BY <2>1
  <2> QED
    BY <2>1, <2>2
<1>2. CASE Call \/ Read \/ Subscribe \/ Deliver \/ UNCHANGED vars
  BY <1>2 DEF Call, Read, Subscribe, Deliver, vars, chain
<1> QED
  BY <1>1, <1>2 DEF Next

\* What the waiter knows of the blocks from start to cur.
CollatorSees ==
  /\ pc = "number" => mine \cap start..(height - 1) = {}
  /\ pc = "subscribe" => cur = height
  /\ pc = "listening" => /\ height = cur + count + heads - 1 /\ count + heads <= 2
                         /\ count = 0 => heads = 1
  /\ pc \in {"subscribe", "listening"} /\ seen # 1 => mine \cap start..cur = {}
  /\ pc = "returned" /\ seen # 1 => mine \cap start..limit = {}

\* A block is made only while a prompt waiter listens, and it is not one of
\* those that the waiter has looked at.
LEMMA CollatorOnChain ==
  ASSUME TypeOK, Counted, prompt, CollatorSees, NewBlock \/ Fork
  PROVE  CollatorSees'
<1>1. height' = height + 1 /\ mine' \subseteq mine \cup {height'} /\ Waiting /\ Outrun
  BY ChainMoves
<1>2. /\ pc = "listening" /\ heads = 0 /\ heads' = 1
      /\ UNCHANGED <<pc, helper, ask, limit, start, first, cur, seen, count>>
  BY <1>1 DEF Waiting, Outrun, args, reads
<1>3. height \in Nat /\ cur \in Nat /\ start \in Nat /\ count \in 0..1
  BY ChainAssumption DEF TypeOK
<1>4. count = 1
  BY <1>2, <1>3 DEF Counted
<1>5. height = cur
  BY <1>2, <1>3, <1>4 DEF CollatorSees
<1>6. height' = cur + count + 1 - 1
  BY <1>1, <1>3, <1>4, <1>5
<1>7. ASSUME seen # 1
      PROVE  mine' \cap start..cur = {}
  <2>1. mine \cap start..cur = {}
    BY <1>2, <1>7 DEF CollatorSees
  <2>2. height' \notin start..cur
    BY <1>1, <1>3, <1>5
  <2> QED
    BY <1>1, <2>1, <2>2
<1> QED
  BY <1>2, <1>4, <1>6, <1>7 DEF CollatorSees

LEMMA CollatorOnCall ==
  ASSUME TypeOK, Call, helper = "collator", ask' > 0
  PROVE  CollatorSees'
<1>1. start' = height /\ UNCHANGED <<height, mine>>
  BY DEF Call, chain
<1>2. PICK n \in Periods : WaitUntilCollatorProducesBlocks(n)
  BY CallCases DEF WaitForNBlocks, WaitBlockNumber, WaitIfSessionWillChangeInNblocks,
                   WaitNewStakingRound, WaitForBootstrapStatus
<1>3. pc' = "number"
  BY <1>2 DEF WaitUntilCollatorProducesBlocks, Loop
<1>4. height..(height - 1) = {}
  BY ChainAssumption DEF TypeOK
<1> QED
  BY <1>1, <1>3, <1>4 DEF CollatorSees

\* Having looked at the best block, the waiter has looked at all up to it.
LEMMA CollatorOnRead ==
  ASSUME TypeOK, Steps, CollatorSees, Read, helper = "collator"
  PROVE  CollatorSees'
<1>1. ReadNumber /\ UNCHANGED <<height, mine, start, limit>>
  BY DEF Read, chain, args, Steps, FirstSession, SecondNumber, FirstPhase, ReadSession, ReadPhase
<1>2. /\ pc = "number" /\ pc' = "subscribe" /\ cur' = height
      /\ seen' = IF height \in mine THEN 1 ELSE 0
  BY <1>1 DEF ReadNumber
<1>3. mine \cap start..(height - 1) = {}
  BY <1>2 DEF CollatorSees
<1>4. height \in Nat /\ start \in Nat
  BY ChainAssumption DEF TypeOK
<1>5. start..height \subseteq start..(height - 1) \cup {height}
  BY <1>4
<1>6. seen' # 1 => mine \cap start..height = {}
  BY <1>2, <1>3, <1>5
<1> QED
  BY <1>1, <1>2, <1>6 DEF CollatorSees

LEMMA CollatorOnSubscribe ==
  ASSUME TypeOK, CollatorSees, Subscribe
  PROVE  CollatorSees'
<1>1. /\ pc = "subscribe" /\ pc' = "listening" /\ heads' = 1 /\ count' = 0
      /\ UNCHANGED <<height, mine, limit, start, cur, seen>>
  BY DEF Subscribe, chain, args, reads
<1>2. height \in Nat /\ cur = height
  BY <1>1, ChainAssumption DEF TypeOK, CollatorSees
<1>3. seen # 1 => mine \cap start..cur = {}
  BY <1>1 DEF CollatorSees
<1> QED
  BY <1>1, <1>2, <1>3 DEF CollatorSees

\* The wait ends one block later, and then the waiter reads the next number or
\* has come to the end of its allowance.
LEMMA CollatorOnDeliver ==
  ASSUME TypeOK, CollatorSees, Deliver, helper = "collator"
  PROVE  CollatorSees'
<1>1. /\ pc = "listening" /\ heads > 0
      /\ UNCHANGED <<height, mine, limit, start, cur, seen>>
  BY DEF Deliver, chain, args, reads
<1>2. /\ height \in Nat /\ cur \in Nat /\ start \in Nat /\ limit \in Nat
      /\ heads \in Nat /\ count \in 0..1
  BY ChainAssumption DEF TypeOK
<1>3. /\ height = cur + count + heads - 1 /\ count + heads <= 2
      /\ count = 0 => heads = 1
  BY <1>1 DEF CollatorSees
<1>4. seen # 1 => mine \cap start..cur = {}
  BY <1>1 DEF CollatorSees
<1>5. CASE count + 1 = 2
  <2>1. AfterWait
    BY <1>5 DEF Deliver
  <2>2. pc' = IF limit > cur /\ seen # 1 THEN "number" ELSE "returned"
    BY <2>1 DEF AfterWait, Loop, Again
  <2>3. height - 1 = cur
    BY <1>1, <1>2, <1>3, <1>5
  <2>4. CASE limit > cur /\ seen # 1
    BY <1>1, <1>4, <2>2, <2>3, <2>4 DEF CollatorSees
  <2>5. CASE ~ (limit > cur /\ seen # 1)
    <3>1. ASSUME seen # 1
          PROVE  mine \cap start..limit = {}
      <4>1. start..limit \subseteq start..cur
        BY <1>2, <2>5, <3>1
      <4> QED
        BY <1>4, <3>1, <4>1
    <3> QED
      BY <1>1, <2>2, <2>5, <3>1 DEF CollatorSees
  <2> QED
    BY <2>4, <2>5
<1>6. CASE count + 1 # 2
  <2>1. heads' = heads - 1 /\ count' = count + 1 /\ pc' = pc
    BY <1>6 DEF Deliver
  <2>2. heads' = 0 /\ count' = 1
    BY <1>2, <1>3, <1>6, <2>1
  <2>3. height = cur + 1 + 0 - 1
    BY <1>2, <1>3, <1>6
  <2> QED
    BY <1>1, <1>4, <2>1, <2>2, <2>3 DEF CollatorSees
<1> QED
  BY <1>5, <1>6

LEMMA CollatorWaitStep ==
  TypeOK /\ Steps /\ Counted /\ CollatorWait /\ [Next]_vars => CollatorWait'
<1> SUFFICES ASSUME TypeOK, Steps, Counted, CollatorWait, [Next]_vars
             PROVE  CollatorWait'
  OBVIOUS
<1>1. mine' \subseteq 0..height'
  BY MineStep DEF CollatorWait
<1>2. ASSUME prompt', helper' = "collator", ask' > 0
      PROVE  CollatorSees'
  <2>1. prompt /\ helper = "collator"
    BY <1>2 DEF Next, vars, NewBlock, Fork, Outrun, Call, Read, Subscribe, Deliver, chain, args
  <2>2. CASE Call
    BY <1>2, <2>1, <2>2, CollatorOnCall
  <2>3. CASE ~ Call
    <3>1. ask' = ask
      BY <2>3 DEF Next, vars, NewBlock, Fork, Outrun, Read, Subscribe, Deliver, args
    <3>2. CollatorSees
      BY <1>2, <2>1, <3>1 DEF CollatorWait, CollatorSees
    <3>3. CASE UNCHANGED vars
      BY <3>2, <3>3 DEF CollatorSees, vars, chain, args, reads, subscription
    <3> QED
      BY <2>1, <2>3, <3>2, <3>3, CollatorOnChain, CollatorOnRead, CollatorOnSubscribe,
         CollatorOnDeliver DEF Next
  <2> QED
    BY <2>2, <2>3
<1> QED
  BY <1>1, <1>2 DEF CollatorWait, CollatorSees

-----------------------------------------------------------------------------
\* the invariants

LEMMA WaitsInit == Init => Steps /\ Counted /\ RoundWait /\ CollatorWait /\ SessionWait
<1> SUFFICES ASSUME Init
             PROVE  Steps /\ Counted /\ RoundWait /\ CollatorWait /\ SessionWait
  OBVIOUS
<1>1. height \in Nat
  BY ChainAssumption DEF Init
<1>2. CollatorWait
  BY DEF Init, CollatorWait
<1> QED
  BY <1>1, <1>2 DEF Init, Steps, Counted, RoundWait, SessionWait

\* The part of WInv that holds however slow the waiter is.
AnyLag == TypeOK /\ Steps /\ Counted /\ CollatorWait /\ SessionWait

LEMMA AnyLagInvariant == Spec => []AnyLag
<1>1. Init => AnyLag
  BY TypeInit, WaitsInit DEF AnyLag
<1>2. AnyLag /\ [Next]_vars => AnyLag'
  BY TypeStep, StepsStep, CountedStep, CollatorWaitStep, SessionWaitStep DEF AnyLag
<1> QED
  BY <1>1, <1>2, PTL DEF Spec

\* A waiter that keeps up with the chain looks at the author of every block
\* from the first to the last of its allowance (utils.ts:382-392).
THEOREM EveryBlockLookedAt == Spec => []NoBlockMissed
<1>1. AnyLag => NoBlockMissed
  BY DEF AnyLag, CollatorWait, NoBlockMissed
<1> QED
  BY <1>1, AnyLagInvariant, PTL

\* Behind waitIfSessionWillChangeInNblocks(n) the next n - 1 blocks belong to
\* the session that a prompt caller is in, for an n of at most half a session
\* (utils.ts:295-314).
THEOREM SessionOutlastsCaller == Spec => []SessionHolds
<1>1. ASSUME AnyLag, prompt, pc = "returned", helper = "session", 0 < ask, 2 * ask <= SessionLength
      PROVE  LET h == IF waited = 0 THEN cur ELSE cur + limit
             IN height >= h /\ Session(h + ask - 1) = Session(h)
  <2>1. /\ cur \in Nat /\ height \in Nat /\ ask \in Nat /\ limit \in Nat /\ waited \in Nat
        /\ SessionLength \in Nat \ {0} /\ forks \in Nat /\ start \in Nat
    BY <1>1, ChainAssumption DEF AnyLag, TypeOK
  <2>2. /\ cur = start /\ limit = ask /\ cur <= height /\ forks = 0
        /\ height + forks >= start + waited
        /\ waited > 0 => waited >= limit
    BY <1>1 DEF AnyLag, SessionWait, Counted
  <2>3. CASE waited = 0
    <3>1. (cur % SessionLength) + ask <= SessionLength
      BY <1>1, <2>3 DEF AnyLag, SessionWait
    <3>2. PICK n \in Nat : ask = n + 1
      <4>1. ask - 1 \in Nat /\ ask = (ask - 1) + 1
        BY <1>1, <2>1
      <4> QED
        BY <4>1
    <3>3. PICK p \in Nat : p = cur % SessionLength
      BY <2>1, SessionBounds
    <3>4. (cur % SessionLength) + n < SessionLength
      BY <2>1, <3>1, <3>2, <3>3
    <3>5. Session(cur + n) = Session(cur)
      BY <2>1, <3>4, SessionOf
    <3>6. cur + ask - 1 = cur + n
      BY <2>1, <3>2
    <3> QED
      BY <2>2, <2>3, <3>5, <3>6
  <2>4. CASE waited # 0
    <3>1. waited > 0
      BY <2>1, <2>4
    <3>2. (cur % SessionLength) + ask > SessionLength
      BY <1>1, <3>1 DEF AnyLag, SessionWait
    <3>3. Session(cur + ask + ask - 1) = Session(cur + ask)
      BY <1>1, <2>1, <3>2, SessionPassed
    <3>4. height >= cur + limit
      BY <2>1, <2>2, <3>1
    <3> QED
      BY <2>2, <2>4, <3>3, <3>4
  <2> QED
    BY <2>3, <2>4
<1>2. AnyLag => SessionHolds
  BY <1>1 DEF SessionHolds
<1> QED
  BY <1>2, AnyLagInvariant, PTL

\* Every block that waitForNBlocks counts, on its own or below
\* waitIfSessionWillChangeInNblocks, was made or replaced another after the
\* call, however slow the waiter is (utils.ts:265-270).
THEOREM CountedBlocksAreNew ==
  Spec => [](pc = "returned" /\ helper \in {"blocks", "session"} /\ waited > 0
               => height + forks >= start + limit)
<1>1. ASSUME AnyLag, pc = "returned", helper \in {"blocks", "session"}, waited > 0
      PROVE  height + forks >= start + limit
  <2>1. height + forks >= start + waited /\ waited >= limit
    BY <1>1 DEF AnyLag, Counted
  <2>2. height \in Nat /\ forks \in Nat /\ start \in Nat /\ waited \in Nat /\ limit \in Nat
    BY <1>1, ChainAssumption DEF AnyLag, TypeOK
  <2> QED
    BY <2>1, <2>2
<1>2. AnyLag => (pc = "returned" /\ helper \in {"blocks", "session"} /\ waited > 0
                   => height + forks >= start + limit)
  BY <1>1
<1> QED
  BY <1>2, AnyLagInvariant, PTL

\* No wait gives up early: every block that is counted is made, or replaces
\* another, after the call, and the two blocks that waitNewStakingRound adds to
\* the length of a session make up for a chain that makes at most two between
\* its first two reads (utils.ts:256-268, 341-353).
THEOREM WaitsAreLongEnough ==
  ASSUME MaxLag <= 2
  PROVE  Spec => []NoWaitEndsEarly
<1>1. Init => WInv
  BY TypeInit, WaitsInit DEF WInv
<1>2. WInv /\ [Next]_vars => WInv'
  BY TypeStep, StepsStep, CountedStep, RoundWaitStep, CollatorWaitStep, SessionWaitStep DEF WInv
<1>3. WInv => NoWaitEndsEarly
  <2>1. ASSUME WInv, pc = "returned", helper \in {"blocks", "session"}, waited > 0
        PROVE  height + forks >= start + limit
    <3>1. height + forks >= start + waited /\ waited >= limit
      BY <2>1 DEF WInv, Counted
    <3>2. height \in Nat /\ forks \in Nat /\ start \in Nat /\ waited \in Nat /\ limit \in Nat
      BY <2>1, ChainAssumption DEF WInv, TypeOK
    <3> QED
      BY <3>1, <3>2
  <2>2. ASSUME WInv, pc = "returned", helper = "round", ask = 0
        PROVE  seen > first
    BY <2>2 DEF WInv, RoundWait
  <2> QED
    BY <2>1, <2>2 DEF NoWaitEndsEarly
<1> QED
  BY <1>1, <1>2, <1>3, PTL DEF Spec
=============================================================================
