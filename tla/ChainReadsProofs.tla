-------------------------- MODULE ChainReadsProofs --------------------------
(***************************************************************************)
(* Theorems about the helpers that follow a chain which goes on meanwhile: *)
(* EventWaits, for every limit, every number of overlapping callbacks and  *)
(* a chain of any length on which anything may happen; StoragePages, for   *)
(* any items, any keys that come and go, and any size of a page and of a   *)
(* batch; and CandidateHints, for any number of joiners and founders and   *)
(* any slack.  A hint is at least the number of the members that it stands *)
(* for, plus the slack, and whoever else is a member was not to be read or *)
(* has joined since; so a call is refused only when those exceed the slack.*)
(***************************************************************************)
EXTENDS EventWaits, StoragePages, CandidateHints, FiniteSetTheorems,
        WellFoundedInduction, TLAPS

\* A node that answers in order has answered the first k heads, and at most two
\* callbacks, those of the heads up to m, wait for it.  The counter has counted
\* the answers, or for waitForRewards the heads.
InOrderAt(k, m) ==
  /\ answered = 1..k /\ running = (k + 1)..m
  /\ m <= k + 2
  /\ open => m = heads
  /\ helper = "events" => counter = k
  /\ helper = "collator" => counter = Blocks - k
  /\ helper = "rewards" => counter = Blocks - m

Ordered == inOrder => \E k, m \in 0..heads : k <= m /\ InOrderAt(k, m)

\* As long as waitForEvents and waitUntilUserCollatorRewarded wait, no callback
\* that has returned has seen the event.
NothingSeen ==
  helper \in {"events", "collator"} /\ outcome = "pending" => answered \cap happened = {}

\* They give up only when all the heads of their allowance are there.
FailedLate == inOrder /\ outcome = "failed" => heads >= Blocks

FInv == TypeOK /\ Ordered /\ NothingSeen /\ FailedLate /\ FailureIsReal

-----------------------------------------------------------------------------
\* what the node tells a callback

\* The events are those of the block itself.
LEMMA ToldEvents ==
  ASSUME helper \in {"events", "collator"}, NEW h, NEW yes \in Told(h)
  PROVE  yes \in BOOLEAN /\ (yes <=> h \in happened)
  BY DEF Told

\* State tells what has happened up to the best block, which is not older.
LEMMA ToldState ==
  ASSUME TypeOK, helper \notin {"events", "collator"}, NEW h \in running, NEW yes \in Told(h)
  PROVE  /\ yes \in BOOLEAN
         /\ ~ yes => happened \cap 1..h = {}
<1>1. h \in 1..heads /\ heads \in Nat
  BY DEF TypeOK
<1>2. PICK read \in h..heads : yes = (\E past \in 1..read : past \in happened)
  BY DEF Told
<1>3. 1..h \subseteq 1..read
  BY <1>1, <1>2
<1>4. yes \in BOOLEAN
  BY <1>2
<1>5. ASSUME ~ yes
      PROVE  happened \cap 1..h = {}
  <2>1. \A past \in 1..read : past \notin happened
    BY <1>2, <1>5
  <2> QED
    BY <1>3, <2>1
<1> QED
  BY <1>4, <1>5

\* Which of the four callbacks runs.
LEMMA AnswerCases ==
  ASSUME TypeOK, NEW h \in 1..MaxHeads, Answer(h)
  PROVE  \E yes \in Told(h) :
           \/ helper = "events" /\ OnEvent(yes)
           \/ helper = "collator" /\ OnCollatorReward(yes)
           \/ helper = "session" /\ OnSession(yes)
           \/ helper = "rewards" /\ OnRewards(yes)
<1>1. helper \in {"events", "collator", "session", "rewards"}
  BY WaitAssumption DEF TypeOK
<1>2. PICK yes \in Told(h) : CASE helper = "events" -> OnEvent(yes)
                               [] helper = "collator" -> OnCollatorReward(yes)
                               [] helper = "session" -> OnSession(yes)
                               [] helper = "rewards" -> OnRewards(yes)
  BY DEF Answer
<1> QED
  BY <1>1, <1>2

-----------------------------------------------------------------------------
\* types

LEMMA InitType == Init => TypeOK
  BY WaitAssumption DEF Init, TypeOK

LEMMA HeadType ==
  ASSUME TypeOK, Head
  PROVE  TypeOK'
<1>1. heads \in Nat /\ MaxHeads \in Nat /\ heads < MaxHeads /\ heads' = heads + 1
  BY WaitAssumption DEF TypeOK, Head
<1>2. heads' \in 0..MaxHeads /\ heads + 1 \in 1..heads' /\ 1..heads \subseteq 1..heads'
  BY <1>1
<1>3. happened' \subseteq 1..heads' /\ running' \subseteq 1..heads' /\ answered' \subseteq 1..heads'
  BY <1>2 DEF TypeOK, Head
<1>4. heads + 1 \notin 1..heads
  BY <1>1
<1>5. running' \cap answered' = {}
  BY <1>4 DEF TypeOK, Head
<1>6. counter' \in Int
  BY DEF TypeOK, Head
<1> QED
  BY <1>2, <1>3, <1>5, <1>6 DEF TypeOK, Head

LEMMA AnswerType ==
  ASSUME TypeOK, NEW h \in 1..MaxHeads, Answer(h)
  PROVE  TypeOK'
<1>1. PICK yes \in Told(h) :
        \/ helper = "events" /\ OnEvent(yes)
        \/ helper = "collator" /\ OnCollatorReward(yes)
        \/ helper = "session" /\ OnSession(yes)
        \/ helper = "rewards" /\ OnRewards(yes)
  BY AnswerCases
<1>2. /\ counter' \in Int
      /\ outcome' \in {"pending", "found", "failed"}
      /\ open' \in BOOLEAN
  <2>1. counter' \in Int
    BY <1>1 DEF OnEvent, OnCollatorReward, OnSession, OnRewards, TypeOK
  <2>2. outcome' \in {"pending", "found", "failed"}
    BY <1>1 DEF OnEvent, OnCollatorReward, OnSession, OnRewards, Settle, TypeOK
  <2>3. open' \in BOOLEAN
    BY <1>1, Zenon DEF OnEvent, OnCollatorReward, OnSession, OnRewards
  <2> QED
    BY <2>1, <2>2, <2>3
<1>3. /\ running' = running \ {h} /\ answered' = answered \cup {h} /\ h \in running
      /\ UNCHANGED <<inOrder, heads, happened, helper>>
  BY DEF Answer
<1>4. /\ running' \subseteq 1..heads' /\ answered' \subseteq 1..heads'
      /\ running' \cap answered' = {}
  BY <1>3 DEF TypeOK
<1>5. heads' \in 0..MaxHeads /\ happened' \subseteq 1..heads' /\ inOrder' \in BOOLEAN /\ helper' \in Helpers
  BY <1>3 DEF TypeOK
<1> QED
  BY <1>2, <1>4, <1>5 DEF TypeOK

\* The variables keep their types.
LEMMA StepType ==
  ASSUME TypeOK, [Next]_vars
  PROVE  TypeOK'
<1>1. CASE Head
  BY <1>1, HeadType
<1>2. CASE \E h \in 1..MaxHeads : Answer(h)
  BY <1>2, AnswerType
<1>3. CASE UNCHANGED vars
  BY <1>3 DEF vars, TypeOK
<1> QED
  BY <1>1, <1>2, <1>3 DEF Next

(***************************************************************************)
(* Every variable keeps its type, and no callback runs twice for a head.   *)
(***************************************************************************)
THEOREM TypeCorrect == Spec => []TypeOK
<1>1. Init => TypeOK
  BY InitType
<1>2. TypeOK /\ [Next]_vars => TypeOK'
  BY StepType
<1> QED
  BY <1>1, <1>2, PTL DEF Spec

-----------------------------------------------------------------------------
\* a subscription closes when its promise is settled

LEMMA AnswerSettles ==
  ASSUME TypeOK, OnlyTimeoutsLeak, NEW h \in 1..MaxHeads, Answer(h)
  PROVE  OnlyTimeoutsLeak'
<1>1. PICK yes \in Told(h) :
        \/ helper = "events" /\ OnEvent(yes)
        \/ helper = "collator" /\ OnCollatorReward(yes)
        \/ helper = "session" /\ OnSession(yes)
        \/ helper = "rewards" /\ OnRewards(yes)
  BY AnswerCases
<1>2. helper' = helper /\ open \in BOOLEAN /\ outcome \in {"pending", "found", "failed"}
  BY DEF Answer, TypeOK
<1>3. CASE helper = "events" /\ OnEvent(yes)
  BY <1>2, <1>3 DEF OnEvent, Settle, OnlyTimeoutsLeak
<1>4. CASE helper = "collator" /\ OnCollatorReward(yes)
  BY <1>2, <1>4 DEF OnCollatorReward, Settle, OnlyTimeoutsLeak
<1>5. CASE helper = "session" /\ OnSession(yes)
  BY <1>2, <1>5 DEF OnSession, Settle, OnlyTimeoutsLeak
<1>6. CASE helper = "rewards" /\ OnRewards(yes)
  <2>1. CASE yes
    BY <1>2, <1>6, <2>1 DEF OnRewards, Settle, OnlyTimeoutsLeak
  <2>2. CASE ~ yes /\ counter < 0
    <3>1. ~ (counter >= 0)
      BY <2>2 DEF TypeOK
    <3> QED
      BY <1>2, <1>6, <2>2, <3>1 DEF OnRewards, Settle, OnlyTimeoutsLeak
  <2>3. CASE ~ yes /\ ~ (counter < 0)
    <3>1. counter >= 0
      BY <2>3 DEF TypeOK
    <3> QED
      BY <1>2, <1>6, <2>3, <3>1 DEF OnRewards, Settle, OnlyTimeoutsLeak
  <2> QED
    BY <2>1, <2>2, <2>3
<1> QED
  BY <1>1, <1>3, <1>4, <1>5, <1>6

(***************************************************************************)
(* Whichever callback finds what was waited for, and however the others    *)
(* overlap with it, the subscription is closed then; only the two helpers  *)
(* that reject on a timeout stay subscribed.                               *)
(***************************************************************************)
THEOREM FoundUnsubscribes == Spec => []OnlyTimeoutsLeak
<1>1. Init => OnlyTimeoutsLeak
  BY DEF Init, OnlyTimeoutsLeak
<1>2. TypeOK /\ OnlyTimeoutsLeak /\ [Next]_vars => OnlyTimeoutsLeak'
  <2> SUFFICES ASSUME TypeOK, OnlyTimeoutsLeak, [Next]_vars
               PROVE  OnlyTimeoutsLeak'
    OBVIOUS
  <2>1. CASE Head
    BY <2>1 DEF Head, OnlyTimeoutsLeak
  <2>2. CASE \E h \in 1..MaxHeads : Answer(h)
    BY <2>2, AnswerSettles
  <2>3. CASE UNCHANGED vars
    BY <2>3 DEF vars, OnlyTimeoutsLeak
  <2> QED
    BY <2>1, <2>2, <2>3 DEF Next
<1> QED
  BY <1>1, <1>2, TypeCorrect, PTL DEF Spec

-----------------------------------------------------------------------------
\* giving up means that nothing happened

LEMMA HeadOrdered ==
  ASSUME FInv, Head
  PROVE  Ordered'
<1> SUFFICES ASSUME inOrder
             PROVE  \E k, m \in 0..heads' : k <= m /\ InOrderAt(k, m)'
  BY DEF Ordered, Head
<1>1. heads \in Nat /\ heads' = heads + 1 /\ counter \in Int /\ Blocks \in Nat
  BY WaitAssumption DEF FInv, TypeOK, Head
<1>2. PICK k \in 0..heads : \E m \in 0..heads : k <= m /\ InOrderAt(k, m)
  BY DEF FInv, Ordered
<1>3. PICK m \in 0..heads : k <= m /\ InOrderAt(k, m)
  BY <1>2
<1>4. CASE open
  <2>1. m = heads
    BY <1>3, <1>4 DEF InOrderAt
  <2>2. Cardinality(running) = m - k
    <3>1. running = (k + 1)..m
      BY <1>3 DEF InOrderAt
    <3>2. k + 1 \in Int /\ m \in Int
      OBVIOUS
    <3>3. Cardinality((k + 1)..m) = IF k + 1 > m THEN 0 ELSE m - (k + 1) + 1
      BY <3>2, FS_Interval
    <3> QED
      BY <1>1, <1>3, <3>1, <3>3
  <2>3. m - k < 2
    BY <1>4, <2>2 DEF Head
  <2>4. running' = (k + 1)..(m + 1)
    <3>1. running' = running \cup {m + 1}
      BY <1>4, <2>1 DEF Head
    <3>2. running = (k + 1)..m
      BY <1>3 DEF InOrderAt
    <3>3. (k + 1)..(m + 1) = ((k + 1)..m) \cup {m + 1}
      BY <1>3
    <3> QED
      BY <3>1, <3>2, <3>3
  <2>5. /\ UNCHANGED <<answered, open, helper>>
        /\ counter' = IF helper = "rewards" THEN counter - 1 ELSE counter
    BY <1>4 DEF Head
  <2>6. k \in 0..heads' /\ m + 1 \in 0..heads' /\ k <= m + 1 /\ m + 1 <= k + 2
    BY <1>1, <1>3, <2>1, <2>3
  <2>7. InOrderAt(k, m + 1)'
    BY <1>1, <1>3, <2>1, <2>4, <2>5, <2>6 DEF InOrderAt
  <2> QED
    BY <2>6, <2>7
<1>5. CASE ~ open
  <2>1. UNCHANGED <<answered, running, open, helper, counter>>
    BY <1>5 DEF Head, FInv, TypeOK
  <2>2. InOrderAt(k, m)'
    BY <1>3, <1>5, <2>1 DEF InOrderAt
  <2>3. k \in 0..heads' /\ m \in 0..heads'
    BY <1>1
  <2> QED
    BY <1>3, <2>2, <2>3
<1> QED
  BY <1>4, <1>5 DEF FInv, TypeOK

LEMMA HeadInv ==
  ASSUME FInv, Head
  PROVE  FInv'
<1>1. TypeOK' /\ Ordered'
  BY HeadType, HeadOrdered DEF FInv
<1>2. heads \in Nat /\ heads' = heads + 1 /\ Blocks \in Nat
  BY WaitAssumption DEF FInv, TypeOK, Head
<1>3. /\ UNCHANGED <<inOrder, helper, answered, outcome>>
      /\ happened' \subseteq happened \cup {heads + 1}
  BY DEF Head
<1>4. heads + 1 \notin answered
  BY <1>2 DEF FInv, TypeOK
<1>5. NothingSeen'
  BY <1>3, <1>4 DEF FInv, NothingSeen
<1>6. FailedLate'
  BY <1>2, <1>3 DEF FInv, FailedLate
<1>7. FailureIsReal'
  <2> SUFFICES ASSUME inOrder, outcome = "failed"
               PROVE  happened' \cap 1..Blocks = {}
    BY <1>3 DEF FailureIsReal
  <2>1. heads + 1 \notin 1..Blocks
    BY <1>2 DEF FInv, FailedLate
  <2> QED
    BY <1>3, <2>1 DEF FInv, FailureIsReal
<1> QED
  BY <1>1, <1>5, <1>6, <1>7 DEF FInv

LEMMA AnswerOrdered ==
  ASSUME FInv, NEW h \in 1..MaxHeads, Answer(h), inOrder
  PROVE  \E k, m \in 0..heads :
           /\ k < m /\ h = k + 1 /\ InOrderAt(k, m) /\ InOrderAt(k + 1, m)'
<1>1. heads \in Nat /\ counter \in Int /\ Blocks \in Nat
  BY WaitAssumption DEF FInv, TypeOK
<1>2. PICK k \in 0..heads : \E m \in 0..heads : k <= m /\ InOrderAt(k, m)
  BY DEF FInv, Ordered
<1>3. PICK m \in 0..heads : k <= m /\ InOrderAt(k, m)
  BY <1>2
<1>4. /\ h \in running /\ \A other \in running : h <= other
      /\ running' = running \ {h} /\ answered' = answered \cup {h}
      /\ UNCHANGED <<heads, helper>>
  BY DEF Answer
<1>5. running = (k + 1)..m /\ answered = 1..k
  BY <1>3 DEF InOrderAt
<1>6. h = k + 1 /\ k < m
  BY <1>4, <1>5
<1>7. answered' = 1..(k + 1)
  <2>1. 1..(k + 1) = (1..k) \cup {k + 1}
    OBVIOUS
  <2> QED
    BY <1>4, <1>5, <1>6, <2>1
<1>8. running' = (k + 1 + 1)..m
  <2>1. (k + 1 + 1)..m = ((k + 1)..m) \ {k + 1}
    OBVIOUS
  <2> QED
    BY <1>4, <1>5, <1>6, <2>1
<1>9. PICK yes \in Told(h) :
        \/ helper = "events" /\ OnEvent(yes)
        \/ helper = "collator" /\ OnCollatorReward(yes)
        \/ helper = "session" /\ OnSession(yes)
        \/ helper = "rewards" /\ OnRewards(yes)
  BY AnswerCases DEF FInv
<1>10. open' => open
  BY <1>9 DEF OnEvent, OnCollatorReward, OnSession, OnRewards
<1>11. counter' = CASE helper = "events" -> counter + 1
                    [] helper = "collator" -> counter - 1
                    [] OTHER -> counter
  BY <1>9 DEF OnEvent, OnCollatorReward, OnSession, OnRewards
<1>12. InOrderAt(k + 1, m)'
  BY <1>1, <1>3, <1>4, <1>6, <1>7, <1>8, <1>10, <1>11 DEF InOrderAt
<1> QED
  BY <1>3, <1>6, <1>12

\* When a callback rejects the promise, nothing has happened in the heads of
\* the allowance, and all of them are there.
LEMMA GivingUp ==
  ASSUME FInv, NEW h \in 1..MaxHeads, Answer(h), inOrder,
         outcome = "pending", outcome' = "failed"
  PROVE  heads >= Blocks /\ happened \cap 1..Blocks = {}
<1>1. heads \in Nat /\ counter \in Int /\ Blocks \in Nat /\ happened \subseteq 1..heads
  BY WaitAssumption DEF FInv, TypeOK
<1>2. PICK k \in 0..heads, m \in 0..heads :
        k < m /\ h = k + 1 /\ InOrderAt(k, m) /\ InOrderAt(k + 1, m)'
  BY AnswerOrdered
<1>3. answered = 1..k /\ h \in running /\ m <= k + 2
  BY <1>2 DEF InOrderAt, Answer
<1>4. PICK yes \in Told(h) :
        \/ helper = "events" /\ OnEvent(yes)
        \/ helper = "collator" /\ OnCollatorReward(yes)
        \/ helper = "session" /\ OnSession(yes)
        \/ helper = "rewards" /\ OnRewards(yes)
  BY AnswerCases DEF FInv
<1>5. ASSUME helper \in {"events", "collator"}, h \notin happened, k + 1 >= Blocks
      PROVE  heads >= Blocks /\ happened \cap 1..Blocks = {}
  <2>1. happened \cap 1..k = {}
    BY <1>3, <1>5 DEF FInv, NothingSeen
  <2>2. \A b \in 1..Blocks : b \in 1..k \/ b = h
    BY <1>1, <1>2, <1>5
  <2>3. heads >= Blocks
    BY <1>1, <1>2, <1>5
  <2> QED
    BY <1>5, <2>1, <2>2, <2>3
<1>6. CASE helper = "events" /\ OnEvent(yes)
  <2>1. ~ yes /\ counter' = Blocks
    BY <1>6 DEF OnEvent, Settle
  <2>2. h \notin happened
    BY <1>6, <2>1, ToldEvents
  <2>3. k + 1 = Blocks
    BY <1>2, <1>6, <2>1 DEF InOrderAt, Answer
  <2> QED
    BY <1>1, <1>5, <1>6, <2>2, <2>3
<1>7. CASE helper = "collator" /\ OnCollatorReward(yes)
  <2>1. ~ yes /\ counter' < 0
    BY <1>7 DEF OnCollatorReward, Settle
  <2>2. h \notin happened
    BY <1>7, <2>1, ToldEvents
  <2>3. counter = Blocks - k /\ counter' = counter - 1
    BY <1>2, <1>7 DEF InOrderAt, OnCollatorReward
  <2>4. k + 1 >= Blocks
    BY <1>1, <2>1, <2>3
  <2> QED
    BY <1>5, <1>7, <2>2, <2>4
<1>8. CASE helper = "session" /\ OnSession(yes)
  BY <1>8 DEF OnSession, Settle
<1>9. CASE helper = "rewards" /\ OnRewards(yes)
  <2>1. ~ yes /\ counter < 0
    BY <1>9 DEF OnRewards, Settle
  <2>2. counter = Blocks - m
    BY <1>2, <1>9 DEF InOrderAt
  <2>3. h >= Blocks /\ heads >= Blocks
    BY <1>1, <1>2, <1>3, <2>1, <2>2
  <2>4. happened \cap 1..h = {}
    BY <1>3, <1>9, <2>1, ToldState DEF FInv
  <2>5. 1..Blocks \subseteq 1..h
    BY <1>1, <1>2, <2>3
  <2> QED
    BY <2>3, <2>4, <2>5
<1> QED
  BY <1>4, <1>6, <1>7, <1>8, <1>9

LEMMA AnswerInv ==
  ASSUME FInv, NEW h \in 1..MaxHeads, Answer(h)
  PROVE  FInv'
<1>1. TypeOK'
  BY AnswerType DEF FInv
<1>2. UNCHANGED <<inOrder, heads, happened, helper>> /\ answered' = answered \cup {h}
  BY DEF Answer
<1>3. PICK yes \in Told(h) :
        \/ helper = "events" /\ OnEvent(yes)
        \/ helper = "collator" /\ OnCollatorReward(yes)
        \/ helper = "session" /\ OnSession(yes)
        \/ helper = "rewards" /\ OnRewards(yes)
  BY AnswerCases DEF FInv
<1>4. Ordered'
  <2> SUFFICES ASSUME inOrder
               PROVE  \E k, m \in 0..heads : k <= m /\ InOrderAt(k, m)'
    BY <1>2 DEF Ordered
  <2>1. PICK k \in 0..heads, m \in 0..heads : k < m /\ InOrderAt(k + 1, m)'
    BY AnswerOrdered
  <2>2. k + 1 \in 0..heads /\ k + 1 <= m
    <3>1. heads \in Nat
      BY DEF FInv, TypeOK
    <3> QED
      BY <2>1, <3>1
  <2> QED
    BY <2>1, <2>2
<1>5. outcome' = outcome \/ outcome = "pending"
  BY <1>3 DEF OnEvent, OnCollatorReward, OnSession, OnRewards, Settle
<1>6. NothingSeen'
  <2> SUFFICES ASSUME helper \in {"events", "collator"}, outcome' = "pending"
               PROVE  answered' \cap happened = {}
    BY <1>2 DEF NothingSeen
  <2>1. ~ yes /\ outcome = "pending"
    BY <1>3, <1>5 DEF OnEvent, OnCollatorReward, Settle
  <2>2. h \notin happened
    BY <2>1, ToldEvents
  <2> QED
    BY <1>2, <2>1, <2>2 DEF FInv, NothingSeen
<1>7. FailedLate' /\ FailureIsReal'
  <2> SUFFICES ASSUME inOrder, outcome' = "failed"
               PROVE  heads >= Blocks /\ happened \cap 1..Blocks = {}
    BY <1>2 DEF FailedLate, FailureIsReal
  <2>1. CASE outcome = "failed"
    BY <2>1 DEF FInv, FailedLate, FailureIsReal
  <2>2. CASE outcome = "pending"
    BY <2>2, GivingUp
  <2> QED
    BY <1>5, <2>1, <2>2
<1> QED
  BY <1>1, <1>4, <1>6, <1>7 DEF FInv

LEMMA InitFInv == Init => FInv
<1> SUFFICES ASSUME Init
             PROVE  FInv
  OBVIOUS
<1>1. TypeOK
  BY InitType
<1>2. InOrderAt(0, 0)
  <2>1. 1..0 = {} /\ (0 + 1)..0 = {}
    OBVIOUS
  <2>2. answered = 1..0 /\ running = (0 + 1)..0 /\ heads = 0
    BY <2>1 DEF Init
  <2>3. /\ helper = "events" => counter = 0
        /\ helper = "collator" => counter = Blocks - 0
        /\ helper = "rewards" => counter = Blocks - 0
    BY WaitAssumption DEF Init
  <2> QED
    BY <2>2, <2>3 DEF InOrderAt
<1>3. 0 \in 0..heads /\ 0 <= 0
  BY DEF Init
<1>4. Ordered
  BY <1>2, <1>3 DEF Ordered
<1> QED
  BY <1>1, <1>4 DEF Init, FInv, NothingSeen, FailedLate, FailureIsReal

(***************************************************************************)
(* A helper that gives up has seen all the heads of its allowance, and     *)
(* what it waited for happened in none of them, if the node answers in     *)
(* order and at most two callbacks overlap.                                *)
(***************************************************************************)
THEOREM FailuresAreReal == Spec => []FailureIsReal
<1>1. FInv /\ [Next]_vars => FInv'
  <2> SUFFICES ASSUME FInv, [Next]_vars
               PROVE  FInv'
    OBVIOUS
  <2>1. CASE Head
    BY <2>1, HeadInv
  <2>2. CASE \E h \in 1..MaxHeads : Answer(h)
    BY <2>2, AnswerInv
  <2>3. CASE UNCHANGED vars
    BY <2>3 DEF vars, FInv, TypeOK, Ordered, InOrderAt, NothingSeen, FailedLate, FailureIsReal
  <2> QED
    BY <2>1, <2>2, <2>3 DEF Next
<1>2. FInv => FailureIsReal
  BY DEF FInv
<1> QED
  BY <1>1, <1>2, InitFInv, PTL DEF Spec
-----------------------------------------------------------------------------
\* pages

\* Sets of keys are finite.
LEMMA KeysFinite ==
  ASSUME NEW S \in SUBSET Keys
  PROVE  IsFiniteSet(S) /\ Cardinality(S) \in Nat
<1>1. IsFiniteSet(Keys)
  BY PagesAssumption, FS_Interval DEF Keys
<1> QED
  BY <1>1, FS_Subset, FS_CardinalityType

\* A set of keys that is not empty has a last one: the key with the smallest
\* set of keys beyond it, and the smallest is empty.
LEMMA LastOf ==
  ASSUME NEW S \in SUBSET Keys, S # {}
  PROVE  \E k \in S : \A l \in S : l <= k
<1> DEFINE Beyond(k) == {l \in S : k < l}
           All == {Beyond(k) : k \in S}
           R == StrictSubsetOrdering(S)
<1>1. S \subseteq Int
  BY PagesAssumption DEF Keys
<1>2. IsFiniteSet(S)
  BY KeysFinite
<1>3. IsWellFoundedOn(R, FiniteSubsetsOf(S))
  BY FS_StrictSubsetOrderingWellFounded
<1>4. All \subseteq FiniteSubsetsOf(S)
  <2>1. \A k \in S : Beyond(k) \in SUBSET S
    OBVIOUS
  <2>2. \A T \in SUBSET S : IsFiniteSet(T)
    BY <1>2, FS_Subset
  <2> QED
    BY <2>1, <2>2 DEF FiniteSubsetsOf
<1>5. All # {}
  OBVIOUS
<1> HIDE DEF All, R
<1>6. PICK T \in All : \A U \in All : ~ (<<U, T>> \in R)
  BY <1>3, <1>4, <1>5, WFMin
<1>7. PICK k \in S : T = Beyond(k)
  BY <1>6 DEF All
<1>8. ASSUME NEW l \in S, k < l
      PROVE  FALSE
  <2>1. Beyond(l) \in All
    BY DEF All
  <2>2. ASSUME NEW n \in Beyond(l)
        PROVE  n \in T
    <3>1. n \in Int /\ l \in Int /\ k \in Int /\ l < n
      BY <1>1, <1>8
    <3>2. k < n
      BY <1>8, <3>1
    <3> QED
      BY <1>7, <3>2
  <2>3. l \in T /\ l \notin Beyond(l)
    BY <1>1, <1>7, <1>8
  <2>4. Beyond(l) \subseteq S /\ T \subseteq S /\ Beyond(l) # T
    BY <1>7, <2>3
  <2>5. <<Beyond(l), T>> \in R
    BY <2>2, <2>4 DEF R, StrictSubsetOrdering
  <2> QED
    BY <1>6, <2>1, <2>5
<1>9. \A l \in S : l <= k
  BY <1>1, <1>8
<1> QED
  BY <1>9

\* Seen from the other end it has a first one.
LEMMA FirstOf ==
  ASSUME NEW S \in SUBSET Keys, S # {}
  PROVE  \E k \in S : \A l \in S : k <= l
<1> DEFINE M == {MaxKey + 1 - k : k \in S}
<1>1. MaxKey \in Nat /\ S \subseteq 1 .. MaxKey
  BY PagesAssumption DEF Keys
<1>2. M \in SUBSET Keys /\ M # {}
  <2>1. \A k \in 1 .. MaxKey : MaxKey + 1 - k \in 1 .. MaxKey
    BY <1>1
  <2>2. M \subseteq 1 .. MaxKey /\ M # {}
    BY <1>1, <2>1
  <2> QED
    BY <2>2 DEF Keys
<1>3. PICK m \in M : \A n \in M : n <= m
  BY <1>2, LastOf
<1>4. PICK k \in S : m = MaxKey + 1 - k
  BY <1>3
<1>5. \A l \in S : k <= l
  <2> TAKE l \in S
  <2>1. MaxKey + 1 - l <= MaxKey + 1 - k
    BY <1>3, <1>4
  <2> QED
    BY <1>1, <2>1
<1> QED
  BY <1>5

\* What getKeysPaged answers to migrate and to the other walk.
LEMMA PageOf ==
  ASSUME WalksTypeOK, NEW start \in Nat
  PROVE  /\ KeysPaged(start) \in SUBSET Keys
         /\ Cardinality(KeysPaged(start)) <= PageSize
         /\ \A k \in KeysPaged(start) : start < k
         /\ \A k \in storage[item] :
              k <= start \/ k \in KeysPaged(start) \/ Past(k, KeysPaged(start))
<1> DEFINE after == {k \in storage[item] : k > start}
           Before(k) == {l \in after : l < k}
<1>1. PageSize \in Nat /\ PageSize >= 1 /\ Keys \subseteq Int
  BY PagesAssumption DEF Keys
<1>2. after \in SUBSET Keys
  BY DEF WalksTypeOK
<1>3. \A k : Before(k) \in SUBSET Keys
  BY <1>2
<1>4. KeysPaged(start) = {k \in after : Cardinality(Before(k)) < PageSize}
  BY DEF KeysPaged
<1> HIDE DEF after
<1>5. KeysPaged(start) \in SUBSET Keys
  BY <1>2, <1>4
<1>6. Cardinality(KeysPaged(start)) <= PageSize
  <2>1. CASE KeysPaged(start) = {}
    BY <1>1, <2>1, FS_EmptySet
  <2>2. CASE KeysPaged(start) # {}
    <3>1. PICK m \in KeysPaged(start) : \A l \in KeysPaged(start) : l <= m
      BY <1>5, <2>2, LastOf
    <3>2. KeysPaged(start) \ {m} \in SUBSET Before(m)
      <4>1. ASSUME NEW l \in KeysPaged(start), l # m
            PROVE  l \in Before(m)
        <5>1. l \in Int /\ m \in Int /\ l <= m /\ l \in after
          BY <1>1, <1>4, <1>5, <3>1
        <5> QED
          BY <4>1, <5>1
      <4> QED
        BY <4>1
    <3>3. Cardinality(Before(m)) < PageSize
      BY <1>4
    <3>4. IsFiniteSet(Before(m)) /\ Cardinality(Before(m)) \in Nat
      BY <1>3, KeysFinite
    <3>5. Cardinality(KeysPaged(start) \ {m}) <= Cardinality(Before(m))
      BY <3>2, <3>4, FS_Subset
    <3>6. IsFiniteSet(KeysPaged(start)) /\ Cardinality(KeysPaged(start)) \in Nat
      BY <1>5, KeysFinite
    <3>7. Cardinality(KeysPaged(start) \ {m}) = Cardinality(KeysPaged(start)) - 1
      BY <3>1, <3>6, FS_RemoveElement
    <3> QED
      BY <1>1, <3>3, <3>4, <3>5, <3>6, <3>7
  <2> QED
    BY <2>1, <2>2
<1>7. \A k \in KeysPaged(start) : start < k
  BY <1>1, <1>4, <1>5 DEF after
<1>8. ASSUME NEW k \in after, k \notin KeysPaged(start)
      PROVE  Past(k, KeysPaged(start))
  <2>1. ~ (Cardinality(Before(k)) < PageSize)
    BY <1>4, <1>8
  <2>2. Cardinality(Before(k)) \in Nat /\ IsFiniteSet(Before(k))
    BY <1>3, KeysFinite
  <2>3. ASSUME NEW l \in KeysPaged(start)
        PROVE  l < k
    <3>1. l \in after /\ Cardinality(Before(l)) < PageSize /\ l # k
      BY <1>4, <1>8
    <3>2. l \in Int /\ k \in Int
      BY <1>1, <1>2, <3>1
    <3>3. SUFFICES ASSUME k < l
                   PROVE  FALSE
      BY <3>1, <3>2
    <3>4. Before(k) \in SUBSET Before(l)
      <4>1. ASSUME NEW n \in Before(k)
            PROVE  n \in Before(l)
        <5>1. n \in Int /\ n < k /\ n \in after
          BY <1>1, <1>2
        <5>2. n < l
          BY <3>2, <3>3, <5>1
        <5> QED
          BY <5>1, <5>2
      <4> QED
        BY <4>1
    <3>5. IsFiniteSet(Before(l)) /\ Cardinality(Before(l)) \in Nat
      BY <1>3, KeysFinite
    <3>6. Cardinality(Before(k)) <= Cardinality(Before(l))
      BY <3>4, <3>5, FS_Subset
    <3> QED
      BY <1>1, <2>1, <2>2, <3>1, <3>5, <3>6
  <2>4. KeysPaged(start) # {}
    <3>1. PICK m \in after : \A l \in after : m <= l
      BY <1>2, <1>8, FirstOf
    <3>2. Before(m) = {}
      <4>1. ASSUME NEW n \in after
            PROVE  ~ (n < m)
        <5>1. n \in Int /\ m \in Int /\ m <= n
          BY <1>1, <1>2, <3>1
        <5> QED
          BY <5>1
      <4> QED
        BY <4>1
    <3>3. Cardinality(Before(m)) = 0
      BY <3>2, FS_EmptySet
    <3> QED
      BY <1>1, <1>4, <3>1, <3>3
  <2> QED
    BY <2>3, <2>4 DEF Past
<1>9. ASSUME NEW k \in storage[item], ~ (k <= start)
      PROVE  k \in after
  <2>1. k \in Int
    BY <1>1 DEF WalksTypeOK
  <2> QED
    BY <1>9, <2>1 DEF after
<1> QED
  BY <1>5, <1>6, <1>7, <1>8, <1>9

\* keys[keys.length - 1]
LEMMA LastKeyOf ==
  ASSUME WalksTypeOK
  PROVE  /\ LastKey \in Nat
         /\ keys = {} => LastKey = 0
         /\ keys # {} => LastKey \in keys /\ \A l \in keys : l <= LastKey
<1>1. keys \in SUBSET Keys /\ Keys \subseteq Nat
  BY PagesAssumption DEF WalksTypeOK, Keys
<1>2. CASE keys = {}
  BY <1>2 DEF LastKey, Undefined
<1>3. CASE keys # {}
  <2>1. \E k \in keys : \A l \in keys : l <= k
    BY <1>1, <1>3, LastOf
  <2>2. LastKey = CHOOSE k \in keys : \A l \in keys : l <= k
    BY <1>3 DEF LastKey
  <2>3. LastKey \in keys /\ \A l \in keys : l <= LastKey
    BY <2>1, <2>2
  <2> QED
    BY <1>1, <1>3, <2>3
<1> QED
  BY <1>2, <1>3

\* keys[99]
LEMMA HundredthKeyOf ==
  ASSUME WalksTypeOK
  PROVE  HundredthKey \in Nat
  BY LastKeyOf DEF HundredthKey, Undefined
-----------------------------------------------------------------------------
\* entries

\* Entries of different keys add up without a key in two.
LEMMA PlusApart ==
  ASSUME NEW e \in [Keys -> 0 .. 1], NEW f \in [Keys -> 0 .. 1],
         \A k \in Keys : ~ (e[k] = 1 /\ f[k] = 1)
  PROVE  /\ Plus(e, f) \in [Keys -> 0 .. 1]
         /\ \A k \in Keys : Plus(e, f)[k] = 1 <=> e[k] = 1 \/ f[k] = 1
<1>1. \A k \in Keys : Plus(e, f)[k] = IF e[k] + f[k] > Many THEN Many ELSE e[k] + f[k]
  BY DEF Plus
<1>2. ASSUME NEW k \in Keys
      PROVE  Plus(e, f)[k] \in 0 .. 1 /\ (Plus(e, f)[k] = 1 <=> e[k] = 1 \/ f[k] = 1)
  <2>1. e[k] \in 0 .. 1 /\ f[k] \in 0 .. 1 /\ ~ (e[k] = 1 /\ f[k] = 1)
    OBVIOUS
  <2>2. Plus(e, f)[k] = e[k] + f[k]
    BY <1>1, <2>1 DEF Many
  <2> QED
    BY <2>1, <2>2
<1>3. Plus(e, f) = [k \in Keys |-> Plus(e, f)[k]]
  BY DEF Plus
<1> QED
  BY <1>2, <1>3

\* Nothing is in no entries.
LEMMA NoEntriesOf ==
  NoEntries \in [Keys -> 0 .. 1] /\ \A k \in Keys : NoEntries[k] # 1
  BY DEF NoEntries

\* A batch writes what was read and not yet written.
LEMMA Sending ==
  ASSUME SInv, pc # "done", sent' = [sent EXCEPT ![item] = Plus(@, allKeys)]
  PROVE  /\ sent' \in [1 .. Items -> [Keys -> 0 .. 1]]
         /\ \A k \in Keys : sent'[item][k] = 1 <=> Read(k)
         /\ \A i \in 1 .. Items : i # item => sent'[i] = sent[i]
<1>1. /\ item \in 1 .. Items /\ sent \in [1 .. Items -> [Keys -> 0 .. 1]]
      /\ allKeys \in [Keys -> 0 .. 1]
      /\ \A k \in Keys : ~ (sent[item][k] = 1 /\ allKeys[k] = 1)
  BY DEF SInv, WalksTypeOK, Fresh
<1>2. sent[item] \in [Keys -> 0 .. 1]
  BY <1>1
<1>3. PICK both : both = Plus(sent[item], allKeys)
  OBVIOUS
<1>4. both \in [Keys -> 0 .. 1] /\ \A k \in Keys : both[k] = 1 <=> sent[item][k] = 1 \/ allKeys[k] = 1
  BY <1>1, <1>2, <1>3, PlusApart
<1>5. sent' = [sent EXCEPT ![item] = both]
  BY <1>3
<1> QED
  BY <1>1, <1>4, <1>5 DEF Read

-----------------------------------------------------------------------------
\* the steps of the walk, and what they all leave alone

Frame == UNCHANGED <<walk, storage, steady, changes>>

LEMMA OnFirstPage ==
  ASSUME SInv, FirstPage, Frame
  PROVE  SInv'
<1>1. /\ pc = "page" /\ pc' = "values" /\ keys' = KeysPaged(Undefined) /\ loop' = 0
      /\ UNCHANGED <<item, nextkeys, allKeys, sent, walk, storage, steady>>
  BY DEF FirstPage, Frame
<1>2. WalksTypeOK /\ allKeys = NoEntries /\ sent[item] = NoEntries
  BY <1>1 DEF SInv, Fresh
<1>3. Undefined \in Nat /\ Undefined = 0
  BY DEF Undefined
<1>4. /\ keys' \in SUBSET Keys /\ Cardinality(keys') <= PageSize
      /\ \A k \in storage[item] : k <= 0 \/ k \in keys' \/ Past(k, keys')
  BY <1>1, <1>2, <1>3, PageOf
<1>5. 0 \in 0 .. FlushEvery - 1 /\ \A k \in Keys : ~ (k <= 0)
  BY PagesAssumption DEF Keys
<1>6. \A k \in Keys : ~ Read(k)
  BY <1>2, NoEntriesOf DEF Read
<1>7. WalksTypeOK'
  BY <1>1, <1>2, <1>4, <1>5 DEF WalksTypeOK
<1>8. \A k \in steady[item] : k \in keys' \/ Past(k, keys')
  <2>1. steady[item] \subseteq storage[item] /\ storage[item] \subseteq Keys
    BY DEF SInv, Pages, WalksTypeOK
  <2> QED
    BY <1>4, <1>5, <2>1
<1>9. Position'
  BY <1>1, <1>6, <1>8 DEF Position, Past, Read
<1>10. Pages' /\ Reader' /\ Fresh' /\ Left'
  BY <1>1, <1>2 DEF SInv, Pages, Reader, Fresh, Left
<1> QED
  BY <1>7, <1>9, <1>10 DEF SInv

LEMMA OnReadValues ==
  ASSUME SInv, ReadValues, Frame
  PROVE  SInv'
<1>1. /\ pc = "values" /\ pc' = "next"
      /\ allKeys' = Plus(allKeys, [k \in Keys |-> IF k \in keys THEN 1 ELSE 0])
      /\ UNCHANGED <<item, keys, nextkeys, loop, sent, walk, storage, steady>>
  BY DEF ReadValues, Frame
<1>2. /\ WalksTypeOK /\ keys \in SUBSET Keys /\ allKeys \in [Keys -> 0 .. 1] /\ item \in 1 .. Items
      /\ walk \in {"migrate", "read"}
  BY DEF SInv, WalksTypeOK
<1>3. \A k \in keys : ~ Read(k)
  <2>1. CASE walk = "migrate"
    <3>1. \A k \in Keys : Read(k) => \A l \in keys : k < l
      BY <1>1, <2>1 DEF SInv, Position
    <3>2. \A k \in Keys : ~ (k < k)
      BY DEF Keys
    <3> QED
      BY <1>2, <3>1, <3>2
  <2>2. CASE walk = "read"
    <3>1. allKeys = NoEntries /\ sent[item] = NoEntries
      BY <1>1, <1>2, <2>2 DEF SInv, Reader
    <3> QED
      BY <1>2, <3>1, NoEntriesOf DEF Read
  <2> QED
    BY <1>2, <2>1, <2>2
<1>4. PICK page \in [Keys -> 0 .. 1] : page = [k \in Keys |-> IF k \in keys THEN 1 ELSE 0]
  <2>1. \A k \in Keys : (IF k \in keys THEN 1 ELSE 0) \in 0 .. 1
    OBVIOUS
  <2>2. [k \in Keys |-> IF k \in keys THEN 1 ELSE 0] \in [Keys -> 0 .. 1]
    BY <2>1
  <2> QED
    BY <2>2
<1>5. \A k \in Keys : page[k] = 1 <=> k \in keys
  BY <1>4
<1>6. \A k \in Keys : ~ (allKeys[k] = 1 /\ page[k] = 1)
  BY <1>3, <1>5 DEF Read
<1>7. /\ allKeys' \in [Keys -> 0 .. 1]
      /\ \A k \in Keys : allKeys'[k] = 1 <=> allKeys[k] = 1 \/ k \in keys
  <2>1. allKeys' = Plus(allKeys, page)
    BY <1>1, <1>4
  <2>2. /\ Plus(allKeys, page) \in [Keys -> 0 .. 1]
        /\ \A k \in Keys : Plus(allKeys, page)[k] = 1 <=> allKeys[k] = 1 \/ page[k] = 1
    BY <1>2, <1>6, PlusApart
  <2> QED
    BY <1>5, <2>1, <2>2
<1>8. \A k \in Keys : Read(k)' <=> Read(k) \/ k \in keys
  BY <1>1, <1>7 DEF Read
<1>9. WalksTypeOK'
  BY <1>1, <1>2, <1>7 DEF WalksTypeOK
<1>10. Fresh'
  <2>1. ASSUME NEW k \in Keys, allKeys'[k] = 1, sent[item][k] = 1
        PROVE  FALSE
    BY <1>1, <1>3, <1>7, <2>1 DEF SInv, Fresh, Read
  <2> QED
    BY <1>1, <2>1 DEF SInv, Fresh
<1>11. ASSUME walk = "migrate"
       PROVE  /\ \A k \in keys : Read(k)'
              /\ \A k \in Keys : Read(k)' => \E l \in keys : k <= l
              /\ \A k \in steady[item] : Read(k)' \/ Past(k, keys)
  <2>1. /\ \A k \in Keys : Read(k) => keys # {} /\ \A l \in keys : k < l
        /\ \A k \in steady[item] : Read(k) \/ k \in keys \/ Past(k, keys)
    BY <1>1, <1>11 DEF SInv, Position
  <2>2. \A k, l \in Keys : k <= k /\ (k < l => k <= l)
    BY DEF Keys
  <2>3. ASSUME NEW k \in Keys, Read(k)'
        PROVE  \E l \in keys : k <= l
    BY <1>2, <1>8, <2>1, <2>2, <2>3
  <2>4. steady[item] \subseteq Keys
    BY <1>2 DEF SInv, Pages, WalksTypeOK
  <2> QED
    BY <1>2, <1>8, <2>1, <2>3, <2>4
<1>12. Position'
  BY <1>1, <1>11 DEF Position, Past
<1>13. Pages' /\ Reader' /\ Left'
  BY <1>1 DEF SInv, Pages, Reader, Left
<1> QED
  BY <1>9, <1>10, <1>12, <1>13 DEF SInv

LEMMA OnMigrateNext ==
  ASSUME SInv, MigrateNext, Frame
  PROVE  SInv'
<1>1. /\ walk = "migrate" /\ pc = "next" /\ pc' = "batch" /\ nextkeys' = KeysPaged(LastKey)
      /\ UNCHANGED <<item, keys, loop, allKeys, sent, walk, storage, steady>>
  BY DEF MigrateNext, Cursor, Frame
<1>2. WalksTypeOK /\ item \in 1 .. Items /\ keys \in SUBSET Keys /\ Keys \subseteq Nat
  BY PagesAssumption DEF SInv, WalksTypeOK, Keys
<1>3. /\ LastKey \in Nat
      /\ keys # {} => LastKey \in keys /\ \A l \in keys : l <= LastKey
  BY <1>2, LastKeyOf
<1>4. PICK last \in Nat : last = LastKey
  BY <1>3
<1>5. /\ nextkeys' \in SUBSET Keys /\ Cardinality(nextkeys') <= PageSize
      /\ \A k \in nextkeys' : last < k
      /\ \A k \in storage[item] : k <= last \/ k \in nextkeys' \/ Past(k, nextkeys')
  BY <1>1, <1>2, <1>4, PageOf
<1>6. WalksTypeOK'
  BY <1>1, <1>2, <1>5 DEF WalksTypeOK
<1>7. \A l \in keys, n \in nextkeys' : l < n
  <2>1. TAKE l \in keys, n \in nextkeys'
  <2>2. l \in Nat /\ n \in Nat /\ l <= last /\ last < n
    BY <1>2, <1>3, <1>4, <1>5
  <2> QED
    BY <2>2
<1>8. \A k \in steady[item] : Read(k) \/ k \in nextkeys' \/ Past(k, nextkeys')
  <2> SUFFICES ASSUME NEW k \in steady[item], ~ Read(k)
               PROVE  k \in nextkeys' \/ Past(k, nextkeys')
    OBVIOUS
  <2>1. k \in storage[item] /\ k \in Nat
    BY <1>2 DEF SInv, Pages, WalksTypeOK
  <2>2. Past(k, keys)
    BY <1>1 DEF SInv, Position
  <2>3. last < k
    BY <1>3, <1>4, <2>2 DEF Past
  <2>4. ~ (k <= last)
    BY <2>1, <2>3
  <2> QED
    BY <1>5, <2>1, <2>4
<1>9. /\ \A k \in keys : Read(k)
      /\ \A k \in Keys : Read(k) => \E l \in keys : k <= l
      /\ \A k \in steady[item] : Read(k) \/ Past(k, keys)
  BY <1>1 DEF SInv, Position
<1>10. Position'
  BY <1>1, <1>7, <1>8, <1>9 DEF Position, Past, Read
<1>11. Pages' /\ Reader' /\ Fresh' /\ Left'
  BY <1>1, <1>5 DEF SInv, Pages, Reader, Fresh, Left
<1> QED
  BY <1>6, <1>10, <1>11 DEF SInv

LEMMA OnMigrateBatch ==
  ASSUME SInv, MigrateBatch, Frame
  PROVE  SInv'
<1>1. /\ pc = "batch" /\ loop' = (loop + 1) % FlushEvery
      /\ UNCHANGED <<item, nextkeys, walk, storage, steady>>
  BY DEF MigrateBatch, Frame
<1>2. /\ WalksTypeOK /\ item \in 1 .. Items /\ keys \in SUBSET Keys /\ nextkeys \in SUBSET Keys
      /\ Keys \subseteq Nat /\ 0 \notin Keys /\ Cardinality(nextkeys) <= PageSize
      /\ steady[item] \subseteq Keys
  BY PagesAssumption DEF SInv, WalksTypeOK, Keys, Pages
<1>3. loop' \in 0 .. FlushEvery - 1
  <2>1. loop + 1 \in Nat /\ FlushEvery \in Nat \ {0}
    BY <1>2, PagesAssumption DEF WalksTypeOK
  <2>2. \A a \in Nat, b \in Nat \ {0} : a % b \in 0 .. b - 1
    OBVIOUS
  <2> QED
    BY <1>1, <2>1, <2>2
<1>4. walk = "migrate"
  BY <1>1, <1>2 DEF SInv, Reader, WalksTypeOK
\* what was read is in the batch or remains to be sent
<1>5. /\ sent' \in [1 .. Items -> [Keys -> 0 .. 1]] /\ allKeys' \in [Keys -> 0 .. 1]
      /\ \A i \in 1 .. Items : i # item => sent'[i] = sent[i]
      /\ \A k \in Keys : Read(k)' <=> Read(k)
      /\ \A k \in Keys : ~ (allKeys'[k] = 1 /\ sent'[item][k] = 1)
  <2>1. CASE loop = 0
    <3>1. sent' = [sent EXCEPT ![item] = Plus(@, allKeys)] /\ allKeys' = NoEntries
      BY <2>1 DEF MigrateBatch
    <3>2. /\ sent' \in [1 .. Items -> [Keys -> 0 .. 1]]
          /\ \A k \in Keys : sent'[item][k] = 1 <=> Read(k)
          /\ \A i \in 1 .. Items : i # item => sent'[i] = sent[i]
      BY <1>1, <3>1, Sending
    <3>3. \A k \in Keys : allKeys'[k] # 1
      BY <3>1, NoEntriesOf
    <3>4. \A k \in Keys : Read(k)' <=> allKeys'[k] = 1 \/ sent'[item][k] = 1
      BY <1>1 DEF Read
    <3>5. \A k \in Keys : Read(k)' <=> Read(k)
      BY <3>2, <3>3, <3>4
    <3> QED
      BY <3>1, <3>2, <3>3, <3>5, NoEntriesOf
  <2>2. CASE loop # 0
    <3>1. sent' = sent /\ allKeys' = allKeys
      BY <2>2 DEF MigrateBatch
    <3> QED
      BY <1>1, <3>1 DEF SInv, WalksTypeOK, Fresh, Read
  <2> QED
    BY <2>1, <2>2
<1>6. /\ \A k \in Keys : Read(k) => \E l \in keys : k <= l
      /\ \A l \in keys, n \in nextkeys : l < n
      /\ \A k \in steady[item] : Read(k) \/ k \in nextkeys \/ Past(k, nextkeys)
  BY <1>1, <1>4 DEF SInv, Position
<1>7. LastKey \notin nextkeys
  <2>1. CASE keys = {}
    BY <1>2, <2>1, LastKeyOf
  <2>2. CASE keys # {}
    <3>1. LastKey \in keys /\ LastKey \in Nat
      BY <1>2, <2>2, LastKeyOf
    <3> QED
      BY <1>6, <3>1
  <2> QED
    BY <2>1, <2>2
<1>8. Fresh' /\ Left' /\ Pages' /\ Reader'
  <2>1. pc' \in {"last", "values"}
    BY DEF MigrateBatch
  <2>2. \A i \in 1 .. Items : i > item => i # item
    BY <1>2
  <2>3. \A i \in 1 .. Items : i < item => i # item
    BY <1>2
  <2>4. Fresh'
    BY <1>1, <1>5, <2>1, <2>2 DEF SInv, Fresh
  <2>5. Left'
    BY <1>1, <1>5, <2>1, <2>3 DEF SInv, Left
  <2>6. Pages' /\ Reader'
    BY <1>1, <1>4 DEF SInv, Pages, Reader
  <2> QED
    BY <2>4, <2>5, <2>6
<1>9. CASE nextkeys = {}
  <2>1. pc' = "last" /\ keys' = keys
    BY <1>9 DEF MigrateBatch, PagesEnd
  <2>2. \A k \in steady[item] : Read(k)'
    BY <1>2, <1>5, <1>6, <1>9 DEF Past
  <2>3. Position'
    BY <1>1, <2>1, <2>2 DEF Position
  <2>4. WalksTypeOK'
    BY <1>1, <1>2, <1>3, <1>5, <2>1 DEF WalksTypeOK
  <2> QED
    BY <1>8, <2>3, <2>4 DEF SInv
<1>10. CASE nextkeys # {}
  <2>1. pc' = "values" /\ keys' = nextkeys
    BY <1>7, <1>10 DEF MigrateBatch, PagesEnd
  <2>2. \A k \in Keys : Read(k)' => \A n \in nextkeys : k < n
    <3> SUFFICES ASSUME NEW k \in Keys, Read(k), NEW n \in nextkeys
                 PROVE  k < n
      BY <1>5
    <3>1. PICK l \in keys : k <= l
      BY <1>6
    <3>2. l < n /\ k \in Nat /\ l \in Nat /\ n \in Nat
      BY <1>2, <1>6
    <3> QED
      BY <3>1, <3>2
  <2>3. \A k \in steady[item] : Read(k)' \/ k \in nextkeys \/ Past(k, nextkeys)
    BY <1>2, <1>5, <1>6
  <2>4. Position'
    BY <1>1, <1>10, <2>1, <2>2, <2>3 DEF Position, Past
  <2>5. WalksTypeOK'
    BY <1>1, <1>2, <1>3, <1>5, <2>1 DEF WalksTypeOK
  <2> QED
    BY <1>8, <2>4, <2>5 DEF SInv
<1> QED
  BY <1>9, <1>10

LEMMA OnMigrateRest ==
  ASSUME SInv, MigrateRest, Frame
  PROVE  SInv'
<1>1. /\ pc = "last" /\ sent' = [sent EXCEPT ![item] = Plus(@, allKeys)] /\ NextItem
      /\ UNCHANGED <<keys, nextkeys, loop, walk, storage, steady>>
  BY DEF MigrateRest, Frame
<1>2. WalksTypeOK /\ item \in 1 .. Items /\ Items \in Nat /\ walk = "migrate"
  BY <1>1, PagesAssumption DEF SInv, WalksTypeOK, Reader
<1>3. /\ sent' \in [1 .. Items -> [Keys -> 0 .. 1]]
      /\ \A k \in Keys : sent'[item][k] = 1 <=> Read(k)
      /\ \A i \in 1 .. Items : i # item => sent'[i] = sent[i]
  BY <1>1, Sending
<1>4. allKeys' = NoEntries
  BY <1>1 DEF NextItem
<1>5. \A k \in steady[item] : sent'[item][k] = 1
  <2>1. \A k \in steady[item] : Read(k) /\ k \in Keys
    BY <1>1, <1>2 DEF SInv, Position, Pages, WalksTypeOK
  <2> QED
    BY <1>3, <2>1
<1>6. \A i \in 1 .. Items : i <= item => \A k \in steady[i] : sent'[i][k] = 1
  <2>1. \A i \in 1 .. Items : i < item => \A k \in steady[i] : sent[i][k] = 1
    BY <1>2 DEF SInv, Left
  <2>2. \A i \in 1 .. Items : i <= item => i < item \/ i = item
    BY <1>2
  <2>3. \A i \in 1 .. Items : i < item => i # item
    BY <1>2
  <2> QED
    BY <1>3, <1>5, <2>1, <2>2, <2>3
<1>7. \A i \in 1 .. Items : i > item => sent'[i] = NoEntries
  <2>1. \A i \in 1 .. Items : i > item => i # item
    BY <1>2
  <2> QED
    BY <1>3, <2>1 DEF SInv, Fresh
<1>8. Pages' /\ Reader'
  BY <1>1, <1>2 DEF SInv, Pages, Reader
<1>9. CASE item = Items
  <2>1. pc' = "done" /\ item' = item
    BY <1>1, <1>9 DEF NextItem
  <2>2. WalksTypeOK'
    BY <1>1, <1>2, <1>3, <1>4, <2>1, NoEntriesOf DEF WalksTypeOK
  <2>3. \A i \in 1 .. Items : i <= item
    BY <1>2, <1>9
  <2>4. Fresh' /\ Position'
    BY <1>7, <2>1 DEF Fresh, Position
  <2>5. Left'
    BY <1>1, <1>6, <2>3 DEF Left
  <2> QED
    BY <1>8, <2>2, <2>4, <2>5 DEF SInv
<1>10. CASE item # Items
  <2>1. pc' = "page" /\ item' = item + 1
    BY <1>1, <1>10 DEF NextItem
  <2>2. PICK next \in 1 .. Items : next = item + 1
    BY <1>2, <1>10
  <2>3. item' = next /\ next > item
    BY <1>2, <2>1, <2>2
  <2>4. WalksTypeOK'
    BY <1>1, <1>2, <1>3, <1>4, <2>1, <2>3, NoEntriesOf DEF WalksTypeOK
  <2>5. \A i \in 1 .. Items : /\ i > next => i > item
                              /\ i < next => i <= item
    BY <1>2, <2>2
  <2>6. sent'[next] = NoEntries
    BY <1>7, <2>3
  <2>7. Fresh'
    BY <1>4, <1>7, <2>1, <2>3, <2>5, <2>6, NoEntriesOf DEF Fresh
  <2>8. Position'
    BY <2>1 DEF Position
  <2>9. Left'
    BY <1>1, <1>6, <2>1, <2>3, <2>5 DEF Left
  <2> QED
    BY <1>8, <2>4, <2>7, <2>8, <2>9 DEF SInv
<1> QED
  BY <1>9, <1>10

LEMMA OnBatchRefused ==
  ASSUME SInv, BatchRefused, Frame
  PROVE  SInv'
<1>1. /\ pc \in {"last", "batch"} /\ pc' = "failed"
      /\ UNCHANGED <<item, keys, nextkeys, loop, allKeys, sent, walk, storage, steady>>
  BY DEF BatchRefused, Frame
<1>2. walk # "read"
  BY <1>1 DEF SInv, Reader
<1> QED
  BY <1>1, <1>2 DEF SInv, WalksTypeOK, Pages, Reader, Fresh, Position, Left

LEMMA OnReadNext ==
  ASSUME SInv, ReadNext, Frame
  PROVE  SInv'
<1>1. /\ walk = "read" /\ pc = "next" /\ nextkeys' = KeysPaged(HundredthKey)
      /\ UNCHANGED <<loop, sent, walk, storage, steady>>
  BY DEF ReadNext, Frame
<1>2. WalksTypeOK /\ item \in 1 .. Items /\ Items \in Nat /\ sent = [i \in 1 .. Items |-> NoEntries]
  BY <1>1, PagesAssumption DEF SInv, WalksTypeOK, Reader
<1>3. nextkeys' \in SUBSET Keys /\ Cardinality(nextkeys') <= PageSize
  <2>1. HundredthKey \in Nat
    BY <1>2, HundredthKeyOf
  <2>2. PICK start \in Nat : start = HundredthKey
    BY <2>1
  <2> QED
    BY <1>1, <1>2, <2>2, PageOf
<1>4. /\ allKeys' = NoEntries
      /\ \/ pc' \in {"done", "values"} /\ item' = item
         \/ pc' = "page" /\ item' = item + 1 /\ item # Items
      /\ keys' \in {keys, nextkeys'}
  BY DEF ReadNext, NextItem
<1>5. item' \in 1 .. Items
  BY <1>2, <1>4
<1>6. WalksTypeOK'
  BY <1>1, <1>2, <1>3, <1>4, <1>5, NoEntriesOf DEF WalksTypeOK
<1>7. Pages' /\ Reader'
  BY <1>1, <1>2, <1>3, <1>4 DEF SInv, Pages, Reader
<1>8. Fresh'
  BY <1>1, <1>2, <1>4, <1>5, NoEntriesOf DEF Fresh
<1>9. Position' /\ Left'
  BY <1>1 DEF Position, Left
<1> QED
  BY <1>6, <1>7, <1>8, <1>9 DEF SInv

\* A key that comes or goes is not one that its item has had all the time.
LEMMA OnChange ==
  ASSUME SInv, Change
  PROVE  SInv'
<1>1. UNCHANGED <<walk, pc, item, keys, nextkeys, loop, allKeys, sent>>
  BY DEF Change, walker
<1>2. PICK i \in 1 .. Items, k \in Keys :
        /\ storage' = [storage EXCEPT ![i] = IF k \in @ THEN @ \ {k} ELSE @ \cup {k}]
        /\ steady' = [steady EXCEPT ![i] = @ \ {k}]
  BY DEF Change
<1>3. /\ storage \in [1 .. Items -> SUBSET Keys] /\ steady \in [1 .. Items -> SUBSET Keys]
      /\ \A j \in 1 .. Items : steady[j] \subseteq storage[j]
      /\ item \in 1 .. Items
  BY DEF SInv, WalksTypeOK, Pages
<1>4. storage' \in [1 .. Items -> SUBSET Keys]
  <2>1. (IF k \in storage[i] THEN storage[i] \ {k} ELSE storage[i] \cup {k}) \in SUBSET Keys
    BY <1>3
  <2> QED
    BY <1>2, <1>3, <2>1
<1>5. steady' \in [1 .. Items -> SUBSET Keys]
  BY <1>2, <1>3
<1>6. \A j \in 1 .. Items : steady'[j] \subseteq steady[j] /\ steady'[j] \subseteq storage'[j]
  BY <1>2, <1>3
<1>7. WalksTypeOK'
  BY <1>1, <1>4 DEF SInv, WalksTypeOK
<1>8. Pages'
  BY <1>1, <1>5, <1>6 DEF SInv, Pages
<1>9. Reader' /\ Fresh'
  BY <1>1 DEF SInv, Reader, Fresh
<1>10. steady'[item] \subseteq steady[item]
  BY <1>3, <1>6
<1>11. Position'
  BY <1>1, <1>10 DEF SInv, Position, Past, Read
<1>12. Left'
  BY <1>1, <1>6 DEF SInv, Left
<1> QED
  BY <1>7, <1>8, <1>9, <1>11, <1>12 DEF SInv

\* Every step keeps the invariant, and the walks begin with it.
LEMMA WalksStep == SInv /\ [WalksNext]_walksVars => SInv'
<1> SUFFICES ASSUME SInv, [WalksNext]_walksVars
             PROVE  SInv'
  OBVIOUS
<1>1. CASE UNCHANGED walksVars
  BY <1>1 DEF walksVars, walker, SInv, WalksTypeOK, Pages, Reader, Fresh,
     Position, Left, Past, Read
<1>2. CASE Change
  BY <1>2, OnChange
<1>3. CASE Walk
  BY <1>3, OnFirstPage, OnReadValues, OnMigrateNext, OnMigrateBatch,
     OnMigrateRest, OnBatchRefused,
     OnReadNext DEF Walk, Frame
<1> QED
  BY <1>1, <1>2, <1>3 DEF WalksNext

LEMMA WalksBegin == WalksInit => SInv
<1> SUFFICES ASSUME WalksInit
             PROVE  SInv
  OBVIOUS
<1>1. /\ Items \in Nat /\ 1 \in 1 .. Items /\ 0 \in 0 .. FlushEvery - 1 /\ PageSize \in Nat
      /\ {} \in SUBSET Keys /\ Cardinality({}) = 0
  BY PagesAssumption, FS_EmptySet
<1>2. WalksTypeOK
  BY <1>1, NoEntriesOf DEF WalksInit, WalksTypeOK
<1>3. Pages
  BY <1>1 DEF WalksInit, Pages
<1>4. Reader /\ Fresh /\ Position
  BY <1>1, NoEntriesOf DEF WalksInit, Reader, Fresh, Position
<1>5. Left
  BY <1>1 DEF WalksInit, Left
<1> QED
  BY <1>2, <1>3, <1>4, <1>5 DEF SInv

\* The state of both walks is type correct: no page is longer than was asked
\* for, and no entry is counted twice, in what waits to be sent or in what was
\* sent (getTokensAccountDataStorage and migrate,
\* setupsOnTheGo.ts:1083-1125, 1257-1312).
THEOREM WalksTypeCorrect == WalksSpec => []WalksTypeOK
<1>1. SInv => WalksTypeOK
  BY DEF SInv
<1> QED
  BY <1>1, WalksBegin, WalksStep, PTL DEF WalksSpec

\* migrate writes no key of an item twice, and when it leaves an item it has
\* written every key that the item had all the time, whatever other keys come
\* and go while it walks and wherever pages and batches end
\* (setupsOnTheGo.ts:1257-1312).
THEOREM KeysAreMigratedOnce == WalksSpec => []KeysMigratedOnce
<1>1. ASSUME SInv, walk = "migrate", NEW i \in 1 .. Items
      PROVE  /\ \A k \in Keys : sent[i][k] + (IF i = item /\ pc # "done"
                                               THEN allKeys[k] ELSE 0) <= 1
             /\ i < item \/ pc = "done" => \A k \in steady[i] : sent[i][k] = 1
  <2>1. ASSUME NEW k \in Keys
        PROVE  sent[i][k] + (IF i = item /\ pc # "done" THEN allKeys[k] ELSE 0) <= 1
    <3>1. sent[i][k] \in 0 .. 1 /\ allKeys[k] \in 0 .. 1
      BY <1>1 DEF SInv, WalksTypeOK
    <3>2. i = item /\ pc # "done" => ~ (allKeys[k] = 1 /\ sent[i][k] = 1)
      BY <1>1 DEF SInv, Fresh
    <3> QED
      BY <3>1, <3>2
  <2> QED
    BY <1>1, <2>1 DEF SInv, Left
<1>2. SInv => KeysMigratedOnce
  BY <1>1 DEF KeysMigratedOnce
<1> QED
  BY <1>2, WalksBegin, WalksStep, PTL DEF WalksSpec

-----------------------------------------------------------------------------
\* CandidateHints

\* Whoever may be a member.
Accounts == Joiners \cup Founders

\* Who has a ticket of the IPC server.
Tickets == {j \in Joiners : way[j] = "ticket" /\ stage[j] # "idle"}

\* A hint covers what it counted, and its slack.
HintCovers ==
  \A j \in Joiners : stage[j] # "idle" => Cardinality(counted[j]) + Slack(j) <= hint[j]

\* The chain has executed the calls of the members.
Joined == \A i \in members \cap Joiners : stage[i] = "joined"

\* Whoever is a member while a call is under way is counted in its hint, or need
\* not be, or has joined since.
Foreseen ==
  \A j \in Joiners :
    stage[j] = "hinted" => members \subseteq counted[j] \cup Unread(j) \cup overtook[j]

HInv == HintsTypeOK /\ HintCovers /\ Joined /\ Foreseen /\ RefusedOnlyWhenOvertaken

-----------------------------------------------------------------------------
\* Sets of accounts are finite.
LEMMA AccountsFinite ==
  ASSUME NEW S \in SUBSET Accounts
  PROVE  IsFiniteSet(S) /\ Cardinality(S) \in Nat
<1>1. IsFiniteSet(Accounts)
  BY FS_Union, HintAssumption DEF Accounts
<1> QED
  BY <1>1, FS_Subset, FS_CardinalityType

\* A slack is a natural number.
LEMMA SlackNat ==
  ASSUME NEW j \in Joiners
  PROVE  Slack(j) \in Nat
BY HintAssumption DEF Slack

\* At most n users of a loop have an index below n.
LEMMA Earlier ==
  ASSUME NEW n \in Nat, NEW S \in SUBSET Joiners, \A i \in S : Index[i] < n
  PROVE  Cardinality(S) <= n
<1> DEFINE g == [i \in S |-> Index[i]]
<1>1. g \in Injection(S, 0 .. n - 1)
  <2>1. \A i \in S : Index[i] \in 0 .. n - 1
    BY HintAssumption
  <2>2. g \in [S -> 0 .. n - 1]
    BY <2>1
  <2>3. \A i, j \in S : g[i] = g[j] => i = j
    BY HintAssumption
  <2> QED
    BY <2>2, <2>3 DEF Injection, IsInjective
<1>2. IsFiniteSet(0 .. n - 1) /\ Cardinality(0 .. n - 1) = n
  BY FS_Interval
<1> QED
  BY <1>1, <1>2, FS_Injection

\* The union of two sets of accounts has at most as many as both.
LEMMA CountUnion ==
  ASSUME NEW S \in SUBSET Accounts, NEW T \in SUBSET Accounts
  PROVE  Cardinality(S \cup T) <= Cardinality(S) + Cardinality(T)
<1>1. Cardinality(S \cup T) = Cardinality(S) + Cardinality(T) - Cardinality(S \cap T)
  BY AccountsFinite, FS_Union
<1>2. S \cap T \in SUBSET Accounts
  OBVIOUS
<1> QED
  BY <1>1, <1>2, AccountsFinite

-----------------------------------------------------------------------------
\* Nobody has a hint before the tests begin.
LEMMA HintInit == HintsInit => HInv
<1> SUFFICES ASSUME HintsInit PROVE HInv
  OBVIOUS
<1>1. way \in [Joiners -> Ways]
  BY DEF HintsInit, Ways
<1>2. {j \in Joiners : way[j] = "ticket" /\ stage[j] # "idle"} = {}
  BY DEF HintsInit
<1>3. Cardinality(Founders) \in Nat
  BY HintAssumption, FS_CardinalityType
<1>4. HintsTypeOK
  <2>1. numCollators = Cardinality(Founders)
         + Cardinality({j \in Joiners : way[j] = "ticket" /\ stage[j] # "idle"})
    <3>1. numCollators = Cardinality(Founders)
      BY DEF HintsInit
    <3>2. Cardinality({j \in Joiners : way[j] = "ticket" /\ stage[j] # "idle"}) = 0
      BY <1>2, FS_EmptySet
    <3> QED
      BY <1>3, <3>1, <3>2
  <2>2. members \subseteq Joiners \cup Founders /\ selected \subseteq members
    BY DEF HintsInit
  <2>3. leaves \in 0 .. MaxLeaves
    BY HintAssumption DEF HintsInit
  <2> QED
    BY <1>1, <2>1, <2>2, <2>3 DEF HintsInit, HintsTypeOK
<1> QED
  BY <1>4, HintAssumption
  DEF HintsInit, HInv, HintCovers, Joined, Foreseen, RefusedOnlyWhenOvertaken

\* Only members that a hint missed may be exempted.
LEMMA UnreadStays ==
  ASSUME HInv, NEW j \in Joiners, way' = way, missed'[j] = missed[j]
  PROVE  Unread(j)' = Unread(j)
BY DEF Unread

\* Who need not be counted has an account.
LEMMA UnreadAccounts ==
  ASSUME HInv, NEW j \in Joiners
  PROVE  Unread(j) \in SUBSET Accounts
BY DEF HInv, HintsTypeOK, Unread, Accounts

\* Joiners that get hints which cover what they counted, and count whoever is
\* not exempted, keep the invariant.
LEMMA HintedKeeps ==
  ASSUME HInv, NEW js \in SUBSET Joiners, NEW h \in [js -> Nat], NEW c \in [js -> SUBSET Accounts],
         Hinted(js, h, c), \A j \in js : Cardinality(c[j]) + Slack(j) <= h[j],
         \A j \in js : members \ c[j] \subseteq Unread(j)',
         numCollators' = Cardinality(Founders) + Cardinality(Tickets')
  PROVE  HInv'
<1>1. HintsTypeOK'
  <2>1. stage' \in [Joiners -> {"idle", "hinted", "joined", "refused"}]
    BY DEF HInv, HintsTypeOK, Hinted
  <2>2. hint' \in [Joiners -> Nat] /\ counted' \in [Joiners -> SUBSET (Joiners \cup Founders)]
    BY DEF HInv, HintsTypeOK, Hinted, Accounts
  <2>3. UNCHANGED <<way, members, selected, overtook, leaves>>
    BY DEF Hinted
  <2>4. missed' \in [Joiners -> SUBSET (Joiners \cup Founders)]
    BY DEF HInv, HintsTypeOK, Hinted
  <2> QED
    BY <2>1, <2>2, <2>3, <2>4 DEF HInv, HintsTypeOK, Tickets
<1>2. HintCovers'
  <2> SUFFICES ASSUME NEW j \in Joiners, stage'[j] # "idle"
               PROVE  Cardinality(counted'[j]) + Slack(j)' <= hint'[j]
    BY DEF HintCovers
  <2>1. Slack(j)' = Slack(j)
    BY DEF Hinted, Slack
  <2>2. CASE j \in js
    <3>1. counted'[j] = c[j] /\ hint'[j] = h[j]
      BY <2>2 DEF Hinted
    <3> QED
      BY <2>1, <2>2, <3>1
  <2>3. CASE j \notin js
    <3>1. counted'[j] = counted[j] /\ hint'[j] = hint[j] /\ stage'[j] = stage[j]
      BY <2>3 DEF Hinted
    <3> QED
      BY <2>1, <3>1 DEF HInv, HintCovers
  <2> QED
    BY <2>2, <2>3
<1>3. RefusedOnlyWhenOvertaken'
  <2> SUFFICES ASSUME NEW j \in Joiners, stage'[j] = "refused"
               PROVE  Cardinality(Unread(j)' \cup overtook'[j]) > Slack(j)'
    BY DEF RefusedOnlyWhenOvertaken
  <2>1. stage[j] = "refused" /\ overtook' = overtook /\ Slack(j)' = Slack(j)
    BY DEF Hinted, Slack
  <2>2. way' = way /\ missed'[j] = missed[j]
    BY <2>1 DEF Hinted
  <2>3. Unread(j)' = Unread(j)
    BY <2>2, UnreadStays
  <2> QED
    BY <2>1, <2>3 DEF HInv, RefusedOnlyWhenOvertaken
<1>4. Joined'
  BY DEF HInv, Joined, Hinted
<1>5. Foreseen'
  <2> SUFFICES ASSUME NEW j \in Joiners, stage'[j] = "hinted"
               PROVE  members' \subseteq counted'[j] \cup Unread(j)' \cup overtook'[j]
    BY DEF Foreseen
  <2>1. members' = members /\ overtook' = overtook /\ way' = way
    BY DEF Hinted
  <2>2. CASE j \in js
    <3>1. counted'[j] = c[j]
      BY <2>2 DEF Hinted
    <3> QED
      BY <2>1, <2>2, <3>1
  <2>3. CASE j \notin js
    <3>1. counted'[j] = counted[j] /\ missed'[j] = missed[j] /\ stage[j] = "hinted"
      BY <2>3 DEF Hinted
    <3>2. Unread(j)' = Unread(j)
      BY <2>1, <3>1, UnreadStays
    <3> QED
      BY <2>1, <3>1, <3>2 DEF HInv, Foreseen
  <2> QED
    BY <2>2, <2>3
<1> QED
  BY <1>1, <1>2, <1>3, <1>4, <1>5 DEF HInv

\* Whoever has no ticket leaves the counter of the server right.
LEMMA TicketsStay ==
  ASSUME HInv, UNCHANGED <<way, numCollators>>,
         \A j \in Joiners : way[j] = "ticket" => (stage'[j] = "idle" <=> stage[j] = "idle")
  PROVE  numCollators' = Cardinality(Founders) + Cardinality(Tickets')
<1>1. Tickets' = Tickets
  BY DEF Tickets
<1>2. numCollators = Cardinality(Founders) + Cardinality(Tickets)
  BY DEF HInv, HintsTypeOK, Tickets
<1> QED
  BY <1>1, <1>2

\* A joiner that reads a set and adds its slack.
LEMMA ReadSetKeeps ==
  ASSUME HInv, NEW j \in Joiners, NEW s \in SUBSET Accounts, way[j] # "ticket", ReadSet(j, s),
         members \subseteq s \/ way[j] \in {"selected", "zero"}
  PROVE  HInv'
<1> DEFINE h == [k \in {j} |-> Cardinality(s) + Slack(j)]
           c == [k \in {j} |-> s]
<1>1. Hinted({j}, h, c) /\ numCollators' = numCollators
  BY DEF ReadSet
<1>2. h \in [{j} -> Nat] /\ c \in [{j} -> SUBSET Accounts]
  BY AccountsFinite, SlackNat
<1>3. \A k \in {j} : Cardinality(c[k]) + Slack(k) <= h[k]
  BY AccountsFinite, SlackNat
<1>4. numCollators' = Cardinality(Founders) + Cardinality(Tickets')
  <2>1. way' = way /\ \A k \in Joiners : k # j => stage'[k] = stage[k]
    BY <1>1 DEF Hinted
  <2> QED
    BY <1>1, <2>1, TicketsStay
<1>5. \A k \in {j} : members \ c[k] \subseteq Unread(k)'
  <2>1. missed'[j] = members \ s /\ way' = way
    BY <1>1 DEF Hinted
  <2> QED
    BY <2>1 DEF Unread
<1> HIDE DEF h, c
<1> QED
  BY <1>1, <1>2, <1>3, <1>4, <1>5, HintedKeeps

\* A ticket stands for the founders and the tickets before it.
LEMMA TicketKeeps ==
  ASSUME HInv, NEW j \in Joiners, JoinWithTicket(j)
  PROVE  HInv'
<1> DEFINE h == [k \in {j} |-> numCollators + CandidateSlack]
           c == [k \in {j} |-> Founders \cup Tickets]
<1>1. Hinted({j}, h, c) /\ numCollators' = numCollators + 1 /\ way[j] = "ticket"
  BY DEF JoinWithTicket, Tickets
<1>2. numCollators = Cardinality(Founders) + Cardinality(Tickets)
  BY DEF HInv, HintsTypeOK, Tickets
<1>3. Tickets \in SUBSET Accounts /\ Founders \in SUBSET Accounts
  BY DEF Tickets, Accounts
<1>4. Cardinality(Tickets) \in Nat /\ Cardinality(Founders) \in Nat /\ IsFiniteSet(Tickets)
  BY <1>3, AccountsFinite
<1>5. h \in [{j} -> Nat] /\ c \in [{j} -> SUBSET Accounts]
  BY <1>2, <1>3, <1>4, HintAssumption
<1>6. \A k \in {j} : Cardinality(c[k]) + Slack(k) <= h[k]
  <2>1. Cardinality(Founders \cup Tickets) <= numCollators
    BY <1>2, <1>3, CountUnion
  <2>2. Slack(j) = CandidateSlack
    BY <1>1 DEF Slack
  <2>3. Cardinality(Founders \cup Tickets) \in Nat
    BY <1>3, AccountsFinite
  <2> QED
    BY <1>2, <1>4, <2>1, <2>2, <2>3, HintAssumption
<1>7. numCollators' = Cardinality(Founders) + Cardinality(Tickets')
  <2>1. j \notin Tickets
    BY <1>1 DEF Tickets, Hinted
  <2>2. Tickets' = Tickets \cup {j}
    BY <1>1 DEF Tickets, Hinted
  <2>3. Cardinality(Tickets') = Cardinality(Tickets) + 1
    BY <1>4, <2>1, <2>2, FS_AddElement
  <2> QED
    BY <1>1, <1>2, <1>4, <2>3
<1>8. \A k \in {j} : members \ c[k] \subseteq Unread(k)'
  <2>1. missed'[j] = members \ (Founders \cup Tickets) /\ way' = way
    BY <1>1 DEF Hinted
  <2>2. ASSUME NEW i \in members \ (Founders \cup Tickets)
        PROVE  i \in Joiners /\ way[i] # "ticket"
    BY DEF HInv, HintsTypeOK, Joined, Tickets
  <2>3. Unread(j)' = {i \in missed'[j] \cap Joiners : way[i] # "ticket"}
    BY <1>1, <2>1 DEF Unread
  <2>4. members \ (Founders \cup Tickets) \subseteq Unread(j)'
    BY <2>1, <2>2, <2>3
  <2> QED
    BY <2>4
<1> HIDE DEF h, c
<1> QED
  BY <1>1, <1>5, <1>6, <1>7, <1>8, HintedKeeps

\* A group reads once; who comes earlier in the loop is counted.
LEMMA GroupKeeps ==
  ASSUME HInv, NEW group \in SUBSET Joiners, \A j \in group : way[j] \in {"few", "fill"},
         GroupHinted(group)
  PROVE  HInv'
<1> DEFINE before(j) == {i \in group : Index[i] < Index[j]}
           h == [j \in group |-> Cardinality(members) + Index[j]]
           c == [j \in group |-> members \cup before(j)]
<1>1. Hinted(group, h, c) /\ numCollators' = numCollators
  BY DEF GroupHinted
<1>2. members \in SUBSET Accounts
  BY DEF HInv, HintsTypeOK, Accounts
<1>3. Cardinality(members) \in Nat
  BY <1>2, AccountsFinite
<1>4. h \in [group -> Nat] /\ c \in [group -> SUBSET Accounts]
  BY <1>2, <1>3, HintAssumption DEF Accounts
<1>5. ASSUME NEW j \in group
      PROVE  Cardinality(c[j]) + Slack(j) <= h[j]
  <2>1. Slack(j) = 0
    BY DEF Slack
  <2>2. before(j) \in SUBSET Joiners /\ before(j) \in SUBSET Accounts
    BY DEF Accounts
  <2>3. Index[j] \in Nat
    BY HintAssumption
  <2>4. Cardinality(before(j)) <= Index[j]
    BY <2>2, <2>3, Earlier
  <2>5. Cardinality(members \cup before(j)) <= Cardinality(members) + Cardinality(before(j))
    BY <1>2, <2>2, CountUnion
  <2>6. Cardinality(before(j)) \in Nat /\ Cardinality(members \cup before(j)) \in Nat
    BY <1>2, <2>2, AccountsFinite
  <2>7. c[j] = members \cup before(j) /\ h[j] = Cardinality(members) + Index[j]
    OBVIOUS
  <2> HIDE DEF before, h, c
  <2> QED
    BY <1>3, <2>1, <2>3, <2>4, <2>5, <2>6, <2>7
<1>6. numCollators' = Cardinality(Founders) + Cardinality(Tickets')
  <2>1. way' = way /\ \A k \in Joiners : k \notin group => stage'[k] = stage[k]
    BY <1>1 DEF Hinted
  <2> QED
    BY <1>1, <2>1, TicketsStay
<1>7. \A j \in group : members \ c[j] \subseteq Unread(j)'
  OBVIOUS
<1> HIDE DEF h, c
<1> QED
  BY <1>1, <1>4, <1>5, <1>6, <1>7, HintedKeeps

\* The chain refuses a call only if more members than its slack need not have
\* been counted or have joined since: the hint covers the others.
LEMMA ExecuteKeeps ==
  ASSUME HInv, NEW j \in Joiners, Execute(j)
  PROVE  HInv'
<1>1. /\ UNCHANGED <<way, selected, numCollators, counted, hint, missed, leaves>>
      /\ stage[j] = "hinted"
  BY DEF Execute
<1>2. members \in SUBSET Accounts /\ counted[j] \in SUBSET Accounts /\ hint[j] \in Nat
  BY DEF HInv, HintsTypeOK, Accounts
<1>3. \A k \in Joiners : Unread(k)' = Unread(k)
  BY <1>1, UnreadStays
<1>4. /\ stage' \in [Joiners -> {"idle", "hinted", "joined", "refused"}]
      /\ stage'[j] \in {"joined", "refused"}
      /\ \A k \in Joiners : k # j => stage'[k] = stage[k]
      /\ stage'[j] = "refused" => ~(Cardinality(members) <= hint[j])
  BY DEF Execute, HInv, HintsTypeOK
<1>5. \/ stage'[j] = "joined" /\ members' = members \cup {j}
      \/ stage'[j] = "refused" /\ members' = members
  BY DEF Execute, HInv, HintsTypeOK
<1>6. /\ overtook' \in [Joiners -> SUBSET Joiners]
      /\ \A k \in Joiners :
           \/ overtook'[k] = overtook[k]
           \/ (stage'[j] = "joined" /\ Surprises(j, k) /\ overtook'[k] = overtook[k] \cup {j})
      /\ \A k \in Joiners : stage'[j] = "joined" /\ Surprises(j, k) =>
           overtook'[k] = overtook[k] \cup {j}
  BY DEF Execute, HInv, HintsTypeOK
<1>7. HintsTypeOK'
  <2>1. numCollators' = Cardinality(Founders) + Cardinality(Tickets')
    BY <1>1, <1>4, TicketsStay
  <2>2. members' \subseteq Joiners \cup Founders /\ members \subseteq members'
    BY <1>5 DEF HInv, HintsTypeOK
  <2> QED
    BY <1>1, <1>4, <1>6, <2>1, <2>2 DEF HInv, HintsTypeOK, Tickets
<1>8. HintCovers'
  <2> SUFFICES ASSUME NEW k \in Joiners, stage'[k] # "idle"
               PROVE  Cardinality(counted[k]) + Slack(k) <= hint[k]
    BY <1>1 DEF HintCovers, Slack
  <2>1. stage[k] # "idle"
    BY <1>1, <1>4
  <2> QED
    BY <2>1 DEF HInv, HintCovers
<1>9. Joined'
  <2> SUFFICES ASSUME NEW i \in members' \cap Joiners PROVE stage'[i] = "joined"
    BY DEF Joined
  <2> QED
    BY <1>1, <1>4, <1>5 DEF HInv, Joined
<1>10. Foreseen'
  <2> SUFFICES ASSUME NEW k \in Joiners, stage'[k] = "hinted"
               PROVE  members' \subseteq counted[k] \cup Unread(k) \cup overtook'[k]
    BY <1>1, <1>3 DEF Foreseen
  <2>1. k # j /\ stage[k] = "hinted"
    BY <1>4
  <2>2. members \subseteq counted[k] \cup Unread(k) \cup overtook[k]
    BY <2>1 DEF HInv, Foreseen
  <2>3. overtook[k] \subseteq overtook'[k]
    BY <1>6
  <2>4. stage'[j] = "joined" => j \in counted[k] \cup overtook'[k]
    BY <1>6, <2>1 DEF Surprises
  <2> QED
    BY <1>5, <2>2, <2>3, <2>4
<1>11. RefusedOnlyWhenOvertaken'
  <2> SUFFICES ASSUME NEW k \in Joiners, stage'[k] = "refused"
               PROVE  Cardinality(Unread(k) \cup overtook'[k]) > Slack(k)
    BY <1>1, <1>3 DEF RefusedOnlyWhenOvertaken, Slack
  <2>1. CASE k = j
    <3> DEFINE B == Unread(j) \cup overtook[j]
    <3>1. overtook'[j] = overtook[j]
      BY <1>6 DEF Surprises
    <3>2. B \in SUBSET Accounts
      BY UnreadAccounts DEF HInv, HintsTypeOK, Accounts
    <3>3. members \subseteq counted[j] \cup B
      BY <1>1 DEF HInv, Foreseen
    <3>4. counted[j] \cup B \in SUBSET Accounts
      BY <1>2, <3>2
    <3>5. Cardinality(members) <= Cardinality(counted[j] \cup B)
      BY <3>3, <3>4, AccountsFinite, FS_Subset
    <3>6. Cardinality(counted[j] \cup B) <= Cardinality(counted[j]) + Cardinality(B)
      BY <1>2, <3>2, CountUnion
    <3>7. Cardinality(counted[j]) + Slack(j) <= hint[j]
      BY <1>1 DEF HInv, HintCovers
    <3>8. ~(Cardinality(members) <= hint[j])
      BY <1>4, <2>1
    <3>9. /\ Cardinality(members) \in Nat /\ Cardinality(counted[j]) \in Nat
          /\ Cardinality(B) \in Nat /\ Cardinality(counted[j] \cup B) \in Nat
      BY <1>2, <3>2, <3>4, AccountsFinite
    <3> HIDE DEF B
    <3>10. Cardinality(B) > Slack(j)
      BY <1>2, <3>5, <3>6, <3>7, <3>8, <3>9, SlackNat
    <3> QED
      BY <2>1, <3>1, <3>10 DEF B
  <2>2. CASE k # j
    <3>1. stage[k] = "refused"
      BY <1>4, <2>2
    <3>2. overtook'[k] = overtook[k]
      BY <1>6, <3>1 DEF Surprises
    <3> QED
      BY <3>1, <3>2 DEF HInv, RefusedOnlyWhenOvertaken
  <2> QED
    BY <2>1, <2>2
<1> QED
  BY <1>7, <1>8, <1>9, <1>10, <1>11 DEF HInv

\* Members that leave and rounds that begin touch no hint.
LEMMA ChainKeeps ==
  ASSUME HInv, (\E m \in members : Leave(m)) \/ Round \/ UNCHANGED hintsVars
  PROVE  HInv'
<1>1. UNCHANGED <<way, numCollators, stage, counted, hint, missed, overtook>>
  BY DEF Leave, Round, hintsVars
<1>2. /\ members' \subseteq Joiners \cup Founders /\ selected' \subseteq members'
      /\ members' \subseteq members
  BY DEF Leave, Round, hintsVars, HInv, HintsTypeOK
<1>3. leaves' \in 0 .. MaxLeaves
  BY HintAssumption DEF Leave, Round, hintsVars, HInv, HintsTypeOK
<1>4. HintsTypeOK'
  BY <1>1, <1>2, <1>3 DEF HInv, HintsTypeOK
<1>5. \A j \in Joiners : Unread(j)' = Unread(j) /\ Slack(j)' = Slack(j)
  BY <1>1, UnreadStays DEF Slack
<1>6. HintCovers' /\ RefusedOnlyWhenOvertaken'
  BY <1>1, <1>5 DEF HInv, HintCovers, RefusedOnlyWhenOvertaken
<1>7. Joined' /\ Foreseen'
  BY <1>1, <1>2, <1>5 DEF HInv, Joined, Foreseen
<1> QED
  BY <1>4, <1>6, <1>7 DEF HInv

\* Every step keeps the invariant.
LEMMA HintStep == HInv /\ [HintsNext]_hintsVars => HInv'
<1> SUFFICES ASSUME HInv, [HintsNext]_hintsVars PROVE HInv'
  OBVIOUS
<1>1. members \in SUBSET Accounts /\ selected \in SUBSET Accounts
  BY DEF HInv, HintsTypeOK, Accounts
<1>2. ASSUME NEW j \in Joiners,
             JoinInBand(j) \/ JoinCandidate(j) \/ JoinAsCandidate(j) \/ Delegate(j) \/ DelegateUncounted(j)
      PROVE  HInv'
  <2>1. PICK s \in SUBSET Accounts : /\ way[j] # "ticket" /\ ReadSet(j, s)
                                     /\ members \subseteq s \/ way[j] \in {"selected", "zero"}
    BY <1>1, <1>2 DEF JoinInBand, JoinCandidate, JoinAsCandidate, Delegate, DelegateUncounted
  <2> QED
    BY <2>1, ReadSetKeeps
<1>3. CASE JoinAFewCandidates
  <2>1. GroupHinted({j \in Joiners : way[j] = "few"})
    BY <1>3 DEF JoinAFewCandidates
  <2> QED
    BY <2>1, GroupKeeps
<1>4. CASE FillWithDelegators
  <2>1. GroupHinted({j \in Joiners : way[j] = "fill"})
    BY <1>4 DEF FillWithDelegators
  <2> QED
    BY <2>1, GroupKeeps
<1>5. CASE (\E m \in members : Leave(m)) \/ Round \/ UNCHANGED hintsVars
  BY <1>5, ChainKeeps
<1> QED
  BY <1>2, <1>3, <1>4, <1>5, TicketKeeps, ExecuteKeeps DEF HintsNext

\* The pool of candidates, the counter of the IPC server and the hints are type
\* correct, and the server counts every ticket it has given (SudoDB.ts:48-60).
THEOREM HintsTypeCorrect == HintsSpec => []HintsTypeOK
<1>1. HintsInit => HInv
  BY HintInit
<1>2. HInv /\ [HintsNext]_hintsVars => HInv'
  BY HintStep
<1>3. HInv => HintsTypeOK
  BY DEF HInv
<1> QED
  BY <1>1, <1>2, <1>3, PTL DEF HintsSpec

\* However many tests join at the same time, by whatever of the eight ways, the
\* chain refuses a call for its hint only when more than its slack have joined
\* between its reading and its execution, not counting the earlier ones of its
\* loop and earlier tickets (Staking.ts:41-79, tx.ts:484-528,
\* setupsOnTheGo.ts:621-848).  Only three ways may owe it to members that were
\* there before: a ticket to those that took none, getCandidates under
\* --runInBand to those that are not selected, delegate of tx.ts to any.
THEOREM RefusalsAreOvertaken == HintsSpec => []RefusedOnlyWhenOvertaken
<1>1. HintsInit => HInv
  BY HintInit
<1>2. HInv /\ [HintsNext]_hintsVars => HInv'
  BY HintStep
<1>3. HInv => RefusedOnlyWhenOvertaken
  BY DEF HInv
<1> QED
  BY <1>1, <1>2, <1>3, PTL DEF HintsSpec
=============================================================================
