------------------------ MODULE PerfLifecycleProofs ------------------------
(***************************************************************************)
(* Theorems about PerfLifecycle, for every command, any number of nodes,   *)
(* threads, liquidity tokens and overlapping callbacks, and any duration   *)
(* that verifyArgs accepts.                                                *)
(***************************************************************************)
EXTENDS PerfLifecycle, TLAPS

\* mintTokensToUsers has a node to mint for until it settles.
AtNode ==
  /\ pc \in {"arrange", "tokenId", "nonce", "users"} => node < nodes
  /\ pc = "settle" => node = nodes

\* Whatever was minted is for a user before the one whose turn it is.
Issued ==
  \A m \in flying \cup pooled \cup lost :
    m.node < node \/ (pc = "users" /\ m.node = node /\ m.user < user)

\* A tracker resolves with the first result beyond the duration, when at most
\* MaxActive - 1 callbacks still run.
Measured ==
  \A t \in Trackers :
    IF trackers[t].resolved
    THEN /\ trackers[t].count > duration
         /\ trackers[t].count + trackers[t].running <= duration + MaxActive
    ELSE trackers[t].count <= duration

\* What a run that gets past its threads has shown, and past its expectations.
Passing ==
  /\ pc \in {"expect", "teardown", "teardownFailed", "exit0"} => \A u \in Signers : CanPay(u)
  /\ pc \in {"teardown", "teardownFailed", "exit0"} =>
       \A t \in Trackers : trackers[t].count > duration /\ trackers[t].count > Ignored
  /\ threw => duration < Ignored

\* The native tokens of the user are there, or on their way.
Supplied(u) ==
  \/ CanPay(<<0, u>>)
  \/ \E m \in flying \cup pooled : m.node = 0 /\ m.user = u /\ m.asset = Native

\* With one node the nonce of sudo is read once, before the first mint: the
\* mints have consecutive nonces, none is refused, and every user is supplied.
OneNode ==
  nodes = 1 =>
    /\ lost = {}
    /\ \A m, o \in flying \cup pooled : m.nonce = o.nonce => m = o
    /\ \A m \in flying \cup pooled : executed <= m.nonce /\ m.nonce < sudoNonce
    /\ pc = "users" => executed <= sudoNonce
    /\ \A u \in 0 .. Threads - 1 : node = 1 \/ (pc = "users" /\ u < user) => Supplied(u)
    /\ pc \in {"act", "run", "expect", "teardown", "teardownFailed", "exit0"} =>
         \A u \in AllUsers : CanPay(u)

IInv == TypeOK /\ AtNode /\ Issued /\ Measured /\ Passing /\ OneNode

-----------------------------------------------------------------------------
\* what the arguments and the state are made of

\* Every item mints at least the native tokens.
LEMMA AssetsOfType == AssetsOf(item) \in Nat /\ AssetsOf(item) >= 1
  BY ArgsAssumption DEF AssetsOf

\* verifyArgs, argument by argument.
LEMMA ArgumentTypes ==
  /\ \A n \in NodeCounts : n \in Nat \ {0}
  /\ \A d \in Durations : d \in Nat
<1>1. ASSUME NEW n \in NodeCounts
      PROVE  n \in Nat \ {0}
  BY ArgsAssumption
<1>2. ASSUME NEW d \in Durations
      PROVE  d \in Nat
  BY ArgsAssumption DEF NaN
<1> QED
  BY <1>1, <1>2

\* The types that the arithmetic reads.
LEMMA NumberTypes ==
  ASSUME TypeOK
  PROVE  /\ nodes \in Nat /\ nodes >= 1 /\ Threads \in Nat /\ Threads >= 1
         /\ duration \in Nat /\ MaxActive \in Nat /\ MaxActive >= 1
         /\ executed \in Nat /\ sudoNonce \in Nat
         /\ node \in Nat /\ node <= nodes /\ user \in Nat /\ user < Threads
         /\ \A m \in flying \cup pooled \cup lost :
              m.node \in 0 .. nodes - 1 /\ m.user \in 0 .. Threads - 1 /\ m.nonce \in Nat
         /\ \A t \in Trackers : /\ trackers[t].count \in Nat /\ trackers[t].running \in Nat
                                /\ trackers[t].running <= MaxActive
                                /\ trackers[t].resolved \in BOOLEAN
<1>1. nodes \in Nat \ {0} /\ duration \in Nat
  <2>1. nodes \in NodeCounts /\ duration \in Durations
    BY DEF TypeOK
  <2> QED
    BY <2>1, ArgumentTypes
<1>2. /\ executed \in Nat /\ sudoNonce \in Nat
      /\ node \in Nat /\ node <= nodes /\ user \in Nat /\ user < Threads
  <2>1. /\ executed \in Nat /\ sudoNonce \in Nat
        /\ node \in 0 .. nodes /\ user \in 0 .. Threads - 1
    BY DEF TypeOK
  <2>2. Threads \in Nat
    BY ArgsAssumption
  <2> QED
    BY <1>1, <2>1, <2>2
<1>3. ASSUME NEW m \in flying \cup pooled \cup lost
      PROVE  m.node \in 0 .. nodes - 1 /\ m.user \in 0 .. Threads - 1 /\ m.nonce \in Nat
  <2>1. m \in Mints
    BY DEF TypeOK
  <2> QED
    BY <2>1 DEF Mints
<1>4. ASSUME NEW t \in Trackers
      PROVE  /\ trackers[t].count \in Nat /\ trackers[t].running \in Nat
             /\ trackers[t].running <= MaxActive
             /\ trackers[t].resolved \in BOOLEAN
  <2>1. trackers[t] \in [count : 0 .. duration + 1 + MaxActive,
                         running : 0 .. MaxActive, resolved : BOOLEAN]
    BY DEF TypeOK
  <2>2. /\ trackers[t].count \in 0 .. duration + 1 + MaxActive
        /\ trackers[t].running \in 0 .. MaxActive
        /\ trackers[t].resolved \in BOOLEAN
    BY <2>1
  <2>3. duration + 1 + MaxActive \in Nat /\ MaxActive \in Nat
    BY <1>1, ArgsAssumption
  <2> QED
    BY <2>2, <2>3
<1>5. Threads \in Nat /\ Threads >= 1 /\ MaxActive \in Nat /\ MaxActive >= 1
  BY ArgsAssumption
<1>6. nodes \in Nat /\ nodes >= 1
  BY <1>1
<1> QED
  BY <1>1, <1>2, <1>3, <1>4, <1>5, <1>6

\* With one node nothing is minted before the nonce is read.
LEMMA NothingMinted ==
  ASSUME IInv, nodes = 1, pc \in {"arrange", "tokenId", "nonce"}
  PROVE  flying = {} /\ pooled = {} /\ lost = {} /\ node = 0
<1>1. node = 0
  <2>1. node < nodes
    BY DEF IInv, AtNode
  <2>2. node \in Nat /\ nodes \in Nat
    BY NumberTypes DEF IInv
  <2> QED
    BY <2>1, <2>2
<1>2. ASSUME NEW m \in flying \cup pooled \cup lost
      PROVE  FALSE
  <2>1. m.node \in 0 .. nodes - 1 /\ user \in Nat
    BY NumberTypes DEF IInv
  <2>2. m.node < node \/ (pc = "users" /\ m.node = node /\ m.user < user)
    BY DEF IInv, Issued
  <2>3. m.node < 0
    BY <1>1, <2>2
  <2> QED
    BY <2>1, <2>3
<1> QED
  BY <1>1, <1>2

LEMMA InitInv == Init => IInv
<1> SUFFICES ASSUME Init
             PROVE  IInv
  OBVIOUS
<1>1. nodes \in Nat \ {0} /\ duration \in Nat /\ Threads \in Nat \ {0} /\ MaxActive \in Nat \ {0}
  <2>1. nodes \in NodeCounts /\ duration \in Durations
    BY DEF Init
  <2>2. Threads \in Nat \ {0} /\ MaxActive \in Nat \ {0}
    BY ArgsAssumption
  <2> QED
    BY <2>1, <2>2, ArgumentTypes
<1>2. Batches(item) \in 0 .. 4
  BY DEF Batches
<1>3. trackers \in [Trackers -> [count : 0 .. duration + 1 + MaxActive,
                                 running : 0 .. MaxActive, resolved : BOOLEAN]]
  <2>1. 0 \in 0 .. duration + 1 + MaxActive /\ 0 \in 0 .. MaxActive
    BY <1>1
  <2>2. [count |-> 0, running |-> 0, resolved |-> FALSE]
          \in [count : 0 .. duration + 1 + MaxActive, running : 0 .. MaxActive, resolved : BOOLEAN]
    BY <2>1
  <2> QED
    BY <2>2 DEF Init, NoMeasurement
<1>4. TypeOK
  <2>1. 0 \in 0 .. nodes /\ 0 \in 0 .. Threads - 1
    BY <1>1
  <2> QED
    BY <1>2, <1>3, <2>1 DEF Init, TypeOK
<1>5. AtNode /\ Issued
  BY <1>1 DEF Init, AtNode, Issued
<1>6. Measured /\ Passing
  BY <1>1 DEF Init, NoMeasurement, Measured, Passing
<1>7. OneNode
  BY <1>1 DEF Init, OneNode
<1> QED
  BY <1>4, <1>5, <1>6, <1>7 DEF IInv

-----------------------------------------------------------------------------
\* steps of main that mint nothing

\* The steps that only move on, within arrange or after it.
LEMMA MoveInv ==
  ASSUME IInv, UNCHANGED <<arguments, minting, trackers>>,
         executed' \in Nat, executed' = executed \/ pc = "arrange",
         pc' \in {"arrange", "tokenId", "nonce", "act", "run", "expect",
                  "teardown", "teardownFailed"} \cup Exits,
         ipcNonce' \in Nat, batches' \in 0 .. 4, threw' \in BOOLEAN,
         pc # "users", pc' \in {"arrange", "tokenId", "nonce"} => pc = "arrange",
         Passing',
         pc' \in {"act", "run", "expect", "teardown", "teardownFailed", "exit0"} =>
           \/ pc \in {"act", "run", "expect", "teardown", "teardownFailed"}
           \/ pc = "settle" /\ flying \cup pooled = {}
  PROVE  IInv'
<1>1. UNCHANGED <<item, nodes, duration, node, user, sudoNonce, flying, pooled, lost, funded>>
  BY DEF arguments, minting
<1>2. TypeOK'
  BY <1>1 DEF IInv, TypeOK, Mints, Exits
<1>3. AtNode'
  BY <1>1 DEF IInv, AtNode, Exits
<1>4. Issued'
  BY <1>1 DEF IInv, Issued
<1>5. Measured'
  BY <1>1 DEF IInv, Measured
<1>6. OneNode'
  <2> SUFFICES ASSUME nodes = 1
               PROVE  OneNode'
    BY <1>1 DEF OneNode
  <2>1. lost' = {} /\ \A m, o \in flying' \cup pooled' : m.nonce = o.nonce => m = o
    BY <1>1 DEF IInv, OneNode
  <2>2. \A m \in flying' \cup pooled' : executed' <= m.nonce /\ m.nonce < sudoNonce'
    BY <1>1, NothingMinted DEF IInv, OneNode
  <2>3. pc' # "users"
    BY DEF Exits
  <2>4. \A u \in 0 .. Threads - 1 : node' = 1 => Supplied(u)'
    BY <1>1 DEF IInv, OneNode, Supplied, CanPay
  <2>5. ASSUME pc' \in {"act", "run", "expect", "teardown", "teardownFailed", "exit0"}
        PROVE  \A u \in AllUsers' : CanPay(u)'
    <3>1. CASE pc \in {"act", "run", "expect", "teardown", "teardownFailed"}
      BY <1>1, <3>1 DEF IInv, OneNode, AllUsers, CanPay
    <3>2. CASE pc = "settle" /\ flying \cup pooled = {}
      <4>1. node = 1
        BY <3>2 DEF IInv, AtNode
      <4>2. \A u \in 0 .. Threads - 1 : CanPay(<<0, u>>)
        BY <3>2, <4>1 DEF IInv, OneNode, Supplied
      <4>3. ASSUME NEW u \in AllUsers
            PROVE  u = <<0, u[2]>> /\ u[2] \in 0 .. Threads - 1
        <5>1. u \in (0 .. nodes - 1) \X (0 .. Threads - 1)
          BY DEF AllUsers
        <5>2. u = <<u[1], u[2]>> /\ u[1] \in 0 .. nodes - 1 /\ u[2] \in 0 .. Threads - 1
          BY <5>1
        <5>3. u[1] = 0
          BY <5>2
        <5> QED
          BY <5>2, <5>3
      <4> QED
        BY <1>1, <4>2, <4>3 DEF AllUsers, CanPay
    <3> QED
      BY <2>5, <3>1, <3>2
  <2> QED
    BY <2>1, <2>2, <2>3, <2>4, <2>5 DEF OneNode
<1> QED
  BY <1>2, <1>3, <1>4, <1>5, <1>6 DEF IInv

\* A step before the threads have ended promises nothing about them.
LEMMA EarlyPassing ==
  ASSUME IInv, UNCHANGED <<arguments, threw>>,
         pc' \notin {"expect", "teardown", "teardownFailed", "exit0"}
  PROVE  Passing'
  BY DEF IInv, Passing, arguments

LEMMA ArrangeInv ==
  ASSUME IInv, ServeNonce \/ AskTokenId \/ Prepared
  PROVE  IInv'
<1>1. /\ UNCHANGED <<arguments, minting, trackers, threw>> /\ pc = "arrange"
      /\ pc' \in {"arrange", "tokenId", "nonce", "exit1"}
  BY DEF ServeNonce, AskTokenId, Prepared
<1>2. executed' \in Nat /\ ipcNonce' \in Nat /\ batches' \in 0 .. 4
  <2>1. executed \in Nat /\ ipcNonce \in Nat /\ batches \in 0 .. 4
    BY DEF IInv, TypeOK
  <2>2. CASE ServeNonce
    <3>1. batches > 0 /\ ipcNonce' = ipcNonce + 1
      BY <2>2 DEF ServeNonce
    <3>2. batches' \in {batches, batches - 1} /\ executed' \in {executed, executed + 1}
      BY <2>2 DEF ServeNonce
    <3> QED
      BY <2>1, <3>1, <3>2
  <2>3. CASE AskTokenId \/ Prepared
    BY <2>1, <2>3 DEF AskTokenId, Prepared
  <2> QED
    BY <2>2, <2>3
<1>3. threw' \in BOOLEAN
  BY <1>1 DEF IInv, TypeOK
<1>4. Passing'
  BY <1>1, EarlyPassing
<1> QED
  BY <1>1, <1>2, <1>3, <1>4, MoveInv DEF Exits

LEMMA SettledInv ==
  ASSUME IInv, MintsSettled \/ Act
  PROVE  IInv'
<1>1. /\ UNCHANGED <<arguments, executed, ipcNonce, batches, minting, trackers, threw>>
      /\ (pc = "settle" /\ flying \cup pooled = {}) \/ pc = "act"
      /\ pc' \in {"act", "run", "exit1"}
  BY DEF MintsSettled, Act
<1>2. executed' \in Nat /\ ipcNonce' \in Nat /\ batches' \in 0 .. 4 /\ threw' \in BOOLEAN
  BY <1>1 DEF IInv, TypeOK
<1>3. Passing'
  BY <1>1, EarlyPassing
<1> QED
  BY <1>1, <1>2, <1>3, MoveInv DEF Exits

LEMMA ThreadsEndInv ==
  ASSUME IInv, ThreadsEnd
  PROVE  IInv'
<1>1. /\ UNCHANGED <<arguments, executed, ipcNonce, batches, minting, trackers, threw>>
      /\ pc = "run" /\ pc' \in {"expect", "exit1"}
      /\ pc' = "expect" => \A u \in Signers : CanPay(u)
  BY DEF ThreadsEnd
<1>2. executed' \in Nat /\ ipcNonce' \in Nat /\ batches' \in 0 .. 4 /\ threw' \in BOOLEAN
  BY <1>1 DEF IInv, TypeOK
<1>3. Passing'
  BY <1>1 DEF IInv, Passing, Signers, CanPay, arguments, minting
<1> QED
  BY <1>1, <1>2, <1>3, MoveInv DEF Exits

\* The quantiles are of more results than are ignored, or the run fails.
LEMMA ExpectInv ==
  ASSUME IInv, Expect
  PROVE  IInv'
<1>1. /\ UNCHANGED <<arguments, executed, ipcNonce, batches, minting, trackers>>
      /\ pc = "expect" /\ pc' \in {"teardown", "teardownFailed", "exit1"}
  BY DEF Expect
<1>2. executed' \in Nat /\ ipcNonce' \in Nat /\ batches' \in 0 .. 4 /\ threw' \in BOOLEAN
  BY <1>1 DEF IInv, TypeOK, Expect
<1>3. \A t \in Trackers : trackers[t].count \in Nat /\ trackers[t].count > duration
  BY NumberTypes DEF IInv, Measured, Expect
<1>4. Passing'
  <2>1. \A u \in Signers : CanPay(u)
    BY <1>1 DEF IInv, Passing
  <2>2. CASE \E t \in Trackers : trackers[t].count <= Ignored
    <3>1. pc' = "exit1"
      BY <2>2 DEF Expect
    <3>2. duration < Ignored
      BY <1>3, <2>2, NumberTypes DEF Ignored, IInv
    <3> QED
      BY <1>1, <3>1, <3>2 DEF Passing, arguments, Ignored
  <2>3. CASE ~ \E t \in Trackers : trackers[t].count <= Ignored
    <3>1. \A t \in Trackers : trackers[t].count > Ignored
      BY <1>3, <2>3 DEF Ignored
    <3>2. threw' = threw
      BY <2>3 DEF Expect
    <3> QED
      BY <1>1, <1>3, <2>1, <3>1, <3>2 DEF IInv, Passing, arguments, minting, Signers, CanPay, Ignored
  <2> QED
    BY <2>2, <2>3
<1> QED
  BY <1>1, <1>2, <1>4, MoveInv DEF Exits

LEMMA TeardownInv ==
  ASSUME IInv, Teardown
  PROVE  IInv'
<1>1. /\ UNCHANGED <<arguments, executed, ipcNonce, batches, minting, trackers, threw>>
      /\ pc \in {"teardown", "teardownFailed"} /\ pc' \in {"exit0", "exit1"}
  BY DEF Teardown
<1>2. executed' \in Nat /\ ipcNonce' \in Nat /\ batches' \in 0 .. 4 /\ threw' \in BOOLEAN
  BY <1>1 DEF IInv, TypeOK
<1>3. Passing'
  BY <1>1 DEF IInv, Passing, Signers, CanPay, arguments, minting, Ignored
<1> QED
  BY <1>1, <1>2, <1>3, MoveInv DEF Exits

-----------------------------------------------------------------------------
\* minting

LEMMA ReadNonceInv ==
  ASSUME IInv, ReadSudoNonce
  PROVE  IInv'
<1>1. /\ UNCHANGED <<item, nodes, duration, executed, ipcNonce, batches, node, flying, pooled,
                    lost, funded, trackers, threw>>
      /\ pc = "nonce" /\ pc' = "users" /\ user' = 0
      /\ sudoNonce' \in executed .. executed + Cardinality(pooled)
  BY DEF ReadSudoNonce, arguments
<1>2. sudoNonce' \in Nat /\ executed <= sudoNonce'
  BY <1>1, NumberTypes DEF IInv
<1>3. 0 \in 0 .. Threads - 1
  BY ArgsAssumption
<1>4. TypeOK'
  BY <1>1, <1>2, <1>3 DEF IInv, TypeOK, Mints
<1>5. AtNode'
  BY <1>1 DEF IInv, AtNode
<1>6. Issued'
  BY <1>1 DEF IInv, Issued
<1>7. Measured'
  BY <1>1 DEF IInv, Measured
<1>8. Passing'
  BY <1>1 DEF IInv, Passing
<1>9. OneNode'
  <2> SUFFICES ASSUME nodes = 1
               PROVE  OneNode'
    BY <1>1 DEF OneNode
  <2>1. flying = {} /\ pooled = {} /\ lost = {} /\ node = 0
    BY <1>1, NothingMinted
  <2>2. \A u \in 0 .. Threads - 1 : ~ (u < user')
    BY <1>1
  <2> QED
    BY <1>1, <1>2, <2>1, <2>2 DEF OneNode
<1> QED
  BY <1>4, <1>5, <1>6, <1>7, <1>8, <1>9 DEF IInv

\* The mints for the user whose turn it is.
NewMints ==
  {[node |-> node, user |-> user, asset |-> a, nonce |-> sudoNonce + a - 1] :
     a \in 1 .. AssetsOf(item)}

\* They are new, and their nonces go on from sudoNonce.
LEMMA NewMintsType ==
  ASSUME IInv, pc = "users"
  PROVE  /\ NewMints \subseteq Mints
         /\ NewMints \cap (flying \cup pooled \cup lost) = {}
         /\ \A m \in NewMints : /\ m.node = node /\ m.user = user
                                /\ sudoNonce <= m.nonce /\ m.nonce < sudoNonce + AssetsOf(item)
         /\ \A m, o \in NewMints : m.nonce = o.nonce => m = o
         /\ \E m \in NewMints : m.node = node /\ m.user = user /\ m.asset = Native
<1>1. /\ AssetsOf(item) \in Nat /\ AssetsOf(item) >= 1
      /\ node \in Nat /\ nodes \in Nat /\ node < nodes /\ user \in Nat /\ Threads \in Nat
      /\ user < Threads /\ sudoNonce \in Nat
  BY AssetsOfType, NumberTypes DEF IInv, AtNode
<1>2. ASSUME NEW m \in NewMints
      PROVE  /\ m.node = node /\ m.user = user /\ m.asset \in 1 .. AssetsOf(item)
             /\ m.nonce = sudoNonce + m.asset - 1
             /\ m = [node |-> node, user |-> user, asset |-> m.asset,
                     nonce |-> sudoNonce + m.asset - 1]
  <2>1. PICK a \in 1 .. AssetsOf(item) :
          m = [node |-> node, user |-> user, asset |-> a, nonce |-> sudoNonce + a - 1]
    BY DEF NewMints
  <2> QED
    BY <2>1
<1>3. ASSUME NEW m \in NewMints
      PROVE  m \in Mints
  <2>1. node \in 0 .. nodes - 1 /\ user \in 0 .. Threads - 1 /\ sudoNonce + m.asset - 1 \in Nat
    BY <1>1, <1>2
  <2> QED
    BY <1>2, <2>1 DEF Mints
<1>4. ASSUME NEW m \in NewMints, m \in flying \cup pooled \cup lost
      PROVE  FALSE
  <2>1. m.node < node \/ m.user < user
    BY <1>4 DEF IInv, Issued
  <2> QED
    BY <1>1, <1>2, <2>1
<1>5. ASSUME NEW m \in NewMints
      PROVE  sudoNonce <= m.nonce /\ m.nonce < sudoNonce + AssetsOf(item)
  BY <1>1, <1>2
<1>6. ASSUME NEW m \in NewMints, NEW o \in NewMints, m.nonce = o.nonce
      PROVE  m = o
  <2>1. m.asset = o.asset
    BY <1>1, <1>2, <1>6
  <2> QED
    BY <1>2, <2>1
<1>7. \E m \in NewMints : m.node = node /\ m.user = user /\ m.asset = Native
  <2> DEFINE m == [node |-> node, user |-> user, asset |-> 1, nonce |-> sudoNonce + 1 - 1]
  <2>1. m \in NewMints
    BY <1>1 DEF NewMints
  <2>2. m.node = node /\ m.user = user /\ m.asset = Native
    BY DEF Native
  <2> QED
    BY <2>1, <2>2
<1> QED
  BY <1>2, <1>3, <1>4, <1>5, <1>6, <1>7

LEMMA MintInv ==
  ASSUME IInv, MintToUser
  PROVE  IInv'
<1>1. /\ UNCHANGED <<item, nodes, duration, executed, ipcNonce, batches, pooled, lost, funded,
                    trackers, threw>>
      /\ pc = "users"
      /\ flying' = flying \cup NewMints
      /\ sudoNonce' = sudoNonce + AssetsOf(item)
  BY DEF MintToUser, NewMints, arguments
<1>2. /\ nodes \in Nat /\ Threads \in Nat /\ node \in Nat /\ user \in Nat /\ node < nodes
      /\ user < Threads /\ sudoNonce \in Nat /\ AssetsOf(item) \in Nat /\ executed \in Nat
  BY <1>1, AssetsOfType, NumberTypes DEF IInv, AtNode
<1>3. \/ /\ user + 1 < Threads
         /\ user' = user + 1 /\ node' = node /\ pc' = "users"
      \/ /\ ~ (user + 1 < Threads)
         /\ node' = node + 1 /\ user' = user
         /\ pc' = IF node + 1 < nodes THEN "nonce" ELSE "settle"
  BY <1>1 DEF MintToUser
<1>4. TypeOK'
  <2>1. \A m \in flying' \cup pooled' \cup lost' : m \in Mints
    BY <1>1, NewMintsType DEF IInv, TypeOK
  <2>2. Mints' = Mints
    BY <1>1 DEF Mints
  <2>3. flying' \cap pooled' = {} /\ pooled' \cap lost' = {} /\ lost' \cap flying' = {}
    BY <1>1, NewMintsType DEF IInv, TypeOK
  <2>4. node' \in 0 .. nodes /\ user' \in 0 .. Threads - 1 /\ sudoNonce' \in Nat
    BY <1>1, <1>2, <1>3
  <2>5. pc' \in {"nonce", "users", "settle"}
    BY <1>3
  <2> QED
    BY <1>1, <2>1, <2>2, <2>3, <2>4, <2>5 DEF IInv, TypeOK
<1>5. AtNode'
  BY <1>1, <1>2, <1>3 DEF AtNode
<1>6. Issued'
  <2> SUFFICES ASSUME NEW m \in flying' \cup pooled' \cup lost'
               PROVE  m.node < node' \/ (pc' = "users" /\ m.node = node' /\ m.user < user')
    BY DEF Issued
  <2>1. CASE m \in NewMints
    <3>1. m.node = node /\ m.user = user
      BY <1>1, <2>1, NewMintsType
    <3> QED
      BY <1>2, <1>3, <3>1
  <2>2. CASE m \in flying \cup pooled \cup lost
    <3>1. m.node < node \/ (m.node = node /\ m.user < user)
      BY <2>2 DEF IInv, Issued
    <3>2. m.node \in Nat /\ m.user \in Nat
      BY <2>2, <1>2, NumberTypes DEF IInv
    <3> QED
      BY <1>2, <1>3, <3>1, <3>2
  <2> QED
    BY <1>1, <2>1, <2>2
<1>7. Measured'
  BY <1>1 DEF IInv, Measured
<1>8. Passing'
  BY <1>1, <1>3 DEF IInv, Passing
<1>9. OneNode'
  <2> SUFFICES ASSUME nodes = 1
               PROVE  OneNode'
    BY <1>1 DEF OneNode
  <2>0. node = 0
    BY <1>2
  <2>1. lost' = {} /\ pc' \in {"users", "settle"}
    BY <1>1, <1>2, <1>3 DEF IInv, OneNode
  <2>2. ASSUME NEW m \in flying \cup pooled
        PROVE  executed <= m.nonce /\ m.nonce < sudoNonce /\ m.nonce \in Nat
    BY NumberTypes DEF IInv, OneNode
  <2>3. ASSUME NEW m \in NewMints
        PROVE  sudoNonce <= m.nonce /\ m.nonce < sudoNonce' /\ m.nonce \in Nat
    <3>1. m \in Mints
      BY <1>1, NewMintsType
    <3>2. m.nonce \in Nat
      BY <3>1 DEF Mints
    <3> QED
      BY <1>1, <3>2, NewMintsType
  <2>4. executed <= sudoNonce
    BY <1>1 DEF IInv, OneNode
  <2>5. \A m, o \in flying' \cup pooled' : m.nonce = o.nonce => m = o
    <3> SUFFICES ASSUME NEW m \in flying' \cup pooled', NEW o \in flying' \cup pooled',
                        m.nonce = o.nonce
                 PROVE  m = o
      OBVIOUS
    <3>1. CASE m \in NewMints /\ o \in NewMints
      BY <1>1, <3>1, NewMintsType
    <3>2. CASE m \in flying \cup pooled /\ o \in flying \cup pooled
      BY <3>2 DEF IInv, OneNode
    <3>3. CASE m \in NewMints /\ o \in flying \cup pooled
      BY <1>2, <2>2, <2>3, <3>3
    <3>4. CASE o \in NewMints /\ m \in flying \cup pooled
      BY <1>2, <2>2, <2>3, <3>4
    <3> QED
      BY <1>1, <3>1, <3>2, <3>3, <3>4
  <2>6. ASSUME NEW m \in flying' \cup pooled'
        PROVE  executed' <= m.nonce /\ m.nonce < sudoNonce'
    <3>1. CASE m \in NewMints
      BY <1>1, <1>2, <2>3, <2>4, <3>1
    <3>2. CASE m \in flying \cup pooled
      BY <1>1, <1>2, <2>2, <3>2
    <3> QED
      BY <1>1, <3>1, <3>2
  <2>7. executed' <= sudoNonce'
    BY <1>1, <1>2, <2>4
  <2>8. ASSUME NEW u \in 0 .. Threads - 1, node' = 1 \/ (pc' = "users" /\ u < user')
        PROVE  Supplied(u)'
    <3>1. u < user \/ u = user
      BY <1>2, <1>3, <2>8, <2>0
    <3>2. CASE u < user
      BY <1>1, <3>2 DEF IInv, OneNode, Supplied, CanPay
    <3>3. CASE u = user
      <4>1. \E m \in NewMints : m.node = 0 /\ m.user = u /\ m.asset = Native
        BY <1>1, <2>0, <3>3, NewMintsType
      <4> QED
        BY <1>1, <4>1 DEF Supplied, Native
    <3> QED
      BY <3>1, <3>2, <3>3
  <2> QED
    BY <2>1, <2>5, <2>6, <2>7, <2>8 DEF OneNode
<1> QED
  BY <1>4, <1>5, <1>6, <1>7, <1>8, <1>9 DEF IInv

-----------------------------------------------------------------------------
\* the chain

LEMMA ArriveInv ==
  ASSUME IInv, NEW m \in flying, Arrive(m)
  PROVE  IInv'
<1>1. /\ UNCHANGED <<item, nodes, duration, pc, executed, ipcNonce, batches, node, user,
                    sudoNonce, funded, trackers, threw>>
      /\ flying' = flying \ {m}
      /\ \/ lost' = lost \cup {m} /\ pooled' = pooled
         \/ pooled' = pooled \cup {m} /\ lost' = lost
  BY DEF Arrive, arguments
<1>2. TypeOK'
  <2>1. \A o \in flying' \cup pooled' \cup lost' : o \in Mints
    BY <1>1 DEF IInv, TypeOK
  <2>2. Mints' = Mints
    BY <1>1 DEF Mints
  <2>3. flying' \cap pooled' = {} /\ pooled' \cap lost' = {} /\ lost' \cap flying' = {}
    BY <1>1 DEF IInv, TypeOK
  <2> QED
    BY <1>1, <2>1, <2>2, <2>3 DEF IInv, TypeOK
<1>3. AtNode' /\ Measured'
  BY <1>1 DEF IInv, AtNode, Measured
<1>4. Issued'
  BY <1>1 DEF IInv, Issued
<1>5. Passing'
  BY <1>1 DEF IInv, Passing, Signers, CanPay
<1>6. OneNode'
  <2> SUFFICES ASSUME nodes = 1
               PROVE  OneNode'
    BY <1>1 DEF OneNode
  <2>1. executed <= m.nonce /\ m.nonce \in Nat /\ executed \in Nat
    BY NumberTypes DEF IInv, OneNode
  <2>2. \A o \in pooled : o.nonce # m.nonce
    BY DEF IInv, OneNode, TypeOK
  <2>3. pooled' = pooled \cup {m} /\ lost' = lost
    BY <2>1, <2>2 DEF Arrive
  <2>4. flying' \cup pooled' = flying \cup pooled
    BY <1>1, <2>3
  <2> QED
    BY <1>1, <2>3, <2>4 DEF IInv, OneNode, Supplied, CanPay, AllUsers
<1> QED
  BY <1>2, <1>3, <1>4, <1>5, <1>6 DEF IInv

LEMMA ExecuteInv ==
  ASSUME IInv, NEW m \in pooled, Execute(m)
  PROVE  IInv'
<1>1. /\ UNCHANGED <<item, nodes, duration, pc, ipcNonce, batches, node, user, sudoNonce,
                    flying, lost, trackers, threw>>
      /\ m.nonce = executed /\ executed' = executed + 1 /\ pooled' = pooled \ {m}
      /\ funded' = funded \cup {<<m.node, m.user, m.asset>>}
  BY DEF Execute, arguments
<1>2. TypeOK'
  <2>1. m \in Mints
    BY DEF IInv, TypeOK
  <2>2. <<m.node, m.user, m.asset>> \in (0 .. nodes - 1) \X (0 .. Threads - 1) \X (1 .. AssetsOf(item))
    BY <2>1 DEF Mints
  <2>3. \A o \in flying' \cup pooled' \cup lost' : o \in Mints
    BY <1>1 DEF IInv, TypeOK
  <2>4. Mints' = Mints /\ executed' \in Nat
    BY <1>1 DEF Mints, IInv, TypeOK
  <2>5. flying' \cap pooled' = {} /\ pooled' \cap lost' = {} /\ lost' \cap flying' = {}
    BY <1>1 DEF IInv, TypeOK
  <2> QED
    BY <1>1, <2>2, <2>3, <2>4, <2>5 DEF IInv, TypeOK
<1>3. AtNode' /\ Measured'
  BY <1>1 DEF IInv, AtNode, Measured
<1>4. Issued'
  BY <1>1 DEF IInv, Issued
<1>5. Passing'
  BY <1>1 DEF IInv, Passing, Signers, CanPay
<1>6. OneNode'
  <2> SUFFICES ASSUME nodes = 1
               PROVE  OneNode'
    BY <1>1 DEF OneNode
  <2>1. executed \in Nat /\ sudoNonce \in Nat /\ executed < sudoNonce
    BY <1>1, NumberTypes DEF IInv, OneNode
  <2>2. ASSUME NEW o \in flying' \cup pooled'
        PROVE  executed' <= o.nonce /\ o.nonce < sudoNonce
    <3>1. o \in flying \cup pooled /\ o # m
      BY <1>1 DEF IInv, TypeOK
    <3>2. o.nonce # executed /\ executed <= o.nonce /\ o.nonce < sudoNonce /\ o.nonce \in Nat
      BY <1>1, <3>1, NumberTypes DEF IInv, OneNode
    <3> QED
      BY <1>1, <2>1, <3>2
  <2>3. \A o, q \in flying' \cup pooled' : o.nonce = q.nonce => o = q
    BY <1>1 DEF IInv, OneNode
  <2>4. executed' <= sudoNonce
    BY <1>1, <2>1
  <2>5. ASSUME NEW u \in 0 .. Threads - 1, Supplied(u)
        PROVE  Supplied(u)'
    <3>1. CASE CanPay(<<0, u>>)
      BY <1>1, <3>1 DEF Supplied, CanPay
    <3>2. CASE m.node = 0 /\ m.user = u /\ m.asset = Native
      BY <1>1, <3>2 DEF Supplied, CanPay, Native
    <3>3. CASE \E o \in (flying \cup pooled) \ {m} : o.node = 0 /\ o.user = u /\ o.asset = Native
      BY <1>1, <3>3 DEF Supplied, Native
    <3> QED
      BY <2>5, <3>1, <3>2, <3>3 DEF Supplied
  <2>6. \A u : CanPay(u) => CanPay(u)'
    BY <1>1 DEF CanPay, Native
  <2> QED
    BY <1>1, <2>2, <2>3, <2>4, <2>5, <2>6 DEF IInv, OneNode, AllUsers
<1> QED
  BY <1>2, <1>3, <1>4, <1>5, <1>6 DEF IInv

-----------------------------------------------------------------------------
\* the trackers

\* What a step of the trackers leaves alone.
LEMMA TrackersOnly ==
  ASSUME IInv, UNCHANGED <<arguments, pc, executed, ipcNonce, batches, minting, threw>>,
         trackers' \in [Trackers -> [count : 0 .. duration + 1 + MaxActive,
                                     running : 0 .. MaxActive, resolved : BOOLEAN]],
         \A t \in Trackers : trackers'[t].count \in Nat /\ trackers'[t].count >= trackers[t].count,
         Measured'
  PROVE  IInv'
<1>1. UNCHANGED <<item, nodes, duration, node, user, sudoNonce, flying, pooled, lost, funded>>
  BY DEF arguments, minting
<1>2. TypeOK'
  BY <1>1 DEF IInv, TypeOK, Mints
<1>3. AtNode' /\ Issued'
  BY <1>1 DEF IInv, AtNode, Issued
<1>4. OneNode'
  BY <1>1 DEF IInv, OneNode, Supplied, CanPay, AllUsers
<1>5. Passing'
  <2>1. ASSUME NEW t \in Trackers, trackers[t].count > duration /\ trackers[t].count > Ignored
        PROVE  trackers'[t].count > duration /\ trackers'[t].count > Ignored
    BY <2>1, NumberTypes DEF IInv, Ignored
  <2> QED
    BY <1>1, <2>1 DEF IInv, Passing, Signers, CanPay
<1> QED
  BY <1>2, <1>3, <1>4, <1>5 DEF IInv

LEMMA NewHeadInv ==
  ASSUME IInv, NewHead
  PROVE  IInv'
<1>1. UNCHANGED <<arguments, pc, executed, ipcNonce, batches, minting, threw>> /\ duration' = duration
  BY DEF NewHead, arguments
<1>2. ASSUME NEW t \in Trackers
      PROVE  /\ trackers[t] \in [count : 0 .. duration + 1 + MaxActive,
                                 running : 0 .. MaxActive, resolved : BOOLEAN]
             /\ trackers'[t] = IF trackers[t].resolved THEN trackers[t]
                               ELSE [trackers[t] EXCEPT !.running = @ + 1]
             /\ ~ trackers[t].resolved => trackers[t].running < MaxActive
  BY DEF NewHead, IInv, TypeOK
<1>3. ASSUME NEW t \in Trackers
      PROVE  /\ trackers'[t] \in [count : 0 .. duration + 1 + MaxActive,
                                  running : 0 .. MaxActive, resolved : BOOLEAN]
             /\ trackers'[t].count = trackers[t].count
             /\ trackers'[t].resolved = trackers[t].resolved
             /\ trackers[t].resolved => trackers'[t] = trackers[t]
  <2>1. CASE trackers[t].resolved
    <3>1. trackers'[t] = trackers[t]
      BY <1>2, <2>1
    <3> QED
      BY <1>2, <3>1
  <2>2. CASE ~ trackers[t].resolved
    <3>1. trackers[t].running + 1 \in 0 .. MaxActive
      <4>1. trackers[t].running \in Nat /\ MaxActive \in Nat
        BY NumberTypes DEF IInv
      <4>2. trackers[t].running < MaxActive
        BY <1>2, <2>2
      <4> QED
        BY <4>1, <4>2
    <3>2. trackers'[t] = [trackers[t] EXCEPT !.running = trackers[t].running + 1]
      BY <1>2, <2>2
    <3> QED
      BY <1>2, <2>2, <3>1, <3>2
  <2> QED
    BY <2>1, <2>2
<1>4. trackers' \in [Trackers -> [count : 0 .. duration + 1 + MaxActive,
                                  running : 0 .. MaxActive, resolved : BOOLEAN]]
  BY <1>3 DEF NewHead
<1>5. \A t \in Trackers : trackers'[t].count \in Nat /\ trackers'[t].count >= trackers[t].count
  BY <1>3, NumberTypes DEF IInv
<1>6. Measured'
  BY <1>1, <1>3 DEF IInv, Measured
<1> QED
  BY <1>1, <1>4, <1>5, <1>6, TrackersOnly

LEMMA MeasureInv ==
  ASSUME IInv, NEW t \in Trackers, Measure(t)
  PROVE  IInv'
<1> DEFINE old == trackers[t]
           new == [count |-> IF duration = NaN THEN old.count ELSE old.count + 1,
                   running |-> old.running - 1,
                   resolved |-> old.resolved \/ (duration # NaN /\ old.count + 1 > duration)]
           more == IF duration = NaN THEN 0 ELSE 1
<1>1. UNCHANGED <<arguments, pc, executed, ipcNonce, batches, minting, threw>> /\ duration' = duration
  BY DEF Measure, arguments
<1>2. /\ trackers \in [Trackers -> [count : 0 .. duration + 1 + MaxActive,
                                    running : 0 .. MaxActive, resolved : BOOLEAN]]
      /\ old.running > 0
      /\ trackers' = [trackers EXCEPT ![t] = new]
  BY DEF Measure, IInv, TypeOK
<1>3. trackers'[t] = new /\ \A s \in Trackers : s # t => trackers'[s] = trackers[s]
  BY <1>2
<1>4. /\ old.count \in Nat /\ old.running \in Nat /\ old.running <= MaxActive
      /\ old.resolved \in BOOLEAN /\ duration \in Nat /\ MaxActive \in Nat
  BY NumberTypes DEF IInv
<1>5. IF old.resolved THEN old.count > duration /\ old.count + old.running <= duration + MaxActive
      ELSE old.count <= duration
  BY DEF IInv, Measured
<1>6. /\ new.count = old.count + more /\ new.running = old.running - 1
      /\ new.resolved = (old.resolved \/ (duration # NaN /\ old.count + 1 > duration))
  <2>1. new.count = old.count + more
    BY <1>4
  <2>2. /\ new.running = old.running - 1
        /\ new.resolved = (old.resolved \/ (duration # NaN /\ old.count + 1 > duration))
    BY Zenon
  <2> QED
    BY <2>1, <2>2, Zenon
<1> HIDE DEF old, new
<1>7. new.resolved \in BOOLEAN
  BY <1>6, Zenon
<1>14. more \in {0, 1} /\ (duration # NaN => more = 1)
  OBVIOUS
<1> HIDE DEF more
<1>8. IF new.resolved THEN new.count > duration /\ new.count + new.running <= duration + MaxActive
      ELSE new.count <= duration
  <2>1. CASE old.resolved
    <3>1. new.resolved
      BY <1>6, <2>1, Zenon
    <3>2. new.count > duration /\ new.count + new.running <= duration + MaxActive
      BY <1>4, <1>5, <1>6, <1>14, <2>1
    <3> QED
      BY <3>1, <3>2
  <2>2. CASE duration # NaN /\ ~ old.resolved /\ old.count + 1 > duration
    <3>1. new.resolved
      BY <1>6, <2>2, Zenon
    <3>2. new.count > duration /\ new.count + new.running <= duration + MaxActive
      BY <1>2, <1>4, <1>5, <1>6, <1>14, <2>2
    <3> QED
      BY <3>1, <3>2
  <2>3. CASE duration # NaN /\ ~ old.resolved /\ ~ (old.count + 1 > duration)
    <3>1. ~ new.resolved
      BY <1>6, <2>3, Zenon
    <3>2. new.count <= duration
      BY <1>4, <1>6, <1>14, <2>3
    <3> QED
      BY <3>1, <3>2
  <2>4. CASE duration = NaN /\ ~ old.resolved
    <3>1. ~ new.resolved
      BY <1>6, <2>4, Zenon
    <3>2. new.count <= duration
      BY <1>4, <1>5, <1>6, <2>4 DEF more
    <3> QED
      BY <3>1, <3>2
  <2> QED
    BY <2>1, <2>2, <2>3, <2>4
<1>9. new.count \in 0 .. duration + 1 + MaxActive /\ new.running \in 0 .. MaxActive
  BY <1>2, <1>4, <1>5, <1>6, <1>14
<1>10. new \in [count : 0 .. duration + 1 + MaxActive, running : 0 .. MaxActive, resolved : BOOLEAN]
  BY <1>7, <1>9 DEF new
<1>11. trackers' \in [Trackers -> [count : 0 .. duration + 1 + MaxActive,
                                   running : 0 .. MaxActive, resolved : BOOLEAN]]
  BY <1>2, <1>10
<1>12. \A s \in Trackers : trackers'[s].count \in Nat /\ trackers'[s].count >= trackers[s].count
  <2>1. trackers'[t].count \in Nat /\ trackers'[t].count >= trackers[t].count
    BY <1>3, <1>4, <1>6, <1>14 DEF old
  <2>2. \A s \in Trackers : trackers[s].count \in Nat
    BY NumberTypes DEF IInv
  <2> QED
    BY <1>3, <2>1, <2>2
<1>13. Measured'
  BY <1>1, <1>3, <1>8 DEF IInv, Measured
<1> QED
  BY <1>1, <1>11, <1>12, <1>13, TrackersOnly

-----------------------------------------------------------------------------

LEMMA StepInv == IInv /\ [Next]_vars => IInv'
<1> SUFFICES ASSUME IInv, [Next]_vars
             PROVE  IInv'
  OBVIOUS
<1>1. CASE ServeNonce \/ AskTokenId \/ Prepared
  BY <1>1, ArrangeInv
<1>2. CASE ReadSudoNonce
  BY <1>2, ReadNonceInv
<1>3. CASE MintToUser
  BY <1>3, MintInv
<1>4. CASE MintsSettled \/ Act
  BY <1>4, SettledInv
<1>5. CASE ThreadsEnd
  BY <1>5, ThreadsEndInv
<1>6. CASE Expect
  BY <1>6, ExpectInv
<1>7. CASE Teardown
  BY <1>7, TeardownInv
<1>8. CASE \E m \in flying : Arrive(m)
  BY <1>8, ArriveInv
<1>9. CASE \E m \in pooled : Execute(m)
  BY <1>9, ExecuteInv
<1>10. CASE NewHead
  BY <1>10, NewHeadInv
<1>11. CASE \E t \in Trackers : Measure(t)
  BY <1>11, MeasureInv
<1>12. CASE UNCHANGED vars
  <2>1. UNCHANGED <<item, nodes, duration, pc, executed, ipcNonce, batches, node, user, sudoNonce,
                    flying, pooled, lost, funded, trackers, threw>>
    BY <1>12 DEF vars, arguments, minting
  <2>2. TypeOK'
    BY <2>1 DEF IInv, TypeOK, Mints
  <2>3. AtNode' /\ Issued' /\ Measured'
    BY <2>1 DEF IInv, AtNode, Issued, Measured
  <2>4. Passing'
    BY <2>1 DEF IInv, Passing, Signers, CanPay
  <2>5. OneNode'
    BY <2>1 DEF IInv, OneNode, Supplied, CanPay, AllUsers
  <2> QED
    BY <2>2, <2>3, <2>4, <2>5 DEF IInv
<1> QED
  BY <1>1, <1>2, <1>3, <1>4, <1>5, <1>6, <1>7, <1>8, <1>9, <1>10, <1>11, <1>12
     DEF Next, Main, Chain

LEMMA InvAlways == Spec => []IInv
  BY InitInv, StepInv, PTL DEF Spec

(***************************************************************************)
(* The state is type correct, no mint is in two places, and no tracker     *)
(* collects more results than its duration and its overlapping callbacks   *)
(* account for.                                                            *)
(***************************************************************************)
THEOREM TypeCorrect == Spec => []TypeOK
<1>1. IInv => TypeOK
  BY DEF IInv
<1> QED
  BY <1>1, InvAlways, PTL

(***************************************************************************)
(* A run that passes had funded signers and full measurements; a quantile  *)
(* has no data only for a duration of up to four blocks; and with one node *)
(* no mint is refused and every user has got its tokens.                   *)
(***************************************************************************)
THEOREM PassedRunsAreReal == Spec => []PassedRunIsReal
<1>1. IInv => PassedRunIsReal
  <2> SUFFICES ASSUME IInv
               PROVE  PassedRunIsReal
    OBVIOUS
  <2>1. lost # {} => nodes > 1
    <3>1. lost # {} => nodes # 1
      BY DEF IInv, OneNode
    <3>2. nodes \in Nat /\ nodes >= 1
      BY NumberTypes DEF IInv
    <3> QED
      BY <3>1, <3>2
  <2> QED
    BY <2>1 DEF IInv, Passing, OneNode, PassedRunIsReal
<1> QED
  BY <1>1, InvAlways, PTL
=============================================================================
