------------------------- MODULE SudoAccountProofs -------------------------
(***************************************************************************)
(* Theorems about SudoAccount, for any number of clients and transactions: *)
(* tickets keep the clients of the sudo account out of each other's way.   *)
(***************************************************************************)
EXTENDS SudoAccount, TLAPS

\* the invariant holds before anything is sent
LEMMA InitInv == Init => IInv
<1> SUFFICES ASSUME Init PROVE IInv
  OBVIOUS
<1>1. TypeOK
  BY ClientAssumption DEF Init, TypeOK, Ticket!TicketInit, Clients, Outcomes, Txs
<1>2. Accepted = {}
  BY DEF Init, Accepted
<1>3. TicketsDistinct /\ TicketsBelow
  BY DEF Init, Ticket!TicketInit, TicketsDistinct, TicketsBelow
<1>4. BusyHold /\ PoolWaits /\ OnlyChainReadersCollide
  BY DEF Init, BusyHold, PoolWaits, OnlyChainReadersCollide, Clients
<1>5. AcceptedHeld /\ InHandUnused
  BY <1>2 DEF AcceptedHeld, InHandUnused
<1>6. AccountCounts /\ FromFirst
  BY ClientAssumption
     DEF Init, AccountCounts, FromFirst, Ticket!TicketInit
<1>7. QED
  BY <1>1, <1>3, <1>4, <1>5, <1>6 DEF IInv

-----------------------------------------------------------------------------
(***************************************************************************)
(* Types.                                                                  *)
(***************************************************************************)

\* a call that ends leaves types right
LEMMA EndType ==
  ASSUME TypeOK, NEW c \in Clients, NEW result \in Outcomes, End(c, result)
  PROVE  /\ pc' \in [Clients -> {"idle", "holding", "pooled", "executed"}]
         /\ outcome' \in [Clients -> Seq(Outcomes)]
<1>1. Append(outcome[c], result) \in Seq(Outcomes)
  BY DEF TypeOK
<1>2. QED
  BY <1>1 DEF End, TypeOK

LEMMA StepType ==
  ASSUME TypeOK, [Next]_vars
  PROVE  TypeOK'
<1>1. ASSUME NEW c \in Ticketed, TakeTicket(c)
      PROVE  TypeOK'
  <2>1. Append(taken[c], next) \in Seq(Nat)
    BY DEF TypeOK
  <2>2. taken' \in [Ticketed -> Seq(Nat)] /\ next' \in Nat
    BY <1>1, <2>1 DEF TakeTicket, Ticket!Take, TypeOK
  <2>3. QED
    BY <1>1, <2>2 DEF TakeTicket, Start, TypeOK, Clients, chain, history
<1>2. ASSUME NEW c \in Ticketed, Lose(c)
      PROVE  TypeOK'
  <2>1. c \in Clients /\ "lost" \in Outcomes
    BY DEF Clients, Outcomes
  <2>2. nonce[c] \in Nat
    BY <2>1 DEF TypeOK
  <2>3. QED
    BY <1>2, <2>1, <2>2, EndType DEF Lose, TypeOK, tickets, chain
<1>3. ASSUME NEW c \in FromChain, ReadNonce(c)
      PROVE  TypeOK'
  BY <1>3 DEF ReadNonce, Start, TypeOK, Clients, tickets, chain, history
<1>4. ASSUME NEW c \in Clients, Submit(c)
      PROVE  TypeOK'
  <2>1. Tx(nonce[c], c) \in Txs
    BY DEF TypeOK, Tx, Txs
  <2>2. QED
    BY <1>4, <2>1 DEF Submit, TypeOK, tickets, history
<1>5. ASSUME NEW c \in Clients, Refuse(c)
      PROVE  TypeOK'
  <2>1. Tx(nonce[c], c) \in Txs /\ "refused" \in Outcomes
    BY DEF TypeOK, Tx, Txs, Outcomes
  <2>2. QED
    BY <1>5, <2>1, EndType DEF Refuse, TypeOK, tickets, chain
<1>6. ASSUME NEW c \in Clients, Execute(c)
      PROVE  TypeOK'
  <2>1. Append(log, c) \in Seq(Clients)
    BY DEF TypeOK
  <2>2. QED
    BY <1>6, <2>1 DEF Execute, TypeOK, tickets, history
<1>7. ASSUME NEW c \in Clients, Finish(c)
      PROVE  TypeOK'
  <2>1. "ok" \in Outcomes
    BY DEF Outcomes
  <2>2. QED
    BY <1>7, <2>1, EndType DEF Finish, TypeOK, tickets, chain, history
<1>8. ASSUME UNCHANGED vars
      PROVE  TypeOK'
  BY <1>8 DEF vars, tickets, chain, history, TypeOK
<1>9. QED
  BY <1>1, <1>2, <1>3, <1>4, <1>5, <1>6, <1>7, <1>8 DEF Next

(***************************************************************************)
(* Type correctness of the clients, the tickets and the account, for any   *)
(* number of clients and transactions.                                     *)
(***************************************************************************)
THEOREM TypeCorrect == Spec => []TypeOK
<1>1. Init => TypeOK
  BY InitInv DEF IInv
<1>2. TypeOK /\ [Next]_vars => TypeOK'
  BY StepType
<1>3. QED
  BY <1>1, <1>2, PTL DEF Spec

-----------------------------------------------------------------------------
(***************************************************************************)
(* What a step does to the tickets and to the accepted transactions.       *)
(***************************************************************************)

\* taking a ticket gives c the number next, and nothing to anybody else
LEMMA TakeGives ==
  ASSUME TypeOK, NEW c \in Ticketed, TakeTicket(c)
  PROVE  /\ taken'[c] = Append(taken[c], next)
         /\ \A d \in Ticketed : d # c => taken'[d] = taken[d]
         /\ next' = next + 1
  BY DEF TypeOK, TakeTicket, Ticket!Take

\* afterwards c holds next, and everybody what he held before
LEMMA TakeHeld ==
  ASSUME TypeOK, NEW c \in Ticketed, TakeTicket(c), NEW d \in Ticketed, NEW n
  PROVE  HasTicket(d, n)' <=> HasTicket(d, n) \/ (d = c /\ n = next)
<1>1. taken[c] \in Seq(Nat) /\ taken[d] \in Seq(Nat) /\ next \in Nat
  BY DEF TypeOK
<1>2. /\ taken'[c] = Append(taken[c], next)
      /\ d # c => taken'[d] = taken[d]
  BY TakeGives
<1>3. /\ DOMAIN taken'[c] = 1 .. Len(taken[c]) + 1
      /\ DOMAIN taken[c] = 1 .. Len(taken[c])
      /\ Len(taken[c]) \in Nat
      /\ \A i \in 1 .. Len(taken[c]) : taken'[c][i] = taken[c][i]
      /\ taken'[c][Len(taken[c]) + 1] = next
  BY <1>1, <1>2
<1>4. n = next => HasTicket(c, n)'
  BY <1>3 DEF HasTicket
<1>5. CASE d = c
  <2>1. HasTicket(c, n) => HasTicket(c, n)'
    BY <1>3 DEF HasTicket
  <2>2. ASSUME NEW i \in DOMAIN taken'[c], taken'[c][i] = n
        PROVE  HasTicket(c, n) \/ n = next
    <3>1. i \in 1 .. Len(taken[c]) \/ i = Len(taken[c]) + 1
      BY <2>2, <1>3
    <3>2. QED
      BY <2>2, <3>1, <1>3 DEF HasTicket
  <2>3. QED
    BY <1>4, <1>5, <2>1, <2>2 DEF HasTicket
<1>6. CASE d # c
  BY <1>2, <1>6 DEF HasTicket
<1>7. QED
  BY <1>5, <1>6

\* a step that leaves pool and log alone accepts nothing
LEMMA AcceptedKept ==
  ASSUME UNCHANGED <<pool, log>>
  PROVE  Accepted' = Accepted
  BY DEF Accepted

\* the pool takes the transaction of c
LEMMA AcceptedGrows ==
  ASSUME NEW c \in Clients, Submit(c)
  PROVE  Accepted' = Accepted \cup {Tx(nonce[c], c)}
  BY DEF Accepted, Submit

\* a transaction goes from the pool to its place in the log
LEMMA AcceptedMoves ==
  ASSUME TypeOK, AccountCounts, NEW c \in Clients, Execute(c)
  PROVE  Accepted' = Accepted
<1> DEFINE n == Len(log)
<1>1. log \in Seq(Clients) /\ n \in Nat /\ DOMAIN log = 1 .. n
  BY DEF TypeOK
<1>2. /\ DOMAIN log' = 1 .. n + 1
      /\ \A i \in 1 .. n : log'[i] = log[i]
      /\ log'[n + 1] = c
  BY <1>1 DEF Execute
<1>3. Tx(First + (n + 1) - 1, c) = Tx(accountNonce, c)
  <2>1. First + (n + 1) - 1 = accountNonce
    BY <1>1, ClientAssumption DEF AccountCounts
  <2>2. QED
    BY <2>1
<1>4. /\ Tx(accountNonce, c) \in pool
      /\ pool' = pool \ {Tx(accountNonce, c)}
  BY DEF Execute
<1>5. ASSUME NEW tx \in Accepted'
      PROVE  tx \in Accepted
  <2>1. CASE tx \in pool'
    BY <2>1, <1>4 DEF Accepted
  <2>2. ASSUME NEW i \in DOMAIN log', tx = Tx(First + i - 1, log'[i])
        PROVE  tx \in Accepted
    <3>1. i \in 1 .. n \/ i = n + 1
      BY <1>1, <1>2
    <3>2. CASE i \in 1 .. n
      BY <3>2, <2>2, <1>1, <1>2 DEF Accepted
    <3>3. CASE i = n + 1
      BY <3>3, <2>2, <1>2, <1>3, <1>4 DEF Accepted
    <3>4. QED
      BY <3>1, <3>2, <3>3
  <2>3. QED
    BY <1>5, <2>1, <2>2 DEF Accepted
<1>6. ASSUME NEW tx \in Accepted
      PROVE  tx \in Accepted'
  <2>1. CASE tx \in pool
    <3>1. CASE tx = Tx(accountNonce, c)
      <4>1. n + 1 \in DOMAIN log'
        BY <1>1, <1>2
      <4>2. QED
        BY <3>1, <4>1, <1>2, <1>3 DEF Accepted
    <3>2. CASE tx # Tx(accountNonce, c)
      BY <2>1, <3>2, <1>4 DEF Accepted
    <3>3. QED
      BY <3>1, <3>2
  <2>2. ASSUME NEW i \in DOMAIN log, tx = Tx(First + i - 1, log[i])
        PROVE  tx \in Accepted'
    <3>1. i \in DOMAIN log' /\ log'[i] = log[i]
      BY <1>1, <1>2
    <3>2. QED
      BY <2>2, <3>1 DEF Accepted
  <2>3. QED
    BY <2>1, <2>2 DEF Accepted
<1>7. QED
  BY <1>5, <1>6

\* the types of what is accepted; what is executed lies below accountNonce
LEMMA AcceptedType ==
  ASSUME TypeOK, AccountCounts, NEW tx \in Accepted
  PROVE  /\ tx.nonce \in Nat /\ tx.by \in Clients
         /\ tx \in pool \/ tx.nonce < accountNonce
<1>1. CASE tx \in pool
  BY <1>1 DEF TypeOK, Txs
<1>2. ASSUME NEW i \in DOMAIN log, tx = Tx(First + i - 1, log[i])
      PROVE  /\ tx.nonce \in Nat /\ tx.by \in Clients
             /\ tx.nonce < accountNonce
  <2>1. i \in 1 .. Len(log) /\ log[i] \in Clients /\ Len(log) \in Nat
    BY <1>2 DEF TypeOK
  <2>2. tx.nonce = First + i - 1 /\ tx.by = log[i]
    BY <1>2 DEF Tx
  <2>3. QED
    BY <2>1, <2>2, ClientAssumption DEF AccountCounts
<1>3. QED
  BY <1>1, <1>2 DEF Accepted

-----------------------------------------------------------------------------
(***************************************************************************)
(* The steps keep the invariant, one lemma per action.                     *)
(***************************************************************************)

\* a number in a client's list was there before, or is the last one of c
LEMMA TakePlaces ==
  ASSUME TypeOK, NEW c \in Ticketed, TakeTicket(c),
         NEW d \in Ticketed, NEW i \in DOMAIN taken'[d]
  PROVE  \/ i \in DOMAIN taken[d] /\ taken'[d][i] = taken[d][i]
         \/ d = c /\ i = Len(taken[c]) + 1 /\ taken'[d][i] = next
<1>1. taken[c] \in Seq(Nat) /\ next \in Nat
  BY DEF TypeOK
<1>2. CASE d = c
  <2>1. taken'[c] = Append(taken[c], next)
    BY TakeGives
  <2>2. i \in 1 .. Len(taken[c]) + 1
    BY <1>1, <1>2, <2>1
  <2>3. QED
    BY <1>1, <1>2, <2>1, <2>2
<1>3. CASE d # c
  BY <1>3, TakeGives
<1>4. QED
  BY <1>2, <1>3

\* nonces start from First
LEMMA StepFromFirst ==
  ASSUME TypeOK, AccountCounts, FromFirst, [Next]_vars
  PROVE  FromFirst'
<1>1. First \in Nat /\ next \in Nat /\ First <= accountNonce
  <2>1. log \in Seq(Clients) /\ Len(log) \in Nat
    BY DEF TypeOK
  <2>2. QED
    BY <2>1, ClientAssumption DEF TypeOK, AccountCounts
<1>2. ASSUME NEW c \in Ticketed, TakeTicket(c)
      PROVE  FromFirst'
  <2>1. next' = next + 1 /\ nonce' = [nonce EXCEPT ![c] = next]
    BY <1>2, TakeGives DEF TakeTicket, Start
  <2>2. QED
    BY <1>1, <2>1 DEF FromFirst, TypeOK
<1>3. ASSUME NEW c \in FromChain, ReadNonce(c)
      PROVE  FromFirst'
  BY <1>1, <1>3 DEF ReadNonce, Start, FromFirst, TypeOK, tickets
<1>4. ASSUME UNCHANGED <<next, nonce>>
      PROVE  FromFirst'
  BY <1>4 DEF FromFirst
<1>5. QED
  BY <1>2, <1>3, <1>4
     DEF Next, Lose, Submit, Refuse, Execute, Finish, vars, tickets

LEMMA TakeTicketInv ==
  ASSUME IInv, NEW c \in Ticketed, TakeTicket(c)
  PROVE  IInv'
<1> USE DEF IInv
<1>1. TypeOK' /\ FromFirst'
  BY StepType, StepFromFirst DEF Next
<1>2. TicketsDistinct'
  <2> SUFFICES ASSUME NEW d \in Ticketed, NEW e \in Ticketed,
                      NEW i \in DOMAIN taken'[d], NEW j \in DOMAIN taken'[e],
                      taken'[d][i] = taken'[e][j]
               PROVE  d = e /\ i = j
    BY DEF TicketsDistinct
  <2>1. \/ i \in DOMAIN taken[d] /\ taken'[d][i] = taken[d][i]
        \/ d = c /\ i = Len(taken[c]) + 1 /\ taken'[d][i] = next
    BY TakePlaces
  <2>2. \/ j \in DOMAIN taken[e] /\ taken'[e][j] = taken[e][j]
        \/ e = c /\ j = Len(taken[c]) + 1 /\ taken'[e][j] = next
    BY TakePlaces
  <2>3. /\ i \in DOMAIN taken[d] => taken[d][i] < next
        /\ j \in DOMAIN taken[e] => taken[e][j] < next
        /\ next \in Nat
    BY DEF TicketsBelow, TypeOK
  <2>4. i \in DOMAIN taken[d] /\ j \in DOMAIN taken[e] /\ taken[d][i] = taken[e][j]
          => d = e /\ i = j
    BY DEF TicketsDistinct
  <2>5. next < next => FALSE
    BY <2>3
  <2>6. QED
    BY <2>1, <2>2, <2>3, <2>4, <2>5
<1>3. TicketsBelow'
  <2> SUFFICES ASSUME NEW d \in Ticketed, NEW i \in DOMAIN taken'[d]
               PROVE  taken'[d][i] < next'
    BY DEF TicketsBelow
  <2>1. next' = next + 1 /\ next \in Nat /\ taken[d] \in Seq(Nat)
    BY TakeGives DEF TypeOK
  <2>2. CASE i \in DOMAIN taken[d] /\ taken'[d][i] = taken[d][i]
    <3>1. taken[d][i] < next
      BY <2>2 DEF TicketsBelow
    <3>2. taken[d][i] \in Nat
      BY <2>1, <2>2
    <3>3. QED
      BY <2>1, <2>2, <3>1, <3>2
  <2>3. CASE taken'[d][i] = next
    BY <2>1, <2>3
  <2>4. QED
    BY <2>2, <2>3, TakePlaces
<1>4. /\ pc' = [pc EXCEPT ![c] = "holding"]
      /\ nonce' = [nonce EXCEPT ![c] = next]
      /\ UNCHANGED <<accountNonce, pool, log, refused>>
      /\ pc[c] = "idle" /\ c \in Clients
  BY DEF TakeTicket, Start, chain, history, Clients
<1>5. BusyHold'
  <2> SUFFICES ASSUME NEW d \in Ticketed, pc'[d] # "idle"
               PROVE  HasTicket(d, nonce[d])'
    BY DEF BusyHold
  <2>1. PICK n : n = nonce'[d]
    OBVIOUS
  <2>2. HasTicket(d, n) \/ (d = c /\ n = next)
    BY <1>4, <2>1 DEF BusyHold, TypeOK, Clients
  <2>3. HasTicket(d, n)'
    BY <2>2, TakeHeld
  <2>4. QED
    BY <2>1, <2>3 DEF HasTicket
<1>6. Accepted' = Accepted
  BY <1>4, AcceptedKept
<1>7. AcceptedHeld'
  <2> SUFFICES ASSUME NEW tx \in Accepted, tx.by \in Ticketed
               PROVE  HasTicket(tx.by, tx.nonce)'
    BY <1>6 DEF AcceptedHeld
  <2>1. HasTicket(tx.by, tx.nonce)
    BY DEF AcceptedHeld
  <2>2. QED
    BY <2>1, TakeHeld
<1>8. InHandUnused'
  <2> SUFFICES ASSUME NEW d \in Clients, pc'[d] = "holding",
                      NEW tx \in Accepted, tx.nonce = nonce'[d], tx.by = d
               PROVE  FALSE
    BY <1>6 DEF InHandUnused
  <2>1. CASE d = c
    <3>1. tx.nonce = next
      BY <1>4, <2>1 DEF TypeOK
    <3>2. HasTicket(c, next)
      BY <2>1, <3>1 DEF AcceptedHeld
    <3>3. next < next
      BY <3>2 DEF HasTicket, TicketsBelow
    <3>4. QED
      BY <3>3 DEF TypeOK
  <2>2. CASE d # c
    BY <1>4, <2>2 DEF InHandUnused, TypeOK
  <2>3. QED
    BY <2>1, <2>2
<1>9. AccountCounts' /\ OnlyChainReadersCollide'
  BY <1>4, <1>6 DEF AccountCounts, OnlyChainReadersCollide
<1>10. PoolWaits'
  BY <1>4 DEF PoolWaits, TypeOK, Txs
<1>11. QED
  BY <1>1, <1>2, <1>3, <1>5, <1>7, <1>8, <1>9, <1>10

\* the steps that take no ticket leave who holds what
LEMMA TicketsKept ==
  ASSUME UNCHANGED tickets, TicketsDistinct, TicketsBelow
  PROVE  /\ TicketsDistinct' /\ TicketsBelow'
         /\ \A d \in Ticketed, n \in Nat : HasTicket(d, n)' <=> HasTicket(d, n)
  BY DEF tickets, TicketsDistinct, TicketsBelow, HasTicket

LEMMA ReadNonceInv ==
  ASSUME IInv, NEW c \in FromChain, ReadNonce(c)
  PROVE  IInv'
<1> USE DEF IInv
<1>1. TypeOK' /\ FromFirst'
  BY StepType, StepFromFirst DEF Next
<1>2. /\ pc' = [pc EXCEPT ![c] = "holding"]
      /\ nonce' = [nonce EXCEPT ![c] = accountNonce]
      /\ UNCHANGED <<tickets, accountNonce, pool, log, refused>>
      /\ pc[c] = "idle" /\ c \in Clients /\ c \notin Ticketed
  BY ClientAssumption DEF ReadNonce, Start, chain, history, Clients
<1>3. Accepted' = Accepted
  BY <1>2, AcceptedKept
<1>4. TicketsDistinct' /\ TicketsBelow'
  BY <1>2, TicketsKept
<1>5. BusyHold' /\ AcceptedHeld'
  BY <1>2, <1>3 DEF BusyHold, AcceptedHeld, HasTicket, tickets, TypeOK, Clients
<1>6. InHandUnused'
  <2> SUFFICES ASSUME NEW d \in Clients, pc'[d] = "holding",
                      NEW tx \in Accepted, tx.nonce = nonce'[d], tx.by = d
               PROVE  FALSE
    BY <1>3 DEF InHandUnused
  <2>1. CASE d = c
    <3>1. tx.nonce = accountNonce /\ accountNonce \in Nat
      BY <1>2, <2>1 DEF TypeOK
    <3>2. tx \in pool
      BY <3>1, AcceptedType
    <3>3. QED
      BY <1>2, <2>1, <3>2 DEF PoolWaits
  <2>2. CASE d # c
    BY <1>2, <2>2 DEF InHandUnused, TypeOK
  <2>3. QED
    BY <2>1, <2>2
<1>7. AccountCounts' /\ OnlyChainReadersCollide'
  BY <1>2, <1>3 DEF AccountCounts, OnlyChainReadersCollide
<1>8. PoolWaits'
  BY <1>2 DEF PoolWaits, TypeOK, Txs
<1>9. QED
  BY <1>1, <1>4, <1>5, <1>6, <1>7, <1>8

\* A call that ends, whatever its result: nothing of its client is in hand or
\* in the pool any more.
LEMMA EndKeeps ==
  ASSUME IInv, NEW c \in Clients, NEW result, End(c, result), pc[c] # "pooled",
         UNCHANGED <<tickets, chain, nonce>>
  PROVE  /\ TicketsDistinct' /\ TicketsBelow' /\ BusyHold' /\ AcceptedHeld'
         /\ InHandUnused' /\ AccountCounts' /\ PoolWaits'
         /\ Accepted' = Accepted
<1> USE DEF IInv
<1>1. /\ pc' = [pc EXCEPT ![c] = "idle"]
      /\ UNCHANGED <<taken, accountNonce, pool, log, nonce>>
  BY DEF End, tickets, chain
<1>2. Accepted' = Accepted
  BY <1>1, AcceptedKept
<1>3. TicketsDistinct' /\ TicketsBelow'
  BY TicketsKept
<1>4. BusyHold' /\ AcceptedHeld'
  BY <1>1, <1>2 DEF BusyHold, AcceptedHeld, HasTicket, TypeOK, Clients
<1>5. InHandUnused'
  BY <1>1, <1>2 DEF InHandUnused, TypeOK
<1>6. AccountCounts' /\ PoolWaits'
  BY <1>1 DEF AccountCounts, PoolWaits, TypeOK, Txs
<1>7. QED
  BY <1>2, <1>3, <1>4, <1>5, <1>6

LEMMA LoseInv ==
  ASSUME IInv, NEW c \in Ticketed, Lose(c)
  PROVE  IInv'
<1>1. TypeOK' /\ FromFirst'
  BY StepType, StepFromFirst DEF Next, IInv
<1>2. /\ c \in Clients /\ pc[c] # "pooled" /\ End(c, "lost")
      /\ UNCHANGED <<tickets, chain, nonce, refused>>
  BY DEF Lose, Clients
<1>3. OnlyChainReadersCollide'
  BY <1>2, EndKeeps DEF OnlyChainReadersCollide, IInv
<1>4. QED
  BY <1>1, <1>2, <1>3, EndKeeps DEF IInv

LEMMA FinishInv ==
  ASSUME IInv, NEW c \in Clients, Finish(c)
  PROVE  IInv'
<1>1. TypeOK' /\ FromFirst'
  BY StepType, StepFromFirst DEF Next, IInv
<1>2. /\ pc[c] # "pooled" /\ End(c, "ok")
      /\ UNCHANGED <<tickets, chain, nonce, refused>>
  BY DEF Finish, history
<1>3. OnlyChainReadersCollide'
  BY <1>2, EndKeeps DEF OnlyChainReadersCollide, IInv
<1>4. QED
  BY <1>1, <1>2, <1>3, EndKeeps DEF IInv

\* a nonce that the pool refuses is that of an accepted transaction
LEMMA RefusableAccepted ==
  ASSUME TypeOK, AccountCounts, NEW n \in Nat, First <= n, Refusable(n)
  PROVE  \E tx \in Accepted : tx.nonce = n
<1>1. CASE \E tx \in pool : tx.nonce = n
  BY <1>1 DEF Accepted
<1>2. CASE n < accountNonce
  <2>1. log \in Seq(Clients) /\ Len(log) \in Nat /\ DOMAIN log = 1 .. Len(log)
    BY DEF TypeOK
  <2> DEFINE i == n - First + 1
  <2>2. i \in DOMAIN log /\ First + i - 1 = n
    BY <1>2, <2>1, ClientAssumption DEF AccountCounts
  <2>3. Tx(First + i - 1, log[i]) \in Accepted
    BY <2>2 DEF Accepted
  <2>4. Tx(First + i - 1, log[i]).nonce = n
    BY <2>2 DEF Tx
  <2>5. QED
    BY <2>3, <2>4
<1>3. QED
  BY <1>1, <1>2 DEF Refusable

\* two ticketed clients never hold the same number
LEMMA HeldByOne ==
  ASSUME TicketsDistinct, NEW c \in Ticketed, NEW d \in Ticketed, NEW n,
         HasTicket(c, n), HasTicket(d, n)
  PROVE  c = d
  BY DEF HasTicket, TicketsDistinct

LEMMA RefuseInv ==
  ASSUME IInv, NEW c \in Clients, Refuse(c)
  PROVE  IInv'
<1> USE DEF IInv
<1>1. TypeOK' /\ FromFirst'
  BY StepType, StepFromFirst DEF Next
<1>2. /\ pc[c] = "holding" /\ End(c, "refused")
      /\ UNCHANGED <<tickets, chain, nonce>>
      /\ refused' = refused \cup {Tx(nonce[c], c)}
      /\ Refusable(nonce[c])
  BY DEF Refuse
<1>3. PICK tx \in Accepted : tx.nonce = nonce[c]
  BY <1>2, RefusableAccepted DEF FromFirst, TypeOK
<1>4. tx.by # c
  BY <1>2, <1>3 DEF InHandUnused
<1>5. tx.by \in FromChain \/ c \in FromChain
  <2>1. SUFFICES ASSUME tx.by \in Ticketed, c \in Ticketed
                 PROVE  FALSE
    BY <1>3, AcceptedType DEF Clients
  <2>2. HasTicket(tx.by, nonce[c]) /\ HasTicket(c, nonce[c])
    BY <1>2, <1>3, <2>1 DEF AcceptedHeld, BusyHold
  <2>3. QED
    BY <1>4, <2>1, <2>2, HeldByOne
<1>6. Accepted' = Accepted
  BY <1>2, EndKeeps
<1>7. OnlyChainReadersCollide'
  <2> SUFFICES ASSUME NEW r \in refused'
               PROVE  \E ax \in Accepted : /\ ax.nonce = r.nonce
                                           /\ ax.by # r.by
                                           /\ ax.by \in FromChain \/ r.by \in FromChain
    BY <1>6 DEF OnlyChainReadersCollide
  <2>1. CASE r \in refused
    BY <2>1 DEF OnlyChainReadersCollide
  <2>2. CASE r = Tx(nonce[c], c)
    <3>1. r.nonce = nonce[c] /\ r.by = c
      BY <2>2 DEF Tx
    <3>2. QED
      BY <3>1, <1>3, <1>4, <1>5
  <2>3. QED
    BY <1>2, <2>1, <2>2
<1>8. QED
  BY <1>1, <1>2, <1>7, EndKeeps

LEMMA SubmitInv ==
  ASSUME IInv, NEW c \in Clients, Submit(c)
  PROVE  IInv'
<1> USE DEF IInv
<1> DEFINE new == Tx(nonce[c], c)
<1>1. TypeOK' /\ FromFirst'
  BY StepType, StepFromFirst DEF Next
<1>2. /\ pc[c] = "holding"
      /\ pc' = [pc EXCEPT ![c] = "pooled"]
      /\ pool' = pool \cup {new}
      /\ UNCHANGED <<tickets, taken, accountNonce, log, nonce, refused>>
  BY DEF Submit, history, tickets
<1>3. Accepted' = Accepted \cup {new}
  BY AcceptedGrows
<1>4. new.nonce = nonce[c] /\ new.by = c
  BY DEF Tx
<1>5. TicketsDistinct' /\ TicketsBelow'
  BY <1>2, TicketsKept
<1>6. BusyHold'
  BY <1>2 DEF BusyHold, HasTicket, TypeOK, Clients
<1>7. AcceptedHeld'
  <2> SUFFICES ASSUME NEW tx \in Accepted', tx.by \in Ticketed
               PROVE  HasTicket(tx.by, tx.nonce)'
    BY DEF AcceptedHeld
  <2>1. HasTicket(tx.by, tx.nonce)
    BY <1>2, <1>3, <1>4 DEF AcceptedHeld, BusyHold
  <2>2. QED
    BY <1>2, <2>1 DEF HasTicket
<1>8. InHandUnused'
  <2> SUFFICES ASSUME NEW d \in Clients, pc'[d] = "holding",
                      NEW tx \in Accepted', tx.nonce = nonce'[d]
               PROVE  tx.by # d
    BY DEF InHandUnused
  <2>1. d # c /\ pc[d] = "holding" /\ nonce'[d] = nonce[d]
    BY <1>2 DEF TypeOK
  <2>2. QED
    BY <2>1, <1>3, <1>4 DEF InHandUnused
<1>9. AccountCounts' /\ OnlyChainReadersCollide'
  BY <1>2, <1>3 DEF AccountCounts, OnlyChainReadersCollide
<1>10. PoolWaits'
  BY <1>2, <1>4 DEF PoolWaits, TypeOK, Txs
<1>11. QED
  BY <1>1, <1>5, <1>6, <1>7, <1>8, <1>9, <1>10

LEMMA ExecuteInv ==
  ASSUME IInv, NEW c \in Clients, Execute(c)
  PROVE  IInv'
<1> USE DEF IInv
<1> DEFINE done == Tx(accountNonce, c)
<1>1. TypeOK' /\ FromFirst'
  BY StepType, StepFromFirst DEF Next
<1>2. /\ done \in pool
      /\ pool' = pool \ {done}
      /\ log' = Append(log, c)
      /\ accountNonce' = accountNonce + 1
      /\ pc' = [pc EXCEPT ![c] = "executed"]
      /\ UNCHANGED <<tickets, taken, nonce, refused>>
  BY DEF Execute, history, tickets
<1>3. Accepted' = Accepted
  BY AcceptedMoves
<1>4. pc[c] = "pooled" /\ nonce[c] = accountNonce
  <2>1. done.nonce = accountNonce /\ done.by = c
    BY DEF Tx
  <2>2. QED
    BY <1>2, <2>1 DEF PoolWaits
<1>5. TicketsDistinct' /\ TicketsBelow'
  BY <1>2, TicketsKept
<1>6. BusyHold'
  BY <1>2, <1>4 DEF BusyHold, HasTicket, TypeOK, Clients
<1>7. AcceptedHeld' /\ OnlyChainReadersCollide'
  BY <1>2, <1>3 DEF AcceptedHeld, HasTicket, OnlyChainReadersCollide
<1>8. InHandUnused'
  BY <1>2, <1>3 DEF InHandUnused, TypeOK
<1>9. AccountCounts'
  <2>1. log \in Seq(Clients) /\ Len(log') = Len(log) + 1
    BY <1>2 DEF TypeOK
  <2>2. QED
    BY <1>2, <2>1, ClientAssumption DEF AccountCounts
<1>10. PoolWaits'
  <2> SUFFICES ASSUME NEW tx \in pool'
               PROVE  pc'[tx.by] = "pooled" /\ nonce'[tx.by] = tx.nonce
    BY DEF PoolWaits
  <2>1. tx \in pool /\ tx \in Txs /\ tx # done
    BY <1>2 DEF TypeOK
  <2>2. pc[tx.by] = "pooled" /\ nonce[tx.by] = tx.nonce
    BY <2>1 DEF PoolWaits
  <2>3. tx.by # c
    <3> SUFFICES ASSUME tx.by = c
                 PROVE  tx = done
      BY <2>1
    <3>1. tx.nonce = accountNonce
      BY <1>4, <2>2
    <3>2. QED
      BY <2>1, <3>1 DEF Tx, Txs
  <2>4. QED
    BY <1>2, <2>1, <2>2, <2>3 DEF TypeOK, Txs
<1>11. QED
  BY <1>1, <1>5, <1>6, <1>7, <1>8, <1>9, <1>10

LEMMA StutterInv ==
  ASSUME IInv, UNCHANGED vars
  PROVE  IInv'
<1> USE DEF IInv, vars, tickets, chain, history
<1>1. Accepted' = Accepted
  BY AcceptedKept
<1>2. TypeOK' /\ FromFirst'
  BY StepType, StepFromFirst
<1>3. TicketsDistinct' /\ TicketsBelow'
  BY TicketsKept
<1>4. BusyHold' /\ AcceptedHeld' /\ InHandUnused'
  BY <1>1 DEF BusyHold, AcceptedHeld, InHandUnused, HasTicket
<1>5. AccountCounts' /\ PoolWaits' /\ OnlyChainReadersCollide'
  BY <1>1 DEF AccountCounts, PoolWaits, OnlyChainReadersCollide
<1>6. QED
  BY <1>2, <1>3, <1>4, <1>5

\* the invariant is inductive
LEMMA StepInv == IInv /\ [Next]_vars => IInv'
  BY TakeTicketInv, ReadNonceInv, LoseInv, FinishInv, RefuseInv, SubmitInv,
     ExecuteInv, StutterInv
     DEF Next

-----------------------------------------------------------------------------
(***************************************************************************)
(* Whatever the number of clients, and although some of them read their    *)
(* nonces from the chain: a ticketed transaction that the chain accepts    *)
(* was signed by the one client that was given its nonce.                  *)
(***************************************************************************)
THEOREM HoldersSign == Spec => []SignedByHolder
<1>1. IInv => SignedByHolder
  <2> SUFFICES ASSUME IInv, NEW tx \in Accepted, tx.by \in Ticketed,
                      NEW c \in Ticketed
               PROVE  HasTicket(c, tx.nonce) <=> c = tx.by
    BY DEF SignedByHolder
  <2>1. HasTicket(tx.by, tx.nonce)
    BY DEF IInv, AcceptedHeld
  <2>2. QED
    BY <2>1, HeldByOne DEF IInv
<1>2. QED
  BY <1>1, InitInv, StepInv, PTL DEF Spec

(***************************************************************************)
(* Every refusal is between two clients of which one at least read its     *)
(* nonce from the chain: signSendAndWaitToFinishTx, or getSudoNonce under  *)
(* --runInBand next to a parallel run.                                     *)
(***************************************************************************)
THEOREM ReadersCollide == Spec => []OnlyChainReadersCollide
<1>1. IInv => OnlyChainReadersCollide
  BY DEF IInv
<1>2. QED
  BY <1>1, InitInv, StepInv, PTL DEF Spec

(***************************************************************************)
(* If all clients ask the IPC server, the pool never refuses one of their  *)
(* transactions, however many they are, in whatever order they submit and  *)
(* whatever tickets get lost.                                              *)
(***************************************************************************)
THEOREM TicketsSuffice == FromChain = {} => (Spec => []NoneRefused)
<1> SUFFICES ASSUME FromChain = {}
             PROVE  Spec => []NoneRefused
  OBVIOUS
<1>1. IInv => NoneRefused
  BY DEF IInv, OnlyChainReadersCollide, NoneRefused
<1>2. QED
  BY <1>1, InitInv, StepInv, PTL DEF Spec
=============================================================================
