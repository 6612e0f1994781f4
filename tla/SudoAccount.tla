---------------------------- MODULE SudoAccount ----------------------------
(***************************************************************************)
(* The sudo account, which every parallel test signs with.                 *)
(*                                                                         *)
(* A client is one control flow that sends sudo transactions one after     *)
(* another: Sudo.batchAsSudoFinalized, SudoUser.mintTokens, mintAsset,     *)
(* BaseUser.sudoBatch, sudoIssueAsset, setAssetInfo, promotePool.  It gets *)
(* a nonce, signs, submits, and waits for the transaction to finish.       *)
(* Ticketed clients get the nonce from the IPC server (SudoDB.getSudoNonce *)
(* in a parallel run), here an atomic take of a TicketCounter, which       *)
(* NonceManager is shown to implement.  FromChain clients read it from the *)
(* chain (signSendAndWaitToFinishTx; getSudoNonce under --runInBand or a   *)
(* debugger).                                                              *)
(*                                                                         *)
(* The chain is external: its pool refuses a nonce that is used up or that *)
(* another pooled transaction has, and blocks execute nonces in order.     *)
(***************************************************************************)
EXTENDS Naturals, Sequences, FiniteSets

CONSTANTS
  Ticketed,   \* clients that ask the IPC server
  FromChain,  \* clients that read the nonce of the account
  MayLose,    \* ticketed clients whose signTx may fail before the pool
  First,      \* the nonce of the account when the tests start
  MaxTxs      \* bound: transactions a client sends

Clients == Ticketed \cup FromChain

ASSUME ClientAssumption ==
  /\ Ticketed \cap FromChain = {}
  /\ MayLose \subseteq Ticketed
  /\ First \in Nat
  /\ MaxTxs \in Nat

VARIABLES
  next,          \* the IPC server's counter
  taken,         \* per ticketed client: the nonces it was given
  accountNonce,  \* chain: nonce of the account in the best block
  pool,          \* chain: transactions that wait, as [nonce, by]
  log,           \* chain: log[i] is who signed nonce First + i - 1
  pc,            \* per client: "idle", "holding", "pooled", "executed"
  nonce,         \* per client: the nonce of the current transaction
  outcome,       \* per client: how its transactions ended
  lost,          \* history: tickets that never reached the pool
  refused        \* history: what the pool refused, as [nonce, by]

Ticket == INSTANCE TicketCounter WITH
  Holders <- Ticketed, First <- {First}, next <- next, taken <- taken

tickets == <<next, taken>>
chain == <<accountNonce, pool, log>>
history == <<lost, refused>>
vars == <<tickets, chain, pc, nonce, outcome, history>>

Tx(n, c) == [nonce |-> n, by |-> c]

Init ==
  /\ Ticket!TicketInit
  /\ accountNonce = First
  /\ pool = {}
  /\ log = <<>>
  /\ pc = [c \in Clients |-> "idle"]
  /\ nonce = [c \in Clients |-> First]
  /\ outcome = [c \in Clients |-> <<>>]
  /\ lost = {}
  /\ refused = {}

-----------------------------------------------------------------------------
\* a client starts its next transaction with nonce n
Start(c, n) ==
  /\ pc[c] = "idle"
  /\ Len(outcome[c]) < MaxTxs
  /\ pc' = [pc EXCEPT ![c] = "holding"]
  /\ nonce' = [nonce EXCEPT ![c] = n]
  /\ UNCHANGED <<chain, outcome, history>>

\* mutant: the server answers with its counter and does not move it
TakeTicketWithoutMoving(c) ==
  /\ Start(c, next)
  /\ taken' = [taken EXCEPT ![c] = Append(@, next)]
  /\ UNCHANGED next

\* mutant: the server moves its counter before and after it answers
TakeTicketMovingTwice(c) ==
  /\ Start(c, next)
  /\ taken' = [taken EXCEPT ![c] = Append(@, next)]
  /\ next' = next + 2

\* await SudoDB.getInstance().getSudoNonce(...)
TakeTicket(c) ==
  /\ Start(c, next)
  /\ Ticket!Take(c)

\* await getCurrentNonce(...) of txHandler.ts: what the best block says, which
\* knows nothing of the pool
ReadNonce(c) ==
  /\ Start(c, accountNonce)
  /\ UNCHANGED tickets

\* the current transaction of c is over, one way or another
End(c, result) ==
  /\ pc' = [pc EXCEPT ![c] = "idle"]
  /\ outcome' = [outcome EXCEPT ![c] = Append(@, result)]

\* signTx fails before the node has the transaction, or the worker dies: the
\* callers that catch the error go on, and nobody gives the ticket back
Lose(c) ==
  /\ c \in MayLose
  /\ pc[c] = "holding"
  /\ End(c, "lost")
  /\ lost' = lost \cup {nonce[c]}
  /\ UNCHANGED <<tickets, chain, nonce, refused>>

Refusable(n) == n < accountNonce \/ \E tx \in pool : tx.nonce = n

\* signTx submits and the pool takes the transaction
Submit(c) ==
  /\ pc[c] = "holding"
  /\ ~ Refusable(nonce[c])
  /\ pool' = pool \cup {Tx(nonce[c], c)}
  /\ pc' = [pc EXCEPT ![c] = "pooled"]
  /\ UNCHANGED <<tickets, accountNonce, log, nonce, outcome, history>>

\* signTx submits and the pool refuses: signTx rejects
Refuse(c) ==
  /\ pc[c] = "holding"
  /\ Refusable(nonce[c])
  /\ End(c, "refused")
  /\ refused' = refused \cup {Tx(nonce[c], c)}
  /\ UNCHANGED <<tickets, chain, nonce, lost>>

\* a block executes the transaction whose turn it is
Execute(c) ==
  /\ Tx(accountNonce, c) \in pool
  /\ pool' = pool \ {Tx(accountNonce, c)}
  /\ log' = Append(log, c)
  /\ accountNonce' = accountNonce + 1
  /\ pc' = [pc EXCEPT ![c] = "executed"]
  /\ UNCHANGED <<tickets, nonce, outcome, history>>

\* mutant: the state of the call is taken for its result
FinishWithState(c) ==
  /\ pc[c] = "executed"
  /\ End(c, pc[c])
  /\ UNCHANGED <<tickets, chain, nonce, history>>

\* the block is finalized and signTx resolves with the events
Finish(c) ==
  /\ pc[c] = "executed"
  /\ End(c, "ok")
  /\ UNCHANGED <<tickets, chain, nonce, history>>

Next ==
  \/ \E c \in Ticketed : TakeTicket(c) \/ Lose(c)
  \/ \E c \in FromChain : ReadNonce(c)
  \/ \E c \in Clients : Submit(c) \/ Refuse(c) \/ Execute(c) \/ Finish(c)

Spec == Init /\ [][Next]_vars

\* A client that has a nonce goes on with it, and the chain makes blocks.
Fairness ==
  \A c \in Clients : /\ WF_vars(Submit(c) \/ Refuse(c) \/ Lose(c))
                     /\ WF_vars(Execute(c))
                     /\ WF_vars(Finish(c))

FairSpec == Spec /\ Fairness

-----------------------------------------------------------------------------
Outcomes == {"ok", "refused", "lost"}
Txs == [nonce : Nat, by : Clients]

\* Every variable has its type.
TypeOK ==
  /\ next \in Nat
  /\ taken \in [Ticketed -> Seq(Nat)]
  /\ accountNonce \in Nat
  /\ pool \in SUBSET Txs
  /\ log \in Seq(Clients)
  /\ pc \in [Clients -> {"idle", "holding", "pooled", "executed"}]
  /\ nonce \in [Clients -> Nat]
  /\ outcome \in [Clients -> Seq(Outcomes)]
  /\ lost \in SUBSET Nat
  /\ refused \in SUBSET Txs

\* c's ticket for n
HasTicket(c, n) == \E i \in DOMAIN taken[c] : taken[c][i] = n

\* what the chain has accepted: executed or waiting
Accepted == {Tx(First + i - 1, log[i]) : i \in DOMAIN log} \cup pool

(***************************************************************************)
(* Whoever uses a ticket is the only one who does: a ticketed transaction  *)
(* that the chain accepts was signed by the client that was given its      *)
(* nonce, and by no other client that was given the same.                  *)
(***************************************************************************)
SignedByHolder ==
  \A tx \in Accepted : tx.by \in Ticketed =>
    \A c \in Ticketed : HasTicket(c, tx.nonce) <=> c = tx.by

(***************************************************************************)
(* When every client asks the IPC server, however long each sits on its    *)
(* nonce (SudoDB sleeps a second) and in whatever order they submit, the   *)
(* pool refuses none of their transactions.                                *)
(***************************************************************************)
NoneRefused == refused = {}

(***************************************************************************)
(* Two ticketed clients never spoil each other's transaction: if the pool  *)
(* refuses one, a client that reads its nonce from the chain had the same  *)
(* nonce, or is the one refused.                                           *)
(***************************************************************************)
OnlyChainReadersCollide ==
  \A r \in refused :
    \E tx \in Accepted : /\ tx.nonce = r.nonce
                         /\ tx.by # r.by
                         /\ tx.by \in FromChain \/ r.by \in FromChain

\* a lost ticket keeps n from its turn
GapBelow(n) == \E m \in lost : accountNonce <= m /\ m < n

(***************************************************************************)
(* The one thing that keeps a pooled transaction from executing is a lost  *)
(* ticket with a lower nonce: the errors that mintAsset, sudoIssueAsset,   *)
(* sudoBatch and mintTokens swallow stop the transactions of other tests.  *)
(***************************************************************************)
StuckOnlyBehindGap ==
  \A c \in Clients :
    pc[c] = "pooled" ~> (pc[c] = "idle" \/ GapBelow(nonce[c]))

(***************************************************************************)
(* Why tickets keep the clients apart: no two tickets are equal and all    *)
(* lie below the counter; who is busy holds the ticket of its nonce, as    *)
(* did the signer of every accepted transaction; who has a nonce in hand   *)
(* has not had it accepted before; the account counts its log, and what    *)
(* waits in the pool is the current transaction of a client that waits; no *)
(* nonce lies below First, so that a used one is in the log.               *)
(***************************************************************************)
TicketsDistinct ==
  \A c, d \in Ticketed : \A i \in DOMAIN taken[c], j \in DOMAIN taken[d] :
    taken[c][i] = taken[d][j] => c = d /\ i = j

TicketsBelow == \A c \in Ticketed : \A i \in DOMAIN taken[c] : taken[c][i] < next

BusyHold == \A c \in Ticketed : pc[c] # "idle" => HasTicket(c, nonce[c])

AcceptedHeld == \A tx \in Accepted : tx.by \in Ticketed => HasTicket(tx.by, tx.nonce)

InHandUnused ==
  \A c \in Clients : pc[c] = "holding" =>
    \A tx \in Accepted : tx.nonce = nonce[c] => tx.by # c

AccountCounts == accountNonce = First + Len(log)

PoolWaits == \A tx \in pool : pc[tx.by] = "pooled" /\ nonce[tx.by] = tx.nonce

FromFirst == First <= next /\ \A c \in Clients : First <= nonce[c]

\* the inductive invariant behind SignedByHolder and OnlyChainReadersCollide
IInv ==
  /\ TypeOK /\ TicketsDistinct /\ TicketsBelow /\ BusyHold /\ AcceptedHeld
  /\ InHandUnused /\ AccountCounts /\ PoolWaits /\ FromFirst
  /\ OnlyChainReadersCollide
=============================================================================
