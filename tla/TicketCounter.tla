--------------------------- MODULE TicketCounter ---------------------------
(***************************************************************************)
(* What SudoDB.getSudoNonce promises the code that calls it: a call takes  *)
(* the current value of one counter and moves the counter on, atomically,  *)
(* so that no two calls ever hold the same number.                         *)
(***************************************************************************)
EXTENDS Naturals, Sequences

CONSTANTS Holders,  \* who takes numbers
          First     \* the set of values the counter may start from

VARIABLES next,     \* the number the next call gets
          taken     \* per holder: the numbers its calls got, in order

ticketVars == <<next, taken>>

TicketInit ==
  /\ next \in First
  /\ taken = [h \in Holders |-> <<>>]

Take(h) ==
  /\ taken' = [taken EXCEPT ![h] = Append(@, next)]
  /\ next' = next + 1

\* a number that nobody will ever hold
Forfeit ==
  /\ next' = next + 1
  /\ UNCHANGED taken

TakeAny == \E h \in Holders : Take(h)

\* the promise, and the weaker one that lets numbers get lost
TicketSpec == TicketInit /\ [][TakeAny]_ticketVars
LossyTicketSpec == TicketInit /\ [][TakeAny \/ Forfeit]_ticketVars

=============================================================================
