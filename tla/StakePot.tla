------------------------------ MODULE StakePot ------------------------------
(***************************************************************************)
(* What StarkWager promises to the people who bet, with no contracts, no   *)
(* token, no votes and no clock: every wager is a pot of equal stakes from *)
(* distinct backers; a pot is paid out once, as a whole, to one of its     *)
(* backers; a pot somebody ruled on without paying it takes no more        *)
(* stakes, and can still leave only as the refund of a sole backer.        *)
(***************************************************************************)
EXTENDS Naturals, FiniteSets

CONSTANTS Users, WagerIds, Amounts

VARIABLES
  phase,     \* wager -> "none", "open", "ruled" (decided, pot unpaid) or "closed"
  unit,      \* wager -> what each backer stakes
  backers,   \* wager -> who has staked
  pot,       \* wager -> the money staked and not yet paid out
  wallet     \* user -> in-app balance

vars == <<phase, unit, backers, pot, wallet>>

Init ==
  /\ phase = [id \in WagerIds |-> "none"]
  /\ unit = [id \in WagerIds |-> 0]
  /\ backers = [id \in WagerIds |-> {}]
  /\ pot = [id \in WagerIds |-> 0]
  /\ wallet = [u \in Users |-> 0]

Deposit(u, n) ==
  /\ wallet' = [wallet EXCEPT ![u] = @ + n]
  /\ UNCHANGED <<phase, unit, backers, pot>>

Withdraw(u, n) ==
  /\ n <= wallet[u]
  /\ wallet' = [wallet EXCEPT ![u] = @ - n]
  /\ UNCHANGED <<phase, unit, backers, pot>>

\* A stake comes out of the wallet; what the wallet lacks comes from outside.
PayStake(u, id, stake) ==
  /\ stake > 0
  /\ backers' = [backers EXCEPT ![id] = @ \union {u}]
  /\ pot' = [pot EXCEPT ![id] = @ + stake]
  /\ wallet' = [wallet EXCEPT ![u] = IF @ >= stake THEN @ - stake ELSE 0]

Open(u, id, stake) ==
  /\ phase[id] = "none"
  /\ phase' = [phase EXCEPT ![id] = "open"]
  /\ unit' = [unit EXCEPT ![id] = stake]
  /\ PayStake(u, id, stake)

Back(u, id) ==
  /\ phase[id] = "open"
  /\ u \notin backers[id]
  /\ PayStake(u, id, unit[id])
  /\ UNCHANGED <<phase, unit>>

PayOut(id, payee) ==
  /\ payee \in backers[id]
  /\ pot[id] = unit[id] * Cardinality(backers[id])
  /\ phase' = [phase EXCEPT ![id] = "closed"]
  /\ pot' = [pot EXCEPT ![id] = 0]
  /\ wallet' = [wallet EXCEPT ![payee] = @ + pot[id]]
  /\ UNCHANGED <<unit, backers>>

\* The backers agree, or the only backer gets the stake back.
Settle(id, payee) ==
  /\ phase[id] = "open"
  /\ PayOut(id, payee)

Rule(id) ==
  /\ phase[id] = "open"
  /\ phase' = [phase EXCEPT ![id] = "ruled"]
  /\ UNCHANGED <<unit, backers, pot, wallet>>

RefundRuled(id, payee) ==
  /\ phase[id] = "ruled"
  /\ backers[id] = {payee}
  /\ PayOut(id, payee)

Next ==
  \/ \E u \in Users, n \in Amounts : Deposit(u, n) \/ Withdraw(u, n)
  \/ \E u \in Users, id \in WagerIds, n \in Amounts : Open(u, id, n)
  \/ \E u \in Users, id \in WagerIds :
       Back(u, id) \/ Settle(id, u) \/ RefundRuled(id, u)
  \/ \E id \in WagerIds : Rule(id)

Spec == Init /\ [][Next]_vars
=============================================================================
