------------------------ MODULE StrkWagerRefinement ------------------------
(***************************************************************************)
(* The contracts keep the promise of StakePot as long as one escrow is     *)
(* ever set: each transaction is one step of StakePot, or none.            *)
(***************************************************************************)
EXTENDS StrkWager

TheEscrow == CHOOSE e \in Escrows : TRUE
OneEscrow == Escrows = {TheEscrow}

potOf(id) == vault.wager_stake[TheEscrow][id]

\* A decided wager is "ruled" while its pot is still there.
phaseOf(id) ==
  IF ~Exists(id) THEN "none"
  ELSE IF ~Decided(id) THEN "open"
  ELSE IF potOf(id) > 0 THEN "ruled" ELSE "closed"

Promise == INSTANCE StakePot WITH
  phase   <- [id \in WagerIds |-> phaseOf(id)],
  unit    <- [id \in WagerIds |-> wagers[id].stake],
  backers <- [id \in WagerIds |-> {u \in Users : is_wager_participant(id, u)}],
  pot     <- [id \in WagerIds |-> potOf(id)],
  wallet  <- [u \in Users |-> vault.user_balance[TheEscrow][u]]

\* With one escrow, every behaviour of the contracts is a behaviour of StakePot: stakes are equal and
\* from distinct backers, a pot is paid once, whole, to a backer, and an admin's ruling
\* freezes it.
ImplementsStakePot == Promise!Spec
=============================================================================
