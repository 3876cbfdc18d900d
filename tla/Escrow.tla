------------------------------- MODULE Escrow -------------------------------
(***************************************************************************)
(* The money of StarkWager: the STRK token and the escrow contracts        *)
(* (contracts/src/escrow/escrow.cairo) that hold it.                       *)
(*                                                                         *)
(* All of it is one value, a "vault", so that a transaction of the wager   *)
(* contract that calls the escrow several times is one step: a call of f   *)
(* on a vault v is the pair of a predicate CanF(v, ...), the asserts of f, *)
(* and an operator f(v, ...), the vault f leaves behind.  A transaction    *)
(* whose assert fails reverts every write, so it is not a step at all.     *)
(***************************************************************************)
EXTENDS Naturals, Sequences, FiniteSets

CONSTANTS
  Users,       \* accounts that call the contracts
  Zero,        \* the zero address
  Escrows,     \* deployed escrow contracts, all granting WAGER_ROLE to the wager contract
  MaxWagers,   \* bound: wager ids are 1..MaxWagers
  Funds,       \* Funds[u]: STRK held by u at the start
  Unlimited,   \* the allowance an ERC20 never decrements
  Amounts,     \* stakes, deposits, withdrawals and token transfers that appear in calls
  Approvals    \* amounts users approve an escrow for

WagerIds  == 1 .. MaxWagers
Addresses == Users \union {Zero}
Accounts  == Addresses \union Escrows

ASSUME MaxWagersAssumption == MaxWagers \in Nat
ASSUME AddressesAssumption ==
  /\ Zero \notin Users
  /\ Zero \notin Escrows
  /\ Users \intersect Escrows = {}
ASSUME FundsAssumption == Funds \in [Users -> Nat]
ASSUME UnlimitedAssumption == Unlimited \in Nat
ASSUME AmountsAssumption == Amounts \subseteq Nat /\ Approvals \subseteq Nat

\* Addresses are field elements and deployments are finite: every total is a number.
ASSUME FiniteAccountsAssumption == IsFiniteSet(Users) /\ IsFiniteSet(Escrows)

Vaults ==
  [ strk         : [Accounts -> Nat],
    allowance    : [Users -> [Escrows -> Nat]],
    user_balance : [Escrows -> [Addresses -> Nat]],
    wager_stake  : [Escrows -> [WagerIds -> Nat]] ]

\* Freshly deployed escrows: nothing is deposited, nothing is approved.
EmptyVault ==
  [ strk         |-> [a \in Accounts |-> IF a \in Users THEN Funds[a] ELSE 0],
    allowance    |-> [u \in Users |-> [e \in Escrows |-> 0]],
    user_balance |-> [e \in Escrows |-> [a \in Addresses |-> 0]],
    wager_stake  |-> [e \in Escrows |-> [w \in WagerIds |-> 0]] ]

-----------------------------------------------------------------------------
(* The STRK token, an OpenZeppelin ERC20 (external). *)

CanTransfer(v, from, to, amount) ==
  /\ from # Zero
  /\ to # Zero
  /\ v.strk[from] >= amount

transfer(v, from, to, amount) ==
  LET debited == [v.strk EXCEPT ![from] = @ - amount]
  IN  [v EXCEPT !.strk = [debited EXCEPT ![to] = @ + amount]]

approve(v, owner, spender, amount) ==
  [v EXCEPT !.allowance[owner][spender] = amount]

\* transfer_from, called by the escrow e that is also the recipient.
CanPull(v, e, from, amount) ==
  /\ v.allowance[from][e] = Unlimited \/ v.allowance[from][e] >= amount
  /\ CanTransfer(v, from, e, amount)

Pull(v, e, from, amount) ==
  IF v.allowance[from][e] = Unlimited
  THEN transfer(v, from, e, amount)
  ELSE approve(transfer(v, from, e, amount), from, e, v.allowance[from][e] - amount)

-----------------------------------------------------------------------------
(* The escrow contract e. *)

get_balance(v, e, address) == v.user_balance[e][address]

CanDeposit(v, e, from, amount) ==
  /\ from # Zero
  /\ amount > 0
  /\ v.strk[from] >= amount
  /\ CanPull(v, e, from, amount)

deposit_to_wallet(v, e, from, amount) ==
  Pull([v EXCEPT !.user_balance[e][from] = @ + amount], e, from, amount)

\* Mutant: the in-app balance is not checked.
CanWithdrawUnchecked(v, e, to, amount) == to # Zero /\ CanTransfer(v, e, to, amount)

CanWithdraw(v, e, to, amount) ==
  /\ to # Zero
  /\ get_balance(v, e, to) >= amount
  /\ CanTransfer(v, e, to, amount)

withdraw_from_wallet(v, e, to, amount) ==
  transfer([v EXCEPT !.user_balance[e][to] = @ - amount], e, to, amount)

CanFund(v, e, address, amount) ==
  /\ address # Zero
  /\ amount > 0
  /\ get_balance(v, e, address) >= amount

\* Mutant: the stake replaces the pot instead of adding to it.
fund_wager_overwriting(v, e, wager_id, address, amount) ==
  [v EXCEPT !.user_balance[e][address] = @ - amount,
            !.wager_stake[e][wager_id] = amount]

fund_wager(v, e, wager_id, address, amount) ==
  [v EXCEPT !.user_balance[e][address] = @ - amount,
            !.wager_stake[e][wager_id] = @ + amount]

CanDistribute(v, e, wager_id, winner) ==
  /\ winner # Zero
  /\ v.wager_stake[e][wager_id] > 0

\* Mutants: the pot is not cleared; the pot is cleared before it is read.
distribute_funds_kept(v, e, wager_id, winner) ==
  [v EXCEPT !.user_balance[e][winner] = @ + v.wager_stake[e][wager_id]]

distribute_funds_lost(v, e, wager_id, winner) ==
  [v EXCEPT !.wager_stake[e][wager_id] = 0]

distribute_funds(v, e, wager_id, winner) ==
  [v EXCEPT !.user_balance[e][winner] = @ + v.wager_stake[e][wager_id],
            !.wager_stake[e][wager_id] = 0]

\* How often the refund loop meets an address: a span may repeat one.
Occurrences(participants, a) ==
  Cardinality({i \in DOMAIN participants : participants[i] = a})

\* Mutant: 'Refund amount mismatch' is not asserted.
CanRefundAnything(v, e, wager_id, stake, participants) ==
  /\ v.wager_stake[e][wager_id] > 0
  /\ \A i \in DOMAIN participants : participants[i] # Zero

CanRefund(v, e, wager_id, stake, participants) ==
  /\ v.wager_stake[e][wager_id] > 0
  /\ \A i \in DOMAIN participants : participants[i] # Zero
  /\ stake * Len(participants) = v.wager_stake[e][wager_id]

refund_wager(v, e, wager_id, stake, participants) ==
  [v EXCEPT !.user_balance[e] =
                [a \in Addresses |->
                   get_balance(v, e, a) + stake * Occurrences(participants, a)],
            !.wager_stake[e][wager_id] = 0]
=============================================================================
