--------------------------- MODULE EscrowContract ---------------------------
(***************************************************************************)
(* The escrow contract on its own, and the promises it keeps whatever the  *)
(* wager contract asks of it: the holder of WAGER_ROLE calls any function, *)
(* in any order, with any arguments; users act on the token directly; the  *)
(* calls of anybody else fail in assert_only_role and change nothing.      *)
(***************************************************************************)
EXTENDS Escrow, Functions

CONSTANT Spans   \* participant lists that appear in refunds

ASSUME SpansAssumption == Spans \subseteq Seq(Addresses)

VARIABLE books

booksVars == <<books>>

BooksInit == books = EmptyVault

-----------------------------------------------------------------------------
Approve(u, e, amount) ==
  books' = approve(books, u, e, amount)

\* A token transfer around the escrow's books: to another user, or to the escrow.
Transfer(u, to, amount) ==
  /\ CanTransfer(books, u, to, amount)
  /\ books' = transfer(books, u, to, amount)

Deposit(e, from, amount) ==
  /\ CanDeposit(books, e, from, amount)
  /\ books' = deposit_to_wallet(books, e, from, amount)

Withdraw(e, to, amount) ==
  /\ CanWithdraw(books, e, to, amount)
  /\ books' = withdraw_from_wallet(books, e, to, amount)

Fund(e, wager_id, address, amount) ==
  /\ CanFund(books, e, address, amount)
  /\ books' = fund_wager(books, e, wager_id, address, amount)

Distribute(e, wager_id, winner) ==
  /\ CanDistribute(books, e, wager_id, winner)
  /\ books' = distribute_funds(books, e, wager_id, winner)

Refund(e, wager_id, stake, participants) ==
  /\ CanRefund(books, e, wager_id, stake, participants)
  /\ books' = refund_wager(books, e, wager_id, stake, participants)

BooksNext ==
  \E e \in Escrows, a \in Addresses, w \in WagerIds :
    \/ \E n \in Approvals : a \in Users /\ Approve(a, e, n)
    \/ \E n \in Amounts, to \in Accounts : a \in Users /\ Transfer(a, to, n)
    \/ \E n \in Amounts : Deposit(e, a, n)
    \/ \E n \in Amounts : Withdraw(e, a, n)
    \/ \E n \in Amounts : Fund(e, w, a, n)
    \/ Distribute(e, w, a)
    \/ \E n \in Amounts, span \in Spans : Refund(e, w, n, span)

BooksSpec == BooksInit /\ [][BooksNext]_booksVars

-----------------------------------------------------------------------------
\* Every amount stays a natural number: no subtraction of the escrow or of the
\* token ever goes below zero (a u256 would panic).
BooksTypeOK == books \in Vaults

\* What escrow e owes: the in-app wallets and the pots of the wagers.
Owed(v, e) == SumFunction(v.user_balance[e]) + SumFunction(v.wager_stake[e])

\* The escrow can always pay everybody: the STRK it holds covers all wallets and
\* all pots, after any sequence of deposits, withdrawals, stakes, payouts and
\* refunds, refunds of lists that name a participant twice included.
Solvency == \A e \in Escrows : books.strk[e] >= Owed(books, e)

\* A pot that loses money loses all of it, and all of it reaches in-app wallets in
\* the same call: distribute_funds and refund_wager neither burn nor mint stakes,
\* and a refund that does not add up to the pot changes nothing.
PotsPayInFull ==
  [][ \A e \in Escrows, w \in WagerIds :
        books'.wager_stake[e][w] < books.wager_stake[e][w] =>
          /\ books'.wager_stake[e][w] = 0
          /\ SumFunction(books'.user_balance[e])
               = SumFunction(books.user_balance[e]) + books.wager_stake[e][w] ]_booksVars
=============================================================================
