---------------------------- MODULE EscrowProofs ----------------------------
(***************************************************************************)
(* What totals are, what the calls of module Escrow return, and theorems   *)
(* about EscrowContract: for every number of users, escrows and wagers and *)
(* every amount.                                                           *)
(***************************************************************************)
EXTENDS EscrowContract, FiniteSetTheorems, TLAPS

-----------------------------------------------------------------------------
(* Totals: SumFunction on a finite domain. *)

\* Induction on the naturals, for a predicate given as a set: a least counterexample
\* would have a predecessor.
LEMMA NatInduces ==
  ASSUME NEW S, 0 \in S, \A n \in Nat : n \in S => n + 1 \in S
  PROVE  \A n \in Nat : n \in S
<1> SUFFICES ASSUME Nat \ S # {} PROVE FALSE
  OBVIOUS
<1> DEFINE R == OpToRel(<, Nat)
<1>0. R = {ss \in Nat \X Nat : ss[1] < ss[2]}
  BY DEF OpToRel
<1>1. PICK x \in Nat \ S : \A y \in Nat \ S : ~(<<y, x>> \in R)
  <2>1. IsWellFoundedOn(R, Nat)
    BY NatLessThanWellFounded
  <2> HIDE DEF R
  <2> QED BY <2>1, WFMin
<1>2. \A y \in Nat \ S : ~(y < x)
  BY <1>0, <1>1
<1>3. x # 0
  OBVIOUS
<1>4. x - 1 \in Nat /\ x - 1 < x /\ (x - 1) + 1 = x
  BY <1>3
<1>5. x - 1 \in S
  BY <1>2, <1>4
<1> QED BY <1>4, <1>5

\* The element the sum takes first, and one step of the recursion behind SumFunction,
\* for a partial sum g.
Pick(s) == CHOOSE x \in s : TRUE
SumStep(f, g, s) == IF s = {} THEN 0 ELSE f[Pick(s)] + g[s \ {Pick(s)}]

\* The recursion has a solution on every finite set: the sums of its subsets.
LEMMA PartialSums ==
  ASSUME NEW S, IsFiniteSet(S), NEW f
  PROVE  \E g : g = [s \in SUBSET S |-> SumStep(f, g, s)]
<1> DEFINE Small(n) == {s \in SUBSET S : Cardinality(s) <= n}
           Sums(n) == \E g : g = [s \in Small(n) |-> SumStep(f, g, s)]
           N == {n \in Nat : Sums(n)}
<1>0. ASSUME NEW s \in SUBSET S, s # {}
      PROVE  /\ Pick(s) \in s /\ Cardinality(s) \in Nat /\ Cardinality(s) # 0
             /\ Cardinality(s \ {Pick(s)}) = Cardinality(s) - 1
  <2>1. Pick(s) \in s
    BY <1>0 DEF Pick
  <2>2. IsFiniteSet(s)
    BY FS_Subset
  <2> QED BY <1>0, <2>1, <2>2, FS_RemoveElement, FS_CardinalityType, FS_EmptySet
<1>1. 0 \in N
  <2>1. Small(0) = {{}}
    <3>1. ASSUME NEW s \in Small(0) PROVE s = {}
      <4> SUFFICES ASSUME s # {} PROVE FALSE
        OBVIOUS
      <4>1. Cardinality(s) \in Nat /\ Cardinality(s) # 0 /\ Cardinality(s) <= 0
        BY <1>0
      <4> QED BY <4>1
    <3>2. Cardinality({}) = 0
      BY FS_EmptySet
    <3>3. {} \in Small(0)
      BY <3>2
    <3> HIDE DEF Small
    <3> QED BY <3>1, <3>3
  <2> DEFINE g == [s \in Small(0) |-> 0]
  <2>2. g = [s \in Small(0) |-> SumStep(f, g, s)]
    BY <2>1 DEF SumStep
  <2> HIDE DEF g
  <2> QED BY <2>2
<1>2. ASSUME NEW n \in Nat, n \in N PROVE n + 1 \in N
  <2>1. PICK g : g = [s \in Small(n) |-> SumStep(f, g, s)]
    BY <1>2
  <2> DEFINE h == [s \in Small(n + 1) |-> SumStep(f, g, s)]
  <2>2. ASSUME NEW s \in Small(n + 1) PROVE SumStep(f, h, s) = SumStep(f, g, s)
    <3>1. CASE s = {}
      BY <3>1 DEF SumStep
    <3>2. CASE s # {}
      <4>1. s \ {Pick(s)} \in Small(n) /\ s \ {Pick(s)} \in Small(n + 1)
        BY <1>0, <3>2
      <4>2. h[s \ {Pick(s)}] = g[s \ {Pick(s)}]
        BY <2>1, <4>1
      <4> HIDE DEF h
      <4> QED BY <3>2, <4>2 DEF SumStep
    <3> QED BY <3>1, <3>2
  <2>3. h = [s \in Small(n + 1) |-> SumStep(f, h, s)]
    BY <2>2
  <2> HIDE DEF h
  <2>4. Sums(n + 1)
    BY <2>3
  <2> QED BY <2>4
<1>3. \A n \in Nat : n \in N
  <2> HIDE DEF N
  <2> QED BY <1>1, <1>2, NatInduces
<1>4. Cardinality(S) \in Nat /\ Small(Cardinality(S)) = SUBSET S
  BY FS_CardinalityType, FS_Subset
<1>5. Sums(Cardinality(S))
  BY <1>3, <1>4
<1> QED BY <1>4, <1>5

\* What SumFunction sums over the parts of its domain.
LEMMA SumIsPartialSum ==
  ASSUME NEW S, IsFiniteSet(S), NEW f, DOMAIN f = S
  PROVE  \E g : g = [s \in SUBSET S |-> SumStep(f, g, s)] /\ SumFunction(f) = g[S]
<1> DEFINE iter[s \in SUBSET S] == IF s = {} THEN 0
                                   ELSE LET x == CHOOSE x \in s : TRUE IN f[x] + iter[s \ {x}]
<1>1. SumFunction(f) = iter[S]
  BY DEF SumFunction, SumFunctionOnSet, FoldFunctionOnSet, MapThenFoldSet
<1>2. iter = CHOOSE g : g = [s \in SUBSET S |-> SumStep(f, g, s)]
  BY DEF SumStep, Pick
<1> HIDE DEF iter
<1>3. iter = [s \in SUBSET S |-> SumStep(f, iter, s)]
  BY <1>2, PartialSums
<1> QED BY <1>1, <1>3

\* Changing one entry of a function changes its total by the same amount.
LEMMA SumUpdate ==
  ASSUME NEW S, IsFiniteSet(S), NEW f \in [S -> Nat], NEW g \in [S -> Nat], NEW u \in S,
         \A x \in S : x # u => g[x] = f[x]
  PROVE  /\ SumFunction(f) \in Nat /\ SumFunction(g) \in Nat
         /\ SumFunction(g) + f[u] = SumFunction(f) + g[u]
<1>1. PICK F : F = [s \in SUBSET S |-> SumStep(f, F, s)] /\ SumFunction(f) = F[S]
  BY SumIsPartialSum
<1>2. PICK G : G = [s \in SUBSET S |-> SumStep(g, G, s)] /\ SumFunction(g) = G[S]
  BY SumIsPartialSum
<1> DEFINE Good(s) == /\ F[s] \in Nat /\ G[s] \in Nat
                      /\ IF u \in s THEN G[s] + f[u] = F[s] + g[u] ELSE G[s] = F[s]
           N == {n \in Nat : \A s \in SUBSET S : Cardinality(s) = n => Good(s)}
<1>3. 0 \in N
  <2> SUFFICES ASSUME NEW s \in SUBSET S, Cardinality(s) = 0 PROVE Good(s)
    OBVIOUS
  <2>1. s = {}
    BY FS_EmptySet, FS_Subset
  <2> QED BY <1>1, <1>2, <2>1 DEF SumStep
<1>4. ASSUME NEW n \in Nat, n \in N PROVE n + 1 \in N
  <2> SUFFICES ASSUME NEW s \in SUBSET S, Cardinality(s) = n + 1 PROVE Good(s)
    OBVIOUS
  <2> DEFINE x == Pick(s)
             t == s \ {x}
  <2>1. s # {} /\ IsFiniteSet(s)
    BY FS_EmptySet, FS_Subset
  <2>2. x \in s
    BY <2>1 DEF Pick
  <2>3. t \in SUBSET S /\ Cardinality(t) = n
    <3>1. Cardinality(t) = Cardinality(s) - 1
      BY <2>1, <2>2, FS_RemoveElement
    <3>2. (n + 1) - 1 = n
      OBVIOUS
    <3> QED BY <3>1, <3>2
  <2>4. Good(t)
    BY <1>4, <2>3
  <2>5. F[s] = f[x] + F[t] /\ G[s] = g[x] + G[t]
    BY <1>1, <1>2, <2>1 DEF SumStep
  <2>6. f[x] \in Nat /\ g[x] \in Nat /\ f[u] \in Nat /\ g[u] \in Nat /\ (x # u => g[x] = f[x])
    BY <2>2
  <2>7. u \in s <=> u \in t \/ u = x
    BY <2>2
  <2>8. u = x => u \notin t
    OBVIOUS
  <2> HIDE DEF x, t
  <2> QED BY <2>4, <2>5, <2>6, <2>7, <2>8
<1>5. \A n \in Nat : n \in N
  <2> HIDE DEF N
  <2> QED BY <1>3, <1>4, NatInduces
<1>6. Good(S)
  BY <1>5, FS_CardinalityType
<1> QED BY <1>1, <1>2, <1>6

LEMMA SumType ==
  ASSUME NEW S, IsFiniteSet(S), NEW f \in [S -> Nat]
  PROVE  SumFunction(f) \in Nat
<1>1. CASE S = {}
  <2>1. PICK F : F = [s \in SUBSET S |-> SumStep(f, F, s)] /\ SumFunction(f) = F[S]
    BY SumIsPartialSum
  <2> QED
    BY <1>1, <2>1 DEF SumStep
<1>2. CASE S # {}
  BY <1>2, SumUpdate
<1> QED
  BY <1>1, <1>2

\* The same, for one entry that grows by k.
LEMMA SumGrows ==
  ASSUME NEW S, IsFiniteSet(S), NEW f \in [S -> Nat], NEW g \in [S -> Nat], NEW u \in S,
         \A x \in S : x # u => g[x] = f[x], NEW k \in Nat, g[u] = f[u] + k
  PROVE  SumFunction(f) \in Nat /\ SumFunction(g) = SumFunction(f) + k
<1>1. /\ SumFunction(f) \in Nat /\ SumFunction(g) \in Nat
      /\ SumFunction(g) + f[u] = SumFunction(f) + g[u]
  BY SumUpdate
<1>2. f[u] \in Nat
  OBVIOUS
<1> QED
  BY <1>1, <1>2

\* A total of zeros is zero.
LEMMA SumZero ==
  ASSUME NEW S, IsFiniteSet(S), NEW f \in [S -> Nat], \A x \in S : f[x] = 0
  PROVE  SumFunction(f) = 0
<1>1. PICK F : F = [s \in SUBSET S |-> SumStep(f, F, s)] /\ SumFunction(f) = F[S]
  BY SumIsPartialSum
<1> DEFINE N == {n \in Nat : \A s \in SUBSET S : Cardinality(s) = n => F[s] = 0}
<1>2. 0 \in N
  <2> SUFFICES ASSUME NEW s \in SUBSET S, Cardinality(s) = 0 PROVE F[s] = 0
    OBVIOUS
  <2>1. s = {}
    BY FS_EmptySet, FS_Subset
  <2> QED BY <1>1, <2>1 DEF SumStep
<1>3. ASSUME NEW n \in Nat, n \in N PROVE n + 1 \in N
  <2> SUFFICES ASSUME NEW s \in SUBSET S, Cardinality(s) = n + 1 PROVE F[s] = 0
    OBVIOUS
  <2> DEFINE x == Pick(s)
             t == s \ {x}
  <2>1. s # {} /\ IsFiniteSet(s)
    BY FS_EmptySet, FS_Subset
  <2>2. x \in s
    BY <2>1 DEF Pick
  <2>3. t \in SUBSET S /\ Cardinality(t) = n
    <3>1. Cardinality(t) = Cardinality(s) - 1
      BY <2>1, <2>2, FS_RemoveElement
    <3>2. (n + 1) - 1 = n
      OBVIOUS
    <3> QED BY <3>1, <3>2
  <2>4. F[t] = 0 /\ f[x] = 0
    BY <1>3, <2>2, <2>3
  <2>5. F[s] = f[x] + F[t]
    BY <1>1, <2>1 DEF SumStep
  <2> QED BY <2>4, <2>5
<1>4. \A n \in Nat : n \in N
  <2> HIDE DEF N
  <2> QED BY <1>2, <1>3, NatInduces
<1> QED BY <1>1, <1>4, FS_CardinalityType

-----------------------------------------------------------------------------
(* The token and the escrow, call by call. *)

\* A fresh deployment is a vault.
LEMMA EmptyVaultType == EmptyVault \in Vaults
  BY FundsAssumption DEF EmptyVault, Vaults, Accounts, Addresses

\* A token transfer within the sender's balance leaves naturals behind.
LEMMA TransferType ==
  ASSUME NEW v \in Vaults, NEW from \in Accounts, NEW to \in Accounts, NEW amount \in Nat,
         CanTransfer(v, from, to, amount)
  PROVE  transfer(v, from, to, amount) \in Vaults
<1> DEFINE debited == [v.strk EXCEPT ![from] = @ - amount]
<1>1. v.strk[from] - amount \in Nat
  BY DEF CanTransfer, Vaults
<1>2. debited \in [Accounts -> Nat]
  BY <1>1 DEF Vaults
<1>3. [debited EXCEPT ![to] = @ + amount] \in [Accounts -> Nat]
  BY <1>2
<1> QED
  BY <1>3 DEF transfer, Vaults

\* A token transfer touches no allowance, no wallet and no pot.
LEMMA TransferFrame ==
  ASSUME NEW v \in Vaults, NEW from, NEW to, NEW amount
  PROVE  /\ transfer(v, from, to, amount).allowance = v.allowance
         /\ transfer(v, from, to, amount).user_balance = v.user_balance
         /\ transfer(v, from, to, amount).wager_stake = v.wager_stake
  BY DEF transfer, Vaults

LEMMA ApproveType ==
  ASSUME NEW v \in Vaults, NEW owner \in Users, NEW e \in Escrows, NEW amount \in Nat
  PROVE  /\ approve(v, owner, e, amount) \in Vaults
         /\ approve(v, owner, e, amount).user_balance = v.user_balance
         /\ approve(v, owner, e, amount).wager_stake = v.wager_stake
  BY DEF approve, Vaults

LEMMA PullType ==
  ASSUME NEW v \in Vaults, NEW e \in Escrows, NEW from \in Users, NEW amount \in Nat,
         CanPull(v, e, from, amount)
  PROVE  /\ Pull(v, e, from, amount) \in Vaults
         /\ Pull(v, e, from, amount).user_balance = v.user_balance
         /\ Pull(v, e, from, amount).wager_stake = v.wager_stake
<1>1. from \in Accounts /\ e \in Accounts /\ CanTransfer(v, from, e, amount)
  BY DEF Accounts, Addresses, CanPull
<1>2. transfer(v, from, e, amount) \in Vaults
  BY <1>1, TransferType
<1>3. v.allowance[from][e] \in Nat
  BY DEF Vaults
<1>4. CASE v.allowance[from][e] = Unlimited
  BY <1>2, <1>4, TransferFrame DEF Pull
<1>5. CASE v.allowance[from][e] # Unlimited
  <2>1. v.allowance[from][e] - amount \in Nat
    BY <1>3, <1>5 DEF CanPull
  <2> QED
    BY <1>2, <1>5, <2>1, TransferFrame, ApproveType DEF Pull
<1> QED
  BY <1>4, <1>5

-----------------------------------------------------------------------------
(* The escrow's own calls: each returns a vault, and exactly these wallets and pots. *)

\* Ledgers of the escrows (wallets or pots) after a credit, a debit and a payout.
Credited(ledger, e, x, amount) == [ledger EXCEPT ![e][x] = @ + amount]
Debited(ledger, e, x, amount)  == [ledger EXCEPT ![e][x] = @ - amount]
Emptied(ledger, e, x)          == [ledger EXCEPT ![e][x] = 0]

LEMMA DepositResult ==
  ASSUME NEW v \in Vaults, NEW e \in Escrows, NEW from \in Addresses, NEW amount \in Nat,
         CanDeposit(v, e, from, amount)
  PROVE  /\ deposit_to_wallet(v, e, from, amount) \in Vaults
         /\ deposit_to_wallet(v, e, from, amount).user_balance
              = Credited(v.user_balance, e, from, amount)
         /\ deposit_to_wallet(v, e, from, amount).wager_stake = v.wager_stake
<1> DEFINE balances == Credited(v.user_balance, e, from, amount)
           credited == [v EXCEPT !.user_balance[e][from] = @ + amount]
<1>1. from \in Users
  BY DEF CanDeposit, Addresses
<1>2. balances \in [Escrows -> [Addresses -> Nat]]
  BY DEF Credited, Vaults
<1>3. credited = [v EXCEPT !.user_balance = balances]
  BY DEF Credited
<1>4. deposit_to_wallet(v, e, from, amount) = Pull(credited, e, from, amount)
  BY DEF deposit_to_wallet
<1> HIDE DEF balances, credited
<1>5. /\ credited \in Vaults
      /\ credited.user_balance = balances
      /\ credited.wager_stake = v.wager_stake
      /\ credited.strk = v.strk
      /\ credited.allowance = v.allowance
  BY <1>2, <1>3 DEF Vaults
<1>6. CanPull(credited, e, from, amount)
  BY <1>5 DEF CanDeposit, CanPull, CanTransfer
<1>7. /\ Pull(credited, e, from, amount) \in Vaults
      /\ Pull(credited, e, from, amount).user_balance = balances
      /\ Pull(credited, e, from, amount).wager_stake = v.wager_stake
  BY <1>1, <1>5, <1>6, PullType
<1> QED
  BY <1>4, <1>7 DEF balances

LEMMA WithdrawResult ==
  ASSUME NEW v \in Vaults, NEW e \in Escrows, NEW to \in Addresses, NEW amount \in Nat,
         CanWithdraw(v, e, to, amount)
  PROVE  /\ withdraw_from_wallet(v, e, to, amount) \in Vaults
         /\ withdraw_from_wallet(v, e, to, amount).user_balance
              = Debited(v.user_balance, e, to, amount)
         /\ withdraw_from_wallet(v, e, to, amount).wager_stake = v.wager_stake
<1> DEFINE balances == Debited(v.user_balance, e, to, amount)
           debited == [v EXCEPT !.user_balance[e][to] = @ - amount]
<1>1. v.user_balance[e][to] - amount \in Nat
  BY DEF CanWithdraw, get_balance, Vaults
<1>2. balances \in [Escrows -> [Addresses -> Nat]]
  BY <1>1 DEF Debited, Vaults
<1>3. debited = [v EXCEPT !.user_balance = balances]
  BY DEF Debited
<1>4. withdraw_from_wallet(v, e, to, amount) = transfer(debited, e, to, amount)
  BY DEF withdraw_from_wallet
<1> HIDE DEF balances, debited
<1>5. /\ debited \in Vaults
      /\ debited.user_balance = balances
      /\ debited.wager_stake = v.wager_stake
      /\ debited.strk = v.strk
  BY <1>2, <1>3 DEF Vaults
<1>6. e \in Accounts /\ to \in Accounts
  BY DEF Accounts
<1>7. CanTransfer(debited, e, to, amount)
  BY <1>5 DEF CanWithdraw, CanTransfer
<1>8. /\ transfer(debited, e, to, amount) \in Vaults
      /\ transfer(debited, e, to, amount).user_balance = balances
      /\ transfer(debited, e, to, amount).wager_stake = v.wager_stake
  BY <1>5, <1>6, <1>7, TransferType, TransferFrame
<1> QED
  BY <1>4, <1>8 DEF balances

LEMMA FundResult ==
  ASSUME NEW v \in Vaults, NEW e \in Escrows, NEW id \in WagerIds,
         NEW address \in Addresses, NEW amount \in Nat,
         CanFund(v, e, address, amount)
  PROVE  /\ fund_wager(v, e, id, address, amount) \in Vaults
         /\ fund_wager(v, e, id, address, amount).user_balance
              = Debited(v.user_balance, e, address, amount)
         /\ fund_wager(v, e, id, address, amount).wager_stake
              = Credited(v.wager_stake, e, id, amount)
<1>1. v.user_balance[e][address] - amount \in Nat
  BY DEF CanFund, get_balance, Vaults
<1>2. v.wager_stake[e][id] + amount \in Nat
  BY DEF Vaults
<1> QED
  BY <1>1, <1>2 DEF fund_wager, Vaults, Credited, Debited

LEMMA DistributeResult ==
  ASSUME NEW v \in Vaults, NEW e \in Escrows, NEW id \in WagerIds, NEW winner \in Addresses
  PROVE  /\ distribute_funds(v, e, id, winner) \in Vaults
         /\ distribute_funds(v, e, id, winner).user_balance
              = Credited(v.user_balance, e, winner, v.wager_stake[e][id])
         /\ distribute_funds(v, e, id, winner).wager_stake
              = Emptied(v.wager_stake, e, id)
<1>1. v.user_balance[e][winner] + v.wager_stake[e][id] \in Nat
  BY DEF Vaults
<1> QED
  BY <1>1 DEF distribute_funds, Vaults, Credited, Emptied

\* A refund list is finite, so what the loop counts is a natural number.
LEMMA OccurrencesType ==
  ASSUME NEW participants \in Seq(Addresses), NEW a
  PROVE  Occurrences(participants, a) \in Nat
<1>1. DOMAIN participants = 1 .. Len(participants) /\ Len(participants) \in Nat
  OBVIOUS
<1>2. IsFiniteSet(1 .. Len(participants))
  BY <1>1, FS_Interval
<1>3. IsFiniteSet({i \in DOMAIN participants : participants[i] = a})
  BY <1>1, <1>2, FS_Subset
<1> QED
  BY <1>3, FS_CardinalityType DEF Occurrences

LEMMA RefundResult ==
  ASSUME NEW v \in Vaults, NEW e \in Escrows, NEW id \in WagerIds, NEW stake \in Nat,
         NEW participants \in Seq(Addresses)
  PROVE  /\ refund_wager(v, e, id, stake, participants) \in Vaults
         /\ refund_wager(v, e, id, stake, participants).wager_stake
              = Emptied(v.wager_stake, e, id)
<1> DEFINE refunded == [a \in Addresses |->
                          get_balance(v, e, a) + stake * Occurrences(participants, a)]
<1>1. ASSUME NEW a \in Addresses
      PROVE  get_balance(v, e, a) + stake * Occurrences(participants, a) \in Nat
  <2>1. Occurrences(participants, a) \in Nat
    BY OccurrencesType
  <2>2. stake * Occurrences(participants, a) \in Nat
    BY <2>1
  <2>3. get_balance(v, e, a) \in Nat
    BY DEF get_balance, Vaults
  <2> QED
    BY <2>2, <2>3
<1>2. refunded \in [Addresses -> Nat]
  BY <1>1
<1> HIDE DEF refunded
<1>3. [v.user_balance EXCEPT ![e] = refunded] \in [Escrows -> [Addresses -> Nat]]
  BY <1>2 DEF Vaults
<1>4. [v.wager_stake EXCEPT ![e][id] = 0] \in [Escrows -> [WagerIds -> Nat]]
  BY DEF Vaults
<1>5. refund_wager(v, e, id, stake, participants)
        = [v EXCEPT !.user_balance[e] = refunded, !.wager_stake[e][id] = 0]
  BY DEF refund_wager, refunded
<1> QED
  BY <1>3, <1>4, <1>5 DEF Vaults, Emptied

\* Who holds the STRK after a transfer.
LEMMA TransferMoves ==
  ASSUME NEW v \in Vaults, NEW from \in Accounts, NEW to \in Accounts, NEW amount \in Nat,
         NEW a \in Accounts
  PROVE  transfer(v, from, to, amount).strk[a] =
           CASE a = to /\ a # from -> v.strk[a] + amount
             [] a = from /\ a # to -> v.strk[a] - amount
             [] a = from /\ a = to -> v.strk[a] - amount + amount
             [] OTHER              -> v.strk[a]
<1> DEFINE debited == [v.strk EXCEPT ![from] = @ - amount]
<1>1. transfer(v, from, to, amount).strk = [debited EXCEPT ![to] = @ + amount]
  BY DEF transfer, Vaults
<1>2. DOMAIN v.strk = Accounts
  BY DEF Vaults
<1>3. debited[a] = IF a = from THEN v.strk[a] - amount ELSE v.strk[a]
  BY <1>2
<1>4. transfer(v, from, to, amount).strk[a] = IF a = to THEN debited[a] + amount ELSE debited[a]
  BY <1>1, <1>2
<1> HIDE DEF debited
<1> QED
  BY <1>3, <1>4

\* A deposit moves STRK from the depositor to the escrow, and to no other escrow.
LEMMA DepositMoves ==
  ASSUME NEW v \in Vaults, NEW e \in Escrows, NEW from \in Addresses, NEW amount \in Nat,
         CanDeposit(v, e, from, amount), NEW f \in Escrows
  PROVE  deposit_to_wallet(v, e, from, amount).strk[f] =
           IF f = e THEN v.strk[f] + amount ELSE v.strk[f]
<1> DEFINE credited == [v EXCEPT !.user_balance[e][from] = @ + amount]
<1>1. from \in Users /\ from \in Accounts /\ f \in Accounts /\ e \in Accounts /\ f # from
  BY AddressesAssumption DEF CanDeposit, Addresses, Accounts
<1>2. credited \in Vaults /\ credited.strk = v.strk
  <2>1. [v.user_balance EXCEPT ![e][from] = @ + amount] \in [Escrows -> [Addresses -> Nat]]
    BY DEF Vaults
  <2>2. credited = [v EXCEPT !.user_balance = [v.user_balance EXCEPT ![e][from] = @ + amount]]
    OBVIOUS
  <2> QED
    BY <2>1, <2>2 DEF Vaults
<1>3. deposit_to_wallet(v, e, from, amount) = Pull(credited, e, from, amount)
  BY DEF deposit_to_wallet
<1> HIDE DEF credited
<1>4. \A w, n : approve(w, from, e, n).strk = w.strk
  BY DEF approve
<1>5. Pull(credited, e, from, amount).strk = transfer(credited, from, e, amount).strk
  BY <1>4 DEF Pull
<1>6. transfer(credited, from, e, amount).strk[f] =
        IF f = e THEN credited.strk[f] + amount ELSE credited.strk[f]
  BY <1>1, <1>2, TransferMoves
<1> QED
  BY <1>2, <1>3, <1>5, <1>6

\* A withdrawal moves STRK from the escrow to the owner of the wallet.
LEMMA WithdrawMoves ==
  ASSUME NEW v \in Vaults, NEW e \in Escrows, NEW to \in Addresses, NEW amount \in Nat,
         NEW a \in Accounts
  PROVE  withdraw_from_wallet(v, e, to, amount).strk[a] =
           CASE a = to -> v.strk[a] + amount
             [] a = e -> v.strk[a] - amount
             [] OTHER -> v.strk[a]
<1> DEFINE debited == [v EXCEPT !.user_balance[e][to] = @ - amount]
<1>1. e \in Accounts /\ to \in Accounts /\ e # to
  BY AddressesAssumption DEF Addresses, Accounts
<1>2. debited.strk = v.strk /\ withdraw_from_wallet(v, e, to, amount) = transfer(debited, e, to, amount)
  BY DEF withdraw_from_wallet, Vaults
<1>3. transfer(debited, e, to, amount).strk
        = [[debited.strk EXCEPT ![e] = @ - amount] EXCEPT ![to] = @ + amount]
  BY DEF transfer, Vaults
<1>4. DOMAIN v.strk = Accounts
  BY DEF Vaults
<1> HIDE DEF debited
<1> QED
  BY <1>1, <1>2, <1>3, <1>4

\* The calls of the wager contract move no STRK.
LEMMA NoTokenMoves ==
  ASSUME NEW v \in Vaults, NEW e, NEW id, NEW a, NEW amount, NEW span
  PROVE  /\ fund_wager(v, e, id, a, amount).strk = v.strk
         /\ distribute_funds(v, e, id, a).strk = v.strk
         /\ refund_wager(v, e, id, amount, span).strk = v.strk
  BY DEF fund_wager, distribute_funds, refund_wager, Vaults

-----------------------------------------------------------------------------
(* What the calls do to the totals of a ledger: the wallets, or the pots, of an escrow. *)

LEMMA CreditedTotal ==
  ASSUME NEW S, IsFiniteSet(S), NEW ledger \in [Escrows -> [S -> Nat]],
         NEW e \in Escrows, NEW x \in S, NEW n \in Nat, NEW f \in Escrows
  PROVE  /\ SumFunction(ledger[f]) \in Nat
         /\ SumFunction(Credited(ledger, e, x, n)[f]) =
              SumFunction(ledger[f]) + (IF f = e THEN n ELSE 0)
<1> DEFINE g == Credited(ledger, e, x, n)[f]
<1>1. CASE f # e
  <2>1. g = ledger[f] /\ ledger[f] \in [S -> Nat]
    BY <1>1 DEF Credited
  <2>2. SumFunction(ledger[f]) \in Nat
    BY <2>1, SumUpdate
  <2> HIDE DEF g
  <2>3. SumFunction(g) = SumFunction(ledger[f]) + 0
    BY <2>1, <2>2
  <2> QED
    BY <1>1, <2>2, <2>3 DEF g
<1>2. CASE f = e
  <2>1. /\ ledger[f] \in [S -> Nat] /\ g \in [S -> Nat]
        /\ \A y \in S : y # x => g[y] = ledger[f][y]
        /\ g[x] = ledger[f][x] + n
    BY <1>2 DEF Credited
  <2>2. ledger[f][x] \in Nat
    BY <2>1
  <2> HIDE DEF g
  <2>3. /\ SumFunction(ledger[f]) \in Nat /\ SumFunction(g) \in Nat
        /\ SumFunction(g) + ledger[f][x] = SumFunction(ledger[f]) + g[x]
    BY <2>1, SumUpdate
  <2>4. SumFunction(g) = SumFunction(ledger[f]) + n
    BY <2>1, <2>2, <2>3
  <2> QED
    BY <1>2, <2>3, <2>4 DEF g
<1> QED
  BY <1>1, <1>2

LEMMA DebitedTotal ==
  ASSUME NEW S, IsFiniteSet(S), NEW ledger \in [Escrows -> [S -> Nat]],
         NEW e \in Escrows, NEW x \in S, NEW n \in Nat, ledger[e][x] >= n, NEW f \in Escrows
  PROVE  /\ SumFunction(Debited(ledger, e, x, n)[f]) \in Nat
         /\ SumFunction(ledger[f]) =
              SumFunction(Debited(ledger, e, x, n)[f]) + (IF f = e THEN n ELSE 0)
<1> DEFINE g == Debited(ledger, e, x, n)[f]
<1>1. CASE f # e
  <2>1. g = ledger[f] /\ ledger[f] \in [S -> Nat]
    BY <1>1 DEF Debited
  <2>2. SumFunction(ledger[f]) \in Nat
    BY <2>1, SumUpdate
  <2> HIDE DEF g
  <2>3. SumFunction(ledger[f]) = SumFunction(g) + 0
    BY <2>1, <2>2
  <2> QED
    BY <1>1, <2>1, <2>2, <2>3 DEF g
<1>2. CASE f = e
  <2>1. ledger[f][x] \in Nat /\ ledger[f][x] - n \in Nat
    BY <1>2
  <2>2. /\ ledger[f] \in [S -> Nat] /\ g \in [S -> Nat]
        /\ \A y \in S : y # x => g[y] = ledger[f][y]
        /\ g[x] = ledger[f][x] - n
    BY <1>2, <2>1 DEF Debited
  <2> HIDE DEF g
  <2>3. /\ SumFunction(ledger[f]) \in Nat /\ SumFunction(g) \in Nat
        /\ SumFunction(g) + ledger[f][x] = SumFunction(ledger[f]) + g[x]
    BY <2>2, SumUpdate
  <2>4. SumFunction(ledger[f]) = SumFunction(g) + n
    BY <2>1, <2>2, <2>3
  <2> QED
    BY <1>2, <2>3, <2>4 DEF g
<1> QED
  BY <1>1, <1>2

LEMMA EmptiedTotal ==
  ASSUME NEW S, IsFiniteSet(S), NEW ledger \in [Escrows -> [S -> Nat]],
         NEW e \in Escrows, NEW x \in S, NEW f \in Escrows
  PROVE  /\ SumFunction(Emptied(ledger, e, x)[f]) \in Nat
         /\ SumFunction(ledger[f]) =
              SumFunction(Emptied(ledger, e, x)[f]) + (IF f = e THEN ledger[e][x] ELSE 0)
<1>0. ledger[e][x] - ledger[e][x] = 0
  OBVIOUS
<1>1. Emptied(ledger, e, x) = Debited(ledger, e, x, ledger[e][x])
  BY <1>0 DEF Emptied, Debited
<1> DEFINE n == ledger[e][x]
<1>2. n \in Nat /\ ledger[e][x] >= n
  OBVIOUS
<1> HIDE DEF n
<1>3. /\ SumFunction(Debited(ledger, e, x, n)[f]) \in Nat
      /\ SumFunction(ledger[f]) =
           SumFunction(Debited(ledger, e, x, n)[f]) + (IF f = e THEN n ELSE 0)
  BY <1>2, DebitedTotal
<1> QED
  BY <1>1, <1>3 DEF n

LEMMA OneMore == ASSUME NEW a \in Nat, NEW b \in Nat PROVE a * (b + 1) = a * b + a
  OBVIOUS

\* However often a refunded list names a participant, the refunds of k per place add up
\* to k times the length of the list: by induction on the part of the list refunded.
LEMMA RefundedTotal ==
  ASSUME NEW S, IsFiniteSet(S), NEW f \in [S -> Nat], NEW k \in Nat,
         NEW p, NEW length \in Nat, DOMAIN p = 1 .. length, \A i \in 1 .. length : p[i] \in S
  PROVE  SumFunction([a \in S |-> f[a] + k * Occurrences(p, a)]) = SumFunction(f) + k * length
<1> DEFINE Places(n, a) == {i \in 1 .. n : p[i] = a}
           Times(n, a) == Cardinality(Places(n, a))
           g(n) == [a \in S |-> f[a] + k * Times(n, a)]
           N == {n \in Nat : n <= length => SumFunction(g(n)) = SumFunction(f) + k * n}
<1>0. ASSUME NEW G \in [S -> Nat], NEW H \in [S -> Nat], NEW u \in S,
             \A a \in S : a # u => H[a] = G[a], H[u] = G[u] + k
      PROVE  SumFunction(H) = SumFunction(G) + k
  <2> HIDE DEF Places, Times, g, N
  <2> QED
    BY <1>0, SumGrows
<1>1. ASSUME NEW n \in Nat, NEW a
      PROVE  /\ IsFiniteSet(Places(n, a)) /\ Times(n, a) \in Nat
             /\ k * Times(n, a) \in Nat
  <2>1. Places(n, a) \subseteq 1 .. n /\ IsFiniteSet(1 .. n)
    BY FS_Interval
  <2>2. IsFiniteSet(Places(n, a))
    <3> HIDE DEF Places
    <3> QED
      BY <2>1, FS_Subset
  <2>3. Times(n, a) \in Nat
    <3> HIDE DEF Places
    <3> QED
      BY <2>2, FS_CardinalityType
  <2> HIDE DEF Places, Times
  <2> QED
    BY <2>2, <2>3
<1>2. ASSUME NEW n \in Nat PROVE g(n) \in [S -> Nat]
  <2> HIDE DEF Times
  <2>1. \A a \in S : f[a] \in Nat /\ k * Times(n, a) \in Nat
    BY <1>1
  <2>2. \A a \in S : f[a] + k * Times(n, a) \in Nat
    BY <2>1
  <2> QED
    BY <2>2
<1>3. 0 \in N
  <2>1. ASSUME NEW a \in S PROVE f[a] + k * Times(0, a) = f[a]
    <3>1. Places(0, a) = {}
      OBVIOUS
    <3>2. Times(0, a) = 0
      BY <3>1, FS_EmptySet
    <3> HIDE DEF Times
    <3> QED
      BY <3>2
  <2>2. g(0) = f
    <3> HIDE DEF Times
    <3> QED
      BY <2>1
  <2>3. SumFunction(f) \in Nat
    BY SumType
  <2>4. k * 0 = 0
    OBVIOUS
  <2> HIDE DEF g
  <2> QED
    BY <2>2, <2>3, <2>4
<1>4. ASSUME NEW n \in Nat, n \in N PROVE n + 1 \in N
  <2> SUFFICES ASSUME n + 1 <= length
               PROVE  SumFunction(g(n + 1)) = SumFunction(f) + k * (n + 1)
    OBVIOUS
  <2>1. PICK u \in S : u = p[n + 1]
    OBVIOUS
  <2>2. ASSUME NEW a \in S PROVE Places(n + 1, a) = IF a = u THEN Places(n, a) \union {n + 1}
                                                          ELSE Places(n, a)
    <3>1. 1 .. (n + 1) = (1 .. n) \union {n + 1}
      OBVIOUS
    <3> QED
      BY <2>1, <3>1
  <2>3. PICK G \in [S -> Nat] : G = g(n)
    <3>1. g(n) \in [S -> Nat]
      BY <1>2
    <3> HIDE DEF g
    <3> QED
      BY <3>1
  <2>4. PICK H \in [S -> Nat] : H = g(n + 1)
    <3>1. g(n + 1) \in [S -> Nat]
      BY <1>2
    <3> HIDE DEF g
    <3> QED
      BY <3>1
  <2>5. G[u] \in Nat
    OBVIOUS
  <2>6. \A a \in S : a # u => H[a] = G[a]
    <3>1. \A a \in S : a # u => Times(n + 1, a) = Times(n, a)
      BY <2>2
    <3> HIDE DEF Times
    <3> QED
      BY <2>3, <2>4, <3>1
  <2>7. H[u] = G[u] + k
    <3>1. Times(n + 1, u) = Times(n, u) + 1
      <4>1. n + 1 \notin Places(n, u)
        OBVIOUS
      <4>2. Places(n + 1, u) = Places(n, u) \union {n + 1}
        BY <2>2
      <4> HIDE DEF Places
      <4> QED
        BY <1>1, <4>1, <4>2, FS_AddElement
    <3> HIDE DEF Times
    <3>2. Times(n, u) \in Nat /\ f[u] \in Nat /\ k * Times(n, u) \in Nat
      BY <1>1
    <3>3. G[u] = f[u] + k * Times(n, u) /\ H[u] = f[u] + k * Times(n + 1, u)
      BY <2>3, <2>4
    <3>4. k * Times(n + 1, u) = k * Times(n, u) + k
      BY <3>1, <3>2, OneMore
    <3> QED
      BY <3>2, <3>3, <3>4
  <2>8. SumFunction(G) = SumFunction(f) + k * n
    BY <1>4, <2>3
  <2> HIDE DEF g, N
  <2>9. SumFunction(H) = SumFunction(G) + k
    <3> HIDE DEF Places, Times
    <3> QED
      BY <1>0, <2>6, <2>7
  <2>10. SumFunction(f) \in Nat /\ k * n \in Nat /\ k * (n + 1) = k * n + k
    BY SumType, OneMore
  <2> QED
    BY <2>4, <2>8, <2>9, <2>10
<1>5. SumFunction(g(length)) = SumFunction(f) + k * length
  <2>1. \A n \in Nat : n \in N
    <3> HIDE DEF N
    <3> QED
      BY <1>3, <1>4, NatInduces
  <2>2. length \in N
    BY <2>1
  <2> HIDE DEF g
  <2> QED
    BY <2>2
<1>6. [a \in S |-> f[a] + k * Occurrences(p, a)] = g(length)
  <2>1. \A a \in S : Occurrences(p, a) = Times(length, a)
    BY DEF Occurrences
  <2> HIDE DEF Times
  <2> QED
    BY <2>1
<1> HIDE DEF g
<1> QED
  BY <1>5, <1>6

\* The wallets after a refund.
LEMMA RefundedWallets ==
  ASSUME NEW v \in Vaults, NEW e \in Escrows, NEW id \in WagerIds, NEW stake \in Nat,
         NEW participants \in Seq(Addresses), NEW f \in Escrows
  PROVE  refund_wager(v, e, id, stake, participants).user_balance[f] =
           IF f = e
           THEN [a \in Addresses |->
                   v.user_balance[e][a] + stake * Occurrences(participants, a)]
           ELSE v.user_balance[f]
  BY DEF refund_wager, get_balance, Vaults

-----------------------------------------------------------------------------
(* What a call does to the debts of an escrow. *)

LEMMA FiniteLedgers == IsFiniteSet(Addresses) /\ IsFiniteSet(WagerIds)
<1>1. IsFiniteSet(Addresses)
  BY FiniteAccountsAssumption, FS_AddElement DEF Addresses
<1>2. IsFiniteSet(WagerIds)
  BY MaxWagersAssumption, FS_Interval DEF WagerIds
<1> QED
  BY <1>1, <1>2

\* The two halves of what escrow e owes.
Wallets(v, e) == SumFunction(v.user_balance[e])
Pots(v, e)    == SumFunction(v.wager_stake[e])

LEMMA OwedType ==
  ASSUME NEW v \in Vaults, NEW e \in Escrows
  PROVE  /\ v.strk[e] \in Nat /\ Wallets(v, e) \in Nat /\ Pots(v, e) \in Nat
         /\ Owed(v, e) = Wallets(v, e) + Pots(v, e)
<1>1. /\ v.user_balance[e] \in [Addresses -> Nat] /\ v.wager_stake[e] \in [WagerIds -> Nat]
      /\ v.strk[e] \in Nat
  BY DEF Vaults, Accounts
<1>2. SumFunction(v.user_balance[e]) \in Nat
  BY <1>1, FiniteLedgers, SumType
<1>3. SumFunction(v.wager_stake[e]) \in Nat
  BY <1>1, FiniteLedgers, SumType
<1> QED
  BY <1>1, <1>2, <1>3 DEF Wallets, Pots, Owed

\* The totals of the wallets and of the pots of a vault.
LEMMA CreditedWallets ==
  ASSUME NEW v \in Vaults, NEW e \in Escrows, NEW x \in Addresses, NEW n \in Nat, NEW f \in Escrows
  PROVE  SumFunction(Credited(v.user_balance, e, x, n)[f]) =
           SumFunction(v.user_balance[f]) + (IF f = e THEN n ELSE 0)
<1>1. PICK wallets \in [Escrows -> [Addresses -> Nat]] : wallets = v.user_balance
  BY DEF Vaults
<1>2. SumFunction(Credited(wallets, e, x, n)[f]) =
           SumFunction(wallets[f]) + (IF f = e THEN n ELSE 0)
  BY <1>1, FiniteLedgers, CreditedTotal
<1> QED
  BY <1>1, <1>2

LEMMA DebitedWallets ==
  ASSUME NEW v \in Vaults, NEW e \in Escrows, NEW x \in Addresses, NEW n \in Nat, v.user_balance[e][x] >= n, NEW f \in Escrows
  PROVE  SumFunction(v.user_balance[f]) =
           SumFunction(Debited(v.user_balance, e, x, n)[f]) + (IF f = e THEN n ELSE 0)
<1>1. PICK wallets \in [Escrows -> [Addresses -> Nat]] : wallets = v.user_balance
  BY DEF Vaults
<1>2. SumFunction(wallets[f]) =
           SumFunction(Debited(wallets, e, x, n)[f]) + (IF f = e THEN n ELSE 0)
  BY <1>1, FiniteLedgers, DebitedTotal
<1> QED
  BY <1>1, <1>2

LEMMA CreditedPots ==
  ASSUME NEW v \in Vaults, NEW e \in Escrows, NEW x \in WagerIds, NEW n \in Nat, NEW f \in Escrows
  PROVE  SumFunction(Credited(v.wager_stake, e, x, n)[f]) =
           SumFunction(v.wager_stake[f]) + (IF f = e THEN n ELSE 0)
<1>1. PICK pots \in [Escrows -> [WagerIds -> Nat]] : pots = v.wager_stake
  BY DEF Vaults
<1>2. SumFunction(Credited(pots, e, x, n)[f]) =
           SumFunction(pots[f]) + (IF f = e THEN n ELSE 0)
  BY <1>1, FiniteLedgers, CreditedTotal
<1> QED
  BY <1>1, <1>2

LEMMA EmptiedPots ==
  ASSUME NEW v \in Vaults, NEW e \in Escrows, NEW x \in WagerIds, NEW f \in Escrows
  PROVE  SumFunction(v.wager_stake[f]) =
           SumFunction(Emptied(v.wager_stake, e, x)[f]) + (IF f = e THEN v.wager_stake[e][x] ELSE 0)
<1>1. PICK pots \in [Escrows -> [WagerIds -> Nat]] : pots = v.wager_stake
  BY DEF Vaults
<1>2. SumFunction(pots[f]) =
           SumFunction(Emptied(pots, e, x)[f]) + (IF f = e THEN pots[e][x] ELSE 0)
  BY <1>1, FiniteLedgers, EmptiedTotal
<1> QED
  BY <1>1, <1>2

LEMMA RefundedWalletTotal ==
  ASSUME NEW wallets \in [Addresses -> Nat], NEW k \in Nat,
         NEW p, NEW length \in Nat, DOMAIN p = 1 .. length,
         \A i \in 1 .. length : p[i] \in Addresses
  PROVE  SumFunction([a \in Addresses |-> wallets[a] + k * Occurrences(p, a)])
           = SumFunction(wallets) + k * length
  BY FiniteLedgers, RefundedTotal

LEMMA RefundedListTotal ==
  ASSUME NEW v \in Vaults, NEW e \in Escrows, NEW stake \in Nat, NEW span \in Seq(Addresses)
  PROVE  SumFunction([a \in Addresses |->
                        v.user_balance[e][a] + stake * Occurrences(span, a)])
           = SumFunction(v.user_balance[e]) + stake * Len(span)
<1>1. PICK wallets \in [Addresses -> Nat] : wallets = v.user_balance[e]
  BY DEF Vaults
<1>2. /\ Len(span) \in Nat /\ DOMAIN span = 1 .. Len(span)
      /\ \A i \in 1 .. Len(span) : span[i] \in Addresses
  OBVIOUS
<1>3. SumFunction([a \in Addresses |-> wallets[a] + stake * Occurrences(span, a)])
        = SumFunction(wallets) + stake * Len(span)
  BY <1>2, RefundedWalletTotal
<1> QED
  BY <1>1, <1>3

LEMMA DepositOwes ==
  ASSUME NEW v \in Vaults, NEW e \in Escrows, NEW from \in Addresses, NEW amount \in Nat,
         CanDeposit(v, e, from, amount), NEW f \in Escrows
  PROVE  LET w == deposit_to_wallet(v, e, from, amount)
         IN  Wallets(w, f) = Wallets(v, f) + (IF f = e THEN amount ELSE 0)
  BY CreditedWallets, DepositResult DEF Wallets

LEMMA WithdrawOwes ==
  ASSUME NEW v \in Vaults, NEW e \in Escrows, NEW to \in Addresses, NEW amount \in Nat,
         CanWithdraw(v, e, to, amount), NEW f \in Escrows
  PROVE  LET w == withdraw_from_wallet(v, e, to, amount)
         IN  Wallets(v, f) = Wallets(w, f) + (IF f = e THEN amount ELSE 0)
<1>1. v.user_balance[e][to] >= amount
  BY DEF CanWithdraw, get_balance
<1> QED
  BY <1>1, DebitedWallets, WithdrawResult DEF Wallets

LEMMA FundOwes ==
  ASSUME NEW v \in Vaults, NEW e \in Escrows, NEW id \in WagerIds,
         NEW address \in Addresses, NEW amount \in Nat,
         CanFund(v, e, address, amount), NEW f \in Escrows
  PROVE  LET w == fund_wager(v, e, id, address, amount)
         IN  /\ Wallets(v, f) = Wallets(w, f) + (IF f = e THEN amount ELSE 0)
             /\ Pots(w, f) = Pots(v, f) + (IF f = e THEN amount ELSE 0)
<1>1. v.user_balance[e][address] >= amount
  BY DEF CanFund, get_balance
<1> QED
  BY <1>1, DebitedWallets, CreditedPots, FundResult DEF Wallets, Pots

\* An emptied pot is paid to the wallets of the same escrow, whole.
LEMMA DistributeOwes ==
  ASSUME NEW v \in Vaults, NEW e \in Escrows, NEW id \in WagerIds,
         NEW winner \in Addresses, NEW f \in Escrows
  PROVE  LET w == distribute_funds(v, e, id, winner)
             paid == IF f = e THEN v.wager_stake[e][id] ELSE 0
         IN  Wallets(w, f) = Wallets(v, f) + paid /\ Pots(v, f) = Pots(w, f) + paid
<1>1. PICK pot \in Nat : pot = v.wager_stake[e][id]
  BY DEF Vaults
<1>2. SumFunction(Credited(v.user_balance, e, winner, pot)[f]) =
        SumFunction(v.user_balance[f]) + (IF f = e THEN pot ELSE 0)
  BY CreditedWallets
<1>3. SumFunction(v.wager_stake[f]) =
        SumFunction(Emptied(v.wager_stake, e, id)[f])
          + (IF f = e THEN v.wager_stake[e][id] ELSE 0)
  BY EmptiedPots
<1> QED
  BY <1>1, <1>2, <1>3, DistributeResult DEF Wallets, Pots

LEMMA RefundOwes ==
  ASSUME NEW v \in Vaults, NEW e \in Escrows, NEW id \in WagerIds, NEW stake \in Nat,
         NEW span \in Seq(Addresses), CanRefund(v, e, id, stake, span), NEW f \in Escrows
  PROVE  LET w == refund_wager(v, e, id, stake, span)
             paid == IF f = e THEN v.wager_stake[e][id] ELSE 0
         IN  Wallets(w, f) = Wallets(v, f) + paid /\ Pots(v, f) = Pots(w, f) + paid
<1>0. PICK w : w = refund_wager(v, e, id, stake, span)
  OBVIOUS
<1>1. SumFunction(v.wager_stake[f]) =
        SumFunction(Emptied(v.wager_stake, e, id)[f])
          + (IF f = e THEN v.wager_stake[e][id] ELSE 0)
  BY EmptiedPots
<1>2. w.wager_stake = Emptied(v.wager_stake, e, id)
  BY <1>0, RefundResult
<1>3. Pots(v, f) = Pots(w, f) + (IF f = e THEN v.wager_stake[e][id] ELSE 0)
  BY <1>1, <1>2 DEF Pots
<1>4. CASE f = e
  <2>1. w.user_balance[f] = [a \in Addresses |->
                               v.user_balance[e][a] + stake * Occurrences(span, a)]
    BY <1>0, <1>4, RefundedWallets
  <2>2. SumFunction([a \in Addresses |->
                       v.user_balance[e][a] + stake * Occurrences(span, a)])
          = SumFunction(v.user_balance[e]) + stake * Len(span)
    BY RefundedListTotal
  <2>3. Wallets(w, f) = Wallets(v, f) + v.wager_stake[e][id]
    BY <1>4, <2>1, <2>2 DEF Wallets, CanRefund
  <2> QED
    BY <1>0, <1>3, <1>4, <2>3
<1>5. CASE f # e
  <2>1. w.user_balance[f] = v.user_balance[f]
    BY <1>0, <1>5 DEF refund_wager, Vaults
  <2>2. Wallets(w, f) = Wallets(v, f) /\ Wallets(v, f) \in Nat
    BY <2>1, OwedType DEF Wallets
  <2>3. Wallets(w, f) = Wallets(v, f) + 0
    BY <2>2
  <2> QED
    BY <1>0, <1>3, <1>5, <2>3
<1> QED
  BY <1>4, <1>5

-----------------------------------------------------------------------------
(* Theorems about EscrowContract. *)

\* The books stay a vault under every call the role holder or a user can make: in
\* particular no debit of escrow.cairo or of the token underflows.
THEOREM BooksTypeCorrect == BooksSpec => []BooksTypeOK
<1>1. BooksInit => BooksTypeOK
  BY EmptyVaultType DEF BooksInit, BooksTypeOK
<1>2. BooksTypeOK /\ [BooksNext]_booksVars => BooksTypeOK'
  <2> SUFFICES ASSUME books \in Vaults, [BooksNext]_booksVars
               PROVE  books' \in Vaults
    BY DEF BooksTypeOK
  <2>1. CASE UNCHANGED booksVars
    BY <2>1 DEF booksVars
  <2>2. ASSUME NEW e \in Escrows, NEW u \in Users, NEW n \in Approvals, Approve(u, e, n)
        PROVE  books' \in Vaults
    BY <2>2, ApproveType, AmountsAssumption DEF Approve
  <2>3. ASSUME NEW u \in Users, NEW n \in Amounts, NEW to \in Accounts, Transfer(u, to, n)
        PROVE  books' \in Vaults
    BY <2>3, TransferType, AmountsAssumption DEF Transfer, Accounts, Addresses
  <2>4. ASSUME NEW e \in Escrows, NEW a \in Addresses, NEW n \in Amounts, Deposit(e, a, n)
        PROVE  books' \in Vaults
    BY <2>4, DepositResult, AmountsAssumption DEF Deposit
  <2>5. ASSUME NEW e \in Escrows, NEW a \in Addresses, NEW n \in Amounts, Withdraw(e, a, n)
        PROVE  books' \in Vaults
    BY <2>5, WithdrawResult, AmountsAssumption DEF Withdraw
  <2>6. ASSUME NEW e \in Escrows, NEW a \in Addresses, NEW w \in WagerIds, NEW n \in Amounts,
               Fund(e, w, a, n)
        PROVE  books' \in Vaults
    BY <2>6, FundResult, AmountsAssumption DEF Fund
  <2>7. ASSUME NEW e \in Escrows, NEW a \in Addresses, NEW w \in WagerIds, Distribute(e, w, a)
        PROVE  books' \in Vaults
    BY <2>7, DistributeResult DEF Distribute
  <2>8. ASSUME NEW e \in Escrows, NEW w \in WagerIds, NEW n \in Amounts, NEW span \in Spans,
               Refund(e, w, n, span)
        PROVE  books' \in Vaults
    BY <2>8, RefundResult, AmountsAssumption, SpansAssumption DEF Refund
  <2> QED
    BY <2>1, <2>2, <2>3, <2>4, <2>5, <2>6, <2>7, <2>8 DEF BooksNext
<1> QED
  BY <1>1, <1>2, PTL DEF BooksSpec

\* The STRK escrow f holds and its debts move together: a call that adds to the debts
\* brings the STRK, one that takes STRK settles as much, the others move debts between
\* wallets and pots.  Token transfers can only bring STRK nobody is owed.
Balanced(f) ==
  LET held == books.strk[f]
  IN  /\ held' \in Nat /\ Wallets(books, f)' \in Nat /\ Pots(books, f)' \in Nat
      /\ \E n \in Nat :
           \/ /\ held' = held + n
              /\ Wallets(books, f)' = Wallets(books, f)
              /\ Pots(books, f)' = Pots(books, f)
           \/ /\ held' = held + n
              /\ Wallets(books, f)' = Wallets(books, f) + n
              /\ Pots(books, f)' = Pots(books, f)
           \/ /\ held = held' + n
              /\ Wallets(books, f) = Wallets(books, f)' + n
              /\ Pots(books, f)' = Pots(books, f)
           \/ /\ held' = held
              /\ Wallets(books, f) = Wallets(books, f)' + n
              /\ Pots(books, f)' = Pots(books, f) + n
           \/ /\ held' = held
              /\ Wallets(books, f)' = Wallets(books, f) + n
              /\ Pots(books, f) = Pots(books, f)' + n

LEMMA BalancedStep ==
  ASSUME BooksTypeOK, BooksTypeOK', [BooksNext]_booksVars, NEW f \in Escrows
  PROVE  Balanced(f)
<1> DEFINE held == books.strk[f]
           moved(e, n) == IF f = e THEN n ELSE 0
<1>0. /\ books \in Vaults /\ books' \in Vaults /\ f \in Accounts
      /\ held \in Nat /\ Wallets(books, f) \in Nat /\ Pots(books, f) \in Nat
      /\ held' \in Nat /\ Wallets(books, f)' \in Nat /\ Pots(books, f)' \in Nat
  BY OwedType DEF BooksTypeOK, Accounts
<1>1. CASE UNCHANGED booksVars
  <2>1. /\ held' = held + 0
        /\ Wallets(books, f)' = Wallets(books, f)
        /\ Pots(books, f)' = Pots(books, f)
    BY <1>0, <1>1 DEF booksVars, Wallets, Pots
  <2> QED
    BY <1>0, <2>1 DEF Balanced
<1>2. ASSUME NEW e \in Escrows, NEW u \in Users, NEW n \in Approvals, Approve(u, e, n)
      PROVE  Balanced(f)
  <2>1. books' = approve(books, u, e, n) /\ n \in Nat
    BY <1>2, AmountsAssumption DEF Approve
  <2>2. /\ books'.strk = books.strk
        /\ books'.user_balance = books.user_balance
        /\ books'.wager_stake = books.wager_stake
    BY <1>0, <2>1 DEF approve, Vaults
  <2>3. /\ held' = held + 0
        /\ Wallets(books, f)' = Wallets(books, f)
        /\ Pots(books, f)' = Pots(books, f)
    BY <1>0, <2>2 DEF Wallets, Pots
  <2> QED
    BY <1>0, <2>3 DEF Balanced
<1>3. ASSUME NEW u \in Users, NEW n \in Amounts, NEW to \in Accounts, Transfer(u, to, n)
      PROVE  Balanced(f)
  <2>1. /\ books' = transfer(books, u, to, n) /\ n \in Nat
        /\ u \in Accounts /\ u # f
    BY <1>3, AmountsAssumption, AddressesAssumption DEF Transfer, Accounts, Addresses
  <2>2. /\ Wallets(books, f)' = Wallets(books, f)
        /\ Pots(books, f)' = Pots(books, f)
    BY <1>0, <2>1, TransferFrame DEF Wallets, Pots
  <2>3. held' = IF to = f THEN held + n ELSE held
    BY <1>0, <2>1, TransferMoves
  <2>4. held' = held + (IF to = f THEN n ELSE 0) /\ (IF to = f THEN n ELSE 0) \in Nat
    BY <1>0, <2>1, <2>3
  <2> QED
    BY <1>0, <2>2, <2>4 DEF Balanced
<1>4. ASSUME NEW e \in Escrows, NEW a \in Addresses, NEW n \in Amounts, Deposit(e, a, n)
      PROVE  Balanced(f)
  <2>1. /\ CanDeposit(books, e, a, n) /\ n \in Nat
        /\ books' = deposit_to_wallet(books, e, a, n)
    BY <1>4, AmountsAssumption DEF Deposit
  <2>2. /\ Wallets(books, f)' = Wallets(books, f) + moved(e, n)
        /\ Pots(books, f)' = Pots(books, f)
    BY <1>0, <2>1, DepositOwes, DepositResult DEF Pots
  <2>3. held' = held + moved(e, n)
    BY <1>0, <2>1, DepositMoves
  <2>4. moved(e, n) \in Nat
    BY <2>1
  <2> HIDE DEF moved
  <2> QED
    BY <1>0, <2>2, <2>3, <2>4 DEF Balanced
<1>5. ASSUME NEW e \in Escrows, NEW a \in Addresses, NEW n \in Amounts, Withdraw(e, a, n)
      PROVE  Balanced(f)
  <2>1. /\ CanWithdraw(books, e, a, n) /\ n \in Nat /\ books.strk[e] >= n
        /\ books' = withdraw_from_wallet(books, e, a, n)
    BY <1>5, AmountsAssumption DEF Withdraw, CanWithdraw, CanTransfer
  <2>2. /\ Wallets(books, f) = Wallets(books, f)' + moved(e, n)
        /\ Pots(books, f)' = Pots(books, f)
    BY <1>0, <2>1, WithdrawOwes, WithdrawResult DEF Pots
  <2>3. held = held' + moved(e, n)
    <3>1. f # a
      BY AddressesAssumption DEF Addresses
    <3>2. held' = IF f = e THEN held - n ELSE held
      BY <1>0, <2>1, <3>1, WithdrawMoves
    <3> QED
      BY <1>0, <2>1, <3>2
  <2>4. moved(e, n) \in Nat
    BY <2>1
  <2> HIDE DEF moved
  <2> QED
    BY <1>0, <2>2, <2>3, <2>4 DEF Balanced
<1>6. ASSUME NEW e \in Escrows, NEW a \in Addresses, NEW w \in WagerIds, NEW n \in Amounts,
             Fund(e, w, a, n)
      PROVE  Balanced(f)
  <2>1. /\ CanFund(books, e, a, n) /\ n \in Nat
        /\ books' = fund_wager(books, e, w, a, n)
    BY <1>6, AmountsAssumption DEF Fund
  <2>2. /\ Wallets(books, f) = Wallets(books, f)' + moved(e, n)
        /\ Pots(books, f)' = Pots(books, f) + moved(e, n)
    BY <1>0, <2>1, FundOwes
  <2>3. held' = held
    BY <1>0, <2>1, NoTokenMoves
  <2>4. moved(e, n) \in Nat
    BY <2>1
  <2> HIDE DEF moved
  <2> QED
    BY <1>0, <2>2, <2>3, <2>4 DEF Balanced
<1>7. ASSUME NEW n \in Nat,
             /\ books'.strk = books.strk
             /\ Wallets(books', f) = Wallets(books, f) + n
             /\ Pots(books, f) = Pots(books', f) + n
      PROVE  Balanced(f)
  <2>1. /\ Wallets(books, f)' = Wallets(books, f) + n
        /\ Pots(books, f) = Pots(books, f)' + n
        /\ held' = held
    BY <1>7 DEF Wallets, Pots
  <2> QED
    BY <1>0, <2>1 DEF Balanced
<1>8. ASSUME NEW e \in Escrows, NEW a \in Addresses, NEW w \in WagerIds, Distribute(e, w, a)
      PROVE  Balanced(f)
  <2>1. books' = distribute_funds(books, e, w, a)
    BY <1>8 DEF Distribute
  <2>2. PICK n \in Nat : n = moved(e, books.wager_stake[e][w])
    BY <1>0 DEF Vaults
  <2>3. /\ Wallets(books', f) = Wallets(books, f) + n
        /\ Pots(books, f) = Pots(books', f) + n
    BY <1>0, <2>1, <2>2, DistributeOwes
  <2>4. books'.strk = books.strk
    BY <1>0, <2>1, NoTokenMoves
  <2> QED
    BY <1>7, <2>3, <2>4
<1>9. ASSUME NEW e \in Escrows, NEW w \in WagerIds, NEW stake \in Amounts, NEW span \in Spans,
             Refund(e, w, stake, span)
      PROVE  Balanced(f)
  <2>1. /\ books' = refund_wager(books, e, w, stake, span)
        /\ CanRefund(books, e, w, stake, span)
        /\ stake \in Nat /\ span \in Seq(Addresses)
    BY <1>9, AmountsAssumption, SpansAssumption DEF Refund
  <2>2. PICK n \in Nat : n = moved(e, books.wager_stake[e][w])
    BY <1>0 DEF Vaults
  <2>3. /\ Wallets(books', f) = Wallets(books, f) + n
        /\ Pots(books, f) = Pots(books', f) + n
    BY <1>0, <2>1, <2>2, RefundOwes
  <2>4. books'.strk = books.strk
    BY <1>0, <2>1, NoTokenMoves
  <2> QED
    BY <1>7, <2>3, <2>4
<1> QED
  BY <1>1, <1>2, <1>3, <1>4, <1>5, <1>6, <1>8, <1>9 DEF BooksNext

\* The escrow can always pay everybody, however many wallets and pots there are.
THEOREM AlwaysSolvent == BooksSpec => []Solvency
<1>1. BooksInit => Solvency
  <2> SUFFICES ASSUME BooksInit, NEW e \in Escrows
               PROVE  books.strk[e] >= Owed(books, e)
    BY DEF Solvency
  <2>1. PICK none \in [Addresses -> Nat] :
          none = books.user_balance[e] /\ \A a \in Addresses : none[a] = 0
    BY DEF BooksInit, EmptyVault
  <2>2. PICK empty \in [WagerIds -> Nat] :
          empty = books.wager_stake[e] /\ \A id \in WagerIds : empty[id] = 0
    BY DEF BooksInit, EmptyVault
  <2>3. SumFunction(none) = 0
    BY <2>1, FiniteLedgers, SumZero
  <2>4. SumFunction(empty) = 0
    BY <2>2, FiniteLedgers, SumZero
  <2>5. books.strk[e] = 0
    BY AddressesAssumption DEF BooksInit, EmptyVault, Accounts
  <2> QED
    BY <2>1, <2>2, <2>3, <2>4, <2>5 DEF Owed
<1>2. BooksTypeOK /\ BooksTypeOK' /\ Solvency /\ [BooksNext]_booksVars => Solvency'
  <2> SUFFICES ASSUME BooksTypeOK, BooksTypeOK', Solvency, [BooksNext]_booksVars,
                      NEW f \in Escrows
               PROVE  books'.strk[f] >= Owed(books', f)
    BY DEF Solvency
  <2>1. /\ books.strk[f] \in Nat /\ Wallets(books, f) \in Nat /\ Pots(books, f) \in Nat
        /\ Owed(books, f) = Wallets(books, f) + Pots(books, f)
        /\ Owed(books', f) = Wallets(books', f) + Pots(books', f)
    BY OwedType DEF BooksTypeOK
  <2>2. books.strk[f] >= Wallets(books, f) + Pots(books, f)
    BY <2>1 DEF Solvency
  <2>3. Balanced(f)
    BY BalancedStep
  <2>4. books'.strk[f] >= Wallets(books, f)' + Pots(books, f)'
    BY <2>1, <2>2, <2>3 DEF Balanced
  <2>5. Wallets(books, f)' = Wallets(books', f) /\ Pots(books, f)' = Pots(books', f)
    BY DEF Wallets, Pots
  <2> QED
    BY <2>1, <2>4, <2>5
<1> QED
  BY <1>1, <1>2, BooksTypeCorrect, PTL DEF BooksSpec

\* A pot that loses anything is emptied, and the wallets of its escrow gain exactly what
\* was in it, for every pot, payout and refund list.
THEOREM PotsAlwaysPayInFull == BooksSpec => PotsPayInFull
<1> DEFINE PaidInFull(e, w) ==
             books'.wager_stake[e][w] < books.wager_stake[e][w] =>
               /\ books'.wager_stake[e][w] = 0
               /\ SumFunction(books'.user_balance[e])
                    = SumFunction(books.user_balance[e]) + books.wager_stake[e][w]
<1>1. ASSUME BooksTypeOK, BooksTypeOK', [BooksNext]_booksVars,
             NEW e \in Escrows, NEW w \in WagerIds
      PROVE  PaidInFull(e, w)
  <2>0. books \in Vaults /\ books.wager_stake[e][w] \in Nat
    BY <1>1 DEF BooksTypeOK, Vaults
  <2>1. ASSUME books'.wager_stake = books.wager_stake
        PROVE  PaidInFull(e, w)
    BY <2>0, <2>1
  <2>2. ASSUME NEW f \in Escrows, NEW x \in WagerIds,
               books'.wager_stake = Emptied(books.wager_stake, f, x),
               LET paid == IF e = f THEN books.wager_stake[f][x] ELSE 0
               IN  Wallets(books', e) = Wallets(books, e) + paid
        PROVE  PaidInFull(e, w)
    <3>1. CASE e = f /\ w = x
      <4>1. books'.wager_stake[e][w] = 0
        BY <2>0, <2>2, <3>1 DEF Emptied, Vaults
      <4> QED
        BY <2>2, <3>1, <4>1 DEF Wallets
    <3>2. CASE ~(e = f /\ w = x)
      <4>1. books'.wager_stake[e][w] = books.wager_stake[e][w]
        BY <2>0, <2>2, <3>2 DEF Emptied, Vaults
      <4> QED
        BY <2>0, <4>1
    <3> QED
      BY <3>1, <3>2
  <2>3. CASE UNCHANGED booksVars
    BY <2>1, <2>3 DEF booksVars
  <2>4. ASSUME NEW f \in Escrows, NEW u \in Users, NEW n \in Approvals, Approve(u, f, n)
        PROVE  PaidInFull(e, w)
    <3>1. books'.wager_stake = books.wager_stake
      BY <2>0, <2>4 DEF Approve, approve, Vaults
    <3> QED
      BY <2>1, <3>1
  <2>5. ASSUME NEW u \in Users, NEW n \in Amounts, NEW to \in Accounts, Transfer(u, to, n)
        PROVE  PaidInFull(e, w)
    <3>1. books'.wager_stake = books.wager_stake
      BY <2>0, <2>5, TransferFrame DEF Transfer
    <3> QED
      BY <2>1, <3>1
  <2>6. ASSUME NEW f \in Escrows, NEW a \in Addresses, NEW n \in Amounts, Deposit(f, a, n)
        PROVE  PaidInFull(e, w)
    <3>1. books'.wager_stake = books.wager_stake
      BY <2>0, <2>6, DepositResult, AmountsAssumption DEF Deposit
    <3> QED
      BY <2>1, <3>1
  <2>7. ASSUME NEW f \in Escrows, NEW a \in Addresses, NEW n \in Amounts, Withdraw(f, a, n)
        PROVE  PaidInFull(e, w)
    <3>1. books'.wager_stake = books.wager_stake
      BY <2>0, <2>7, WithdrawResult, AmountsAssumption DEF Withdraw
    <3> QED
      BY <2>1, <3>1
  <2>8. ASSUME NEW f \in Escrows, NEW a \in Addresses, NEW x \in WagerIds, NEW n \in Amounts,
               Fund(f, x, a, n)
        PROVE  PaidInFull(e, w)
    <3>1. books'.wager_stake = Credited(books.wager_stake, f, x, n) /\ n \in Nat
      BY <2>0, <2>8, FundResult, AmountsAssumption DEF Fund
    <3>2. books'.wager_stake[e][w] >= books.wager_stake[e][w] /\ books'.wager_stake[e][w] \in Nat
      BY <2>0, <3>1 DEF Credited, Vaults
    <3> QED
      BY <2>0, <3>2
  <2>9. ASSUME NEW f \in Escrows, NEW a \in Addresses, NEW x \in WagerIds, Distribute(f, x, a)
        PROVE  PaidInFull(e, w)
    <3>1. books' = distribute_funds(books, f, x, a)
      BY <2>9 DEF Distribute
    <3>2. books'.wager_stake = Emptied(books.wager_stake, f, x)
      BY <2>0, <3>1, DistributeResult
    <3>3. Wallets(books', e) =
            Wallets(books, e) + (IF e = f THEN books.wager_stake[f][x] ELSE 0)
      BY <2>0, <3>1, DistributeOwes
    <3> QED
      BY <2>2, <3>2, <3>3
  <2>10. ASSUME NEW f \in Escrows, NEW x \in WagerIds, NEW n \in Amounts, NEW span \in Spans,
                Refund(f, x, n, span)
         PROVE  PaidInFull(e, w)
    <3>1. /\ books' = refund_wager(books, f, x, n, span)
          /\ CanRefund(books, f, x, n, span)
          /\ n \in Nat /\ span \in Seq(Addresses)
      BY <2>10, AmountsAssumption, SpansAssumption DEF Refund
    <3>2. books'.wager_stake = Emptied(books.wager_stake, f, x)
      BY <2>0, <3>1, RefundResult
    <3>3. Wallets(books', e) =
            Wallets(books, e) + (IF e = f THEN books.wager_stake[f][x] ELSE 0)
      BY <2>0, <3>1, RefundOwes
    <3> QED
      BY <2>2, <3>2, <3>3
  <2> HIDE DEF PaidInFull
  <2> QED
    BY <1>1, <2>3, <2>4, <2>5, <2>6, <2>7, <2>8, <2>9, <2>10 DEF BooksNext
<1>2. BooksTypeOK /\ BooksTypeOK' /\ [BooksNext]_booksVars =>
        [ \A e \in Escrows, w \in WagerIds :
            books'.wager_stake[e][w] < books.wager_stake[e][w] =>
              /\ books'.wager_stake[e][w] = 0
              /\ SumFunction(books'.user_balance[e])
                   = SumFunction(books.user_balance[e]) + books.wager_stake[e][w] ]_booksVars
  BY <1>1
<1> QED
  BY <1>2, BooksTypeCorrect, PTL DEF BooksSpec, PotsPayInFull
=============================================================================
