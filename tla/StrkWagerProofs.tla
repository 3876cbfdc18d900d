-------------------------- MODULE StrkWagerProofs --------------------------
(* Theorems about StrkWager, for every choice of its constants. *)
EXTENDS StrkWagerRefinement, EscrowProofs

-----------------------------------------------------------------------------
(* Type correctness. *)

\* Topping up and staking, as create_wager and join_wager do it: the pot grows by the
\* stake, whichever of the wallet and the token account paid for it.
LEMMA StakePaidResult ==
  ASSUME vault \in Vaults, escrow_address \in Escrows \union {Zero},
         NEW caller \in Users, NEW id \in WagerIds, NEW stake \in Nat,
         StakePaidBy(caller, id, stake)
  PROVE  /\ vault' \in Vaults
         /\ escrow_address \in Escrows
         /\ stake > 0
         /\ vault'.wager_stake = Credited(vault.wager_stake, escrow_address, id, stake)
<1> DEFINE e == escrow_address
           topped == ToppedUp(caller, stake)
<1>1. e \in Escrows /\ caller \in Addresses
  BY DEF StakePaidBy, EscrowConfigured, Addresses
<1>2. topped \in Vaults /\ topped.wager_stake = vault.wager_stake
  <2>1. CASE NeedsTopUp(caller, stake)
    <3>1. vault.user_balance[e][caller] \in Nat
      BY <1>1 DEF Vaults
    <3>2. TopUp(caller, stake) \in Nat
      BY <2>1, <3>1 DEF NeedsTopUp, TopUp, get_balance
    <3>3. CanDeposit(vault, e, caller, TopUp(caller, stake))
      BY <2>1 DEF StakePaidBy, CanTopUp
    <3>4. topped = deposit_to_wallet(vault, e, caller, TopUp(caller, stake))
      BY <2>1 DEF ToppedUp
    <3> HIDE DEF e, topped
    <3>5. /\ deposit_to_wallet(vault, e, caller, TopUp(caller, stake)) \in Vaults
          /\ deposit_to_wallet(vault, e, caller, TopUp(caller, stake)).wager_stake
               = vault.wager_stake
      BY <1>1, <3>2, <3>3, DepositResult
    <3> QED
      BY <3>4, <3>5
  <2>2. CASE ~NeedsTopUp(caller, stake)
    BY <2>2 DEF ToppedUp
  <2> QED
    BY <2>1, <2>2
<1>3. /\ CanFund(topped, e, caller, stake)
      /\ vault' = fund_wager(topped, e, id, caller, stake)
  BY DEF StakePaidBy
<1>4. stake > 0
  BY <1>3 DEF CanFund
<1> HIDE DEF e, topped
<1>5. /\ fund_wager(topped, e, id, caller, stake) \in Vaults
      /\ fund_wager(topped, e, id, caller, stake).wager_stake
           = Credited(topped.wager_stake, e, id, stake)
  BY <1>1, <1>2, <1>3, FundResult
<1> QED
  BY <1>1, <1>2, <1>3, <1>4, <1>5 DEF e

\* Setting a wager's state and winner keeps it a wager.
LEMMA RuledType ==
  ASSUME wagers \in [WagerIds -> Wager], NEW id \in WagerIds, NEW winner \in Users,
         wagers' = [wagers EXCEPT ![id].state = "Resolved", ![id].winner = winner]
  PROVE  wagers' \in [WagerIds -> Wager]
<1> DEFINE ruled == [wagers[id] EXCEPT !.state = "Resolved", !.winner = winner]
<1>1. ruled \in Wager
  BY DEF Wager, States, Addresses
<1>2. wagers' = [wagers EXCEPT ![id] = ruled]
  OBVIOUS
<1> QED
  BY <1>1, <1>2

LEMMA TypeInit == Init => TypeOK
  BY EmptyVaultType, MaxWagersAssumption, MaxTimeAssumption
  DEF Init, TypeOK, Wager, NoWager, Claims, Modes, States, Times, Addresses

\* The escrow calls of the wallet functions and the token calls of the environment.
LEMMA WalletType ==
  ASSUME TypeOK,
         \/ WalletCall
         \/ \E u \in Users, e \in Escrows, n \in Approvals : ApproveEscrow(u, e, n)
  PROVE  TypeOK' /\ vault'.wager_stake = vault.wager_stake
<1> USE AmountsAssumption DEF TypeOK, Addresses
<1>1. vault' \in Vaults /\ vault'.wager_stake = vault.wager_stake
  <2>1. ASSUME NEW u \in Users, NEW n \in Amounts, fund_wallet(u, n)
        PROVE  vault' \in Vaults /\ vault'.wager_stake = vault.wager_stake
    <3>1. /\ escrow_address \in Escrows /\ u \in Addresses /\ n \in Nat
          /\ CanDeposit(vault, escrow_address, u, n)
          /\ vault' = deposit_to_wallet(vault, escrow_address, u, n)
      BY <2>1 DEF fund_wallet, EscrowConfigured
    <3> QED
      BY <3>1, DepositResult
  <2>2. ASSUME NEW u \in Users, NEW n \in Amounts, withdraw(u, n)
        PROVE  vault' \in Vaults /\ vault'.wager_stake = vault.wager_stake
    <3>1. /\ escrow_address \in Escrows /\ u \in Addresses /\ n \in Nat
          /\ CanWithdraw(vault, escrow_address, u, n)
          /\ vault' = withdraw_from_wallet(vault, escrow_address, u, n)
      BY <2>2 DEF withdraw, EscrowConfigured
    <3> QED
      BY <3>1, WithdrawResult
  <2>3. ASSUME NEW u \in Users, NEW n \in Amounts, NEW to \in Accounts, TransferToken(u, to, n)
        PROVE  vault' \in Vaults /\ vault'.wager_stake = vault.wager_stake
    <3>1. /\ u \in Accounts /\ n \in Nat
          /\ CanTransfer(vault, u, to, n)
          /\ vault' = transfer(vault, u, to, n)
      BY <2>3 DEF TransferToken, Accounts
    <3> QED
      BY <3>1, TransferType, TransferFrame
  <2>4. ASSUME NEW u \in Users, NEW e \in Escrows, NEW n \in Approvals, ApproveEscrow(u, e, n)
        PROVE  vault' \in Vaults /\ vault'.wager_stake = vault.wager_stake
    BY <2>4, ApproveType DEF ApproveEscrow
  <2> QED
    BY <2>1, <2>2, <2>3, <2>4 DEF WalletCall
<1>2. UNCHANGED <<wager_count, wagers, participation, ballots, settings, now>>
  BY DEF WalletCall, fund_wallet, withdraw, TransferToken, ApproveEscrow
<1> QED
  BY <1>1, <1>2 DEF participation, ballots, settings

LEMMA CreateType ==
  ASSUME TypeOK, NEW u \in Users, NEW n \in Amounts, NEW m \in Modes, NEW c \in Claims,
         NEW t \in Times, create_wager(u, n, m, c, t)
  PROVE  TypeOK'
<1> DEFINE id == wager_count + 1
<1> USE AmountsAssumption, MaxWagersAssumption DEF TypeOK
<1>1. id \in WagerIds /\ n \in Nat
  BY DEF create_wager, WagerIds
<1>2. vault' \in Vaults
  BY <1>1, StakePaidResult DEF create_wager
<1>3. wager_count' \in 0 .. MaxWagers
  BY <1>1 DEF create_wager, WagerIds
<1>4. wagers' \in [WagerIds -> Wager]
  BY <1>1 DEF create_wager, Wager, Addresses, States
<1>5. /\ wager_participants' \in [WagerIds -> Seq(Users)]
      /\ wager_participants_mapping' \in SUBSET (WagerIds \X Users)
      /\ wager_participants_claim' \in [WagerIds -> [Users -> Claims]]
  BY <1>1 DEF create_wager, AddParticipant
<1>6. /\ wager_outcome_votes' \in SUBSET (WagerIds \X Users)
      /\ wager_outcome_submitted' \in SUBSET (WagerIds \X Users)
  BY DEF create_wager
<1> QED
  BY <1>2, <1>3, <1>4, <1>5, <1>6 DEF create_wager, settings

LEMMA JoinType ==
  ASSUME TypeOK, NEW u \in Users, NEW id \in WagerIds, NEW c \in Claims,
         join_wager(u, id, c)
  PROVE  TypeOK'
<1> USE DEF TypeOK
<1>1. wagers[id].stake \in Nat
  BY DEF Wager
<1>2. vault' \in Vaults
  BY <1>1, StakePaidResult DEF join_wager
<1>3. wagers' \in [WagerIds -> Wager]
  BY DEF join_wager, Wager, States
<1>4. /\ wager_participants' \in [WagerIds -> Seq(Users)]
      /\ wager_participants_mapping' \in SUBSET (WagerIds \X Users)
      /\ wager_participants_claim' \in [WagerIds -> [Users -> Claims]]
  BY DEF join_wager, AddParticipant
<1> QED
  BY <1>2, <1>3, <1>4 DEF join_wager, settings, ballots

LEMMA SubmitType ==
  ASSUME TypeOK, NEW u \in Users, NEW id \in WagerIds, NEW vote \in BOOLEAN,
         submit_outcome(u, id, vote)
  PROVE  TypeOK'
<1> USE DEF TypeOK
<1>1. vault' \in Vaults /\ wagers' \in [WagerIds -> Wager]
  <2>1. ASSUME NEW claim, _resolve_wager_based_on_outcome(id, claim)
        PROVE  vault' \in Vaults /\ wagers' \in [WagerIds -> Wager]
    <3>1. PICK i \in DOMAIN wager_participants[id] :
            LET winner == wager_participants[id][i]
            IN  /\ EscrowConfigured
                /\ wagers' = [wagers EXCEPT ![id].state = "Resolved", ![id].winner = winner]
                /\ vault' = distribute_funds(vault, escrow_address, id, winner)
      BY <2>1 DEF _resolve_wager_based_on_outcome
    <3>2. wager_participants[id][i] \in Users
      OBVIOUS
    <3>3. vault' \in Vaults
      BY <3>1, <3>2, DistributeResult DEF EscrowConfigured, Addresses
    <3>4. wagers' \in [WagerIds -> Wager]
      BY <3>1, <3>2, RuledType
    <3> QED
      BY <3>3, <3>4
  <2>2. CASE /\ wagers' = [wagers EXCEPT ![id].state =
                             IF @ = "Active" THEN "VotingPhase" ELSE @]
             /\ UNCHANGED vault
    BY <2>2 DEF Wager, States
  <2> QED
    BY <2>1, <2>2 DEF submit_outcome
<1>2. /\ wager_outcome_votes' \in SUBSET (WagerIds \X Users)
      /\ wager_outcome_submitted' \in SUBSET (WagerIds \X Users)
  BY DEF submit_outcome
<1> QED
  BY <1>1, <1>2 DEF submit_outcome, settings, participation

LEMMA CancelType ==
  ASSUME TypeOK, NEW id \in WagerIds, cancel_wager(id)
  PROVE  TypeOK'
<1> USE DEF TypeOK
<1>1. wagers[id].stake \in Nat /\ wager_participants[id] \in Seq(Addresses)
  BY DEF Wager, Addresses
<1>2. vault' \in Vaults
  BY <1>1, RefundResult DEF cancel_wager, EscrowConfigured
<1>3. wagers' \in [WagerIds -> Wager]
  BY DEF cancel_wager, Wager, States
<1> QED
  BY <1>2, <1>3 DEF cancel_wager, settings, participation, ballots

LEMMA AdminType ==
  ASSUME TypeOK, AdminCall
  PROVE  TypeOK'
<1> USE DEF TypeOK
<1>1. ASSUME NEW id \in WagerIds, NEW u \in Users, resolve_wager(Admin, id, u)
      PROVE  TypeOK'
  <2>1. wagers' \in [WagerIds -> Wager]
    BY <1>1, RuledType DEF resolve_wager
  <2> QED
    BY <1>1, <2>1 DEF resolve_wager, settings, participation, ballots
<1>2. ASSUME NEW e \in Escrows, set_escrow_address(Admin, e)
      PROVE  TypeOK'
  BY <1>2 DEF set_escrow_address, participation, ballots
<1>3. CASE renounce_role(Admin)
  BY <1>3 DEF renounce_role, participation, ballots
<1> QED
  BY <1>1, <1>2, <1>3 DEF AdminCall

LEMMA TypeStep == TypeOK /\ [Next]_vars => TypeOK'
<1> SUFFICES ASSUME TypeOK, [Next]_vars
             PROVE  TypeOK'
  OBVIOUS
<1>1. CASE WagerCall
  BY <1>1, CreateType, JoinType, SubmitType, CancelType DEF WagerCall
<1>2. CASE NextBlock
  BY <1>2, MaxTimeAssumption DEF NextBlock, TypeOK, participation, ballots, settings, Times
<1>3. CASE UNCHANGED vars
  BY <1>3 DEF vars, TypeOK, participation, ballots, settings
<1> QED
  BY <1>1, <1>2, <1>3, WalletType, AdminType DEF Next

\* Every variable keeps its type whatever the users, wagers, amounts and escrows: no
\* subtraction of the contracts underflows.
THEOREM TypeCorrect == Spec => []TypeOK
  BY TypeInit, TypeStep, PTL DEF Spec

-----------------------------------------------------------------------------
(* The records of the wager contract: participants, claims, ballots, pots. *)

records == <<wager_count, wagers, participation, ballots>>

\* What decides a wager, or adds a participant to it, leaves its terms alone and every
\* other wager as it was.
SameTerms(id) ==
  \A x \in WagerIds :
    /\ wagers'[x].creator = wagers[x].creator
    /\ wagers'[x].stake = wagers[x].stake
    /\ wagers'[x].mode = wagers[x].mode
    /\ x # id => wagers'[x] = wagers[x]

\* The steps that do not touch the records move no money into or out of a pot.
LEMMA BooksFrame ==
  ASSUME TypeOK,
         \/ WalletCall
         \/ \E u \in Users, e \in Escrows, n \in Approvals : ApproveEscrow(u, e, n)
         \/ NextBlock
         \/ \E e \in Escrows : set_escrow_address(Admin, e)
         \/ renounce_role(Admin)
         \/ UNCHANGED vars
  PROVE  UNCHANGED records /\ vault'.wager_stake = vault.wager_stake
<1>1. CASE \/ WalletCall
           \/ \E u \in Users, e \in Escrows, n \in Approvals : ApproveEscrow(u, e, n)
  BY <1>1, WalletType
  DEF records, WalletCall, fund_wallet, withdraw, TransferToken, ApproveEscrow
<1>2. CASE \/ NextBlock
           \/ \E e \in Escrows : set_escrow_address(Admin, e)
           \/ renounce_role(Admin)
           \/ UNCHANGED vars
  BY <1>2 DEF records, vars, NextBlock, set_escrow_address, renounce_role
<1> QED
  BY <1>1, <1>2

LEMMA RulingFrame ==
  ASSUME TypeOK, NEW id \in WagerIds, NEW winner \in Users,
         wagers' = [wagers EXCEPT ![id].state = "Resolved", ![id].winner = winner]
  PROVE  /\ SameTerms(id)
         /\ wagers'[id].state = "Resolved"
         /\ wagers'[id].winner = winner
  BY DEF TypeOK, Wager, SameTerms

LEMMA StateFrame ==
  ASSUME TypeOK, NEW id \in WagerIds, NEW s,
         wagers' = [wagers EXCEPT ![id].state = s]
  PROVE  SameTerms(id) /\ wagers'[id].state = s
  BY DEF TypeOK, Wager, SameTerms

\* A vote either leaves the wager open and the money where it is, or decides it for the
\* first participant who claimed the outcome and empties the pot to that participant.
LEMMA SubmitCases ==
  ASSUME TypeOK, NEW u \in Users, NEW id \in WagerIds, NEW vote \in BOOLEAN,
         submit_outcome(u, id, vote)
  PROVE  /\ SameTerms(id)
         /\ \/ /\ _check_resolution(id, wager_outcome_submitted', wager_outcome_votes') = {}
               /\ wagers'[id].state =
                     IF wagers[id].state = "Active" THEN "VotingPhase" ELSE wagers[id].state
               /\ vault' = vault
            \/ \E outcome \in _check_resolution(id, wager_outcome_submitted',
                                                  wager_outcome_votes') :
               \E i \in DOMAIN wager_participants[id] :
                 /\ FirstWithClaim(id, ClaimOf(outcome), i)
                 /\ wagers'[id].state = "Resolved"
                 /\ wagers'[id].winner = wager_participants[id][i]
                 /\ escrow_address \in Escrows
                 /\ vault'.wager_stake = Emptied(vault.wager_stake, escrow_address, id)
<1> DEFINE agreed == _check_resolution(id, wager_outcome_submitted', wager_outcome_votes')
<1>1. CASE /\ agreed = {}
           /\ wagers' = [wagers EXCEPT ![id].state =
                           IF @ = "Active" THEN "VotingPhase" ELSE @]
           /\ UNCHANGED vault
  BY <1>1, StateFrame
<1>2. ASSUME NEW outcome \in agreed,
             _resolve_wager_based_on_outcome(id, ClaimOf(outcome))
      PROVE  /\ SameTerms(id)
             /\ \E i \in DOMAIN wager_participants[id] :
                 /\ FirstWithClaim(id, ClaimOf(outcome), i)
                 /\ wagers'[id].state = "Resolved"
                 /\ wagers'[id].winner = wager_participants[id][i]
                 /\ escrow_address \in Escrows
                 /\ vault'.wager_stake = Emptied(vault.wager_stake, escrow_address, id)
  <2>1. PICK i \in DOMAIN wager_participants[id] :
          /\ FirstWithClaim(id, ClaimOf(outcome), i)
          /\ EscrowConfigured
          /\ wagers' = [wagers EXCEPT ![id].state = "Resolved",
                                      ![id].winner = wager_participants[id][i]]
          /\ vault' = distribute_funds(vault, escrow_address, id, wager_participants[id][i])
    BY <1>2 DEF _resolve_wager_based_on_outcome
  <2>2. wager_participants[id][i] \in Users
    BY DEF TypeOK
  <2>3. escrow_address \in Escrows
    BY <2>1 DEF EscrowConfigured, TypeOK
  <2>4. vault'.wager_stake = Emptied(vault.wager_stake, escrow_address, id)
    BY <2>1, <2>2, <2>3, DistributeResult DEF TypeOK, Addresses
  <2>5. /\ SameTerms(id)
        /\ wagers'[id].state = "Resolved"
        /\ wagers'[id].winner = wager_participants[id][i]
    BY <2>1, <2>2, RulingFrame
  <2> QED
    BY <2>1, <2>3, <2>4, <2>5
<1> QED
  BY <1>1, <1>2 DEF submit_outcome

-----------------------------------------------------------------------------
(* The three views of the participants agree. *)

\* Adding somebody who is not a participant keeps the list and the mapping in step.
LEMMA AddParticipantFacts ==
  ASSUME TypeOK, NEW id \in WagerIds, NEW u \in Users, NEW c \in Claims,
         AddParticipant(id, u, c)
  PROVE  /\ wager_participants'[id] = Append(wager_participants[id], u)
         /\ \A x \in WagerIds : x # id => wager_participants'[x] = wager_participants[x]
         /\ \A x \in WagerIds, w \in Users :
              is_wager_participant(x, w)'
                <=> is_wager_participant(x, w) \/ (x = id /\ w = u)
         /\ \A x \in WagerIds, w \in Users :
              wager_participants_claim'[x][w] =
                IF x = id /\ w = u THEN c ELSE wager_participants_claim[x][w]
<1>1. /\ wager_participants'[id] = Append(wager_participants[id], u)
      /\ \A x \in WagerIds : x # id => wager_participants'[x] = wager_participants[x]
  BY DEF AddParticipant, TypeOK
<1>2. \A x \in WagerIds, w \in Users :
        is_wager_participant(x, w)' <=> is_wager_participant(x, w) \/ (x = id /\ w = u)
  BY DEF AddParticipant, is_wager_participant
<1>3. \A x \in WagerIds, w \in Users :
        wager_participants_claim'[x][w] =
          IF x = id /\ w = u THEN c ELSE wager_participants_claim[x][w]
  BY DEF AddParticipant, TypeOK
<1> QED
  BY <1>1, <1>2, <1>3

AgreeAt(id) ==
  LET list == wager_participants[id]
  IN  /\ \A u \in Users : is_wager_participant(id, u) <=> \E i \in DOMAIN list : list[i] = u
      /\ \A i, j \in DOMAIN list : list[i] = list[j] => i = j
      /\ Exists(id) <=> id <= wager_count
      /\ Exists(id) <=> list # <<>>
      /\ Exists(id) => list[1] = wagers[id].creator
      /\ \A u \in Users : has_outcome_submitted(id, u) => is_wager_participant(id, u)

LEMMA AgreeAtEach == ParticipantsAgree <=> \A id \in WagerIds : AgreeAt(id)
  BY DEF ParticipantsAgree, AgreeAt

LEMMA AgreeCreate ==
  ASSUME TypeOK, ParticipantsAgree, NEW u \in Users, NEW n \in Amounts, NEW m \in Modes,
         NEW c \in Claims, NEW t \in Times, create_wager(u, n, m, c, t)
  PROVE  ParticipantsAgree'
<1>0. PICK id : id = wager_count + 1
  OBVIOUS
<1>1. id \in WagerIds /\ wager_count \in Nat /\ WagerIds \subseteq Nat
  BY <1>0, MaxWagersAssumption DEF create_wager, WagerIds, TypeOK
<1>2. ~Exists(id) /\ wager_participants[id] = <<>>
  BY <1>0, <1>1 DEF ParticipantsAgree
<1>3. AddParticipant(id, u, c)
  BY <1>0 DEF create_wager
<1>4. wagers'[id].creator = u /\ \A x \in WagerIds : x # id => wagers'[x] = wagers[x]
  BY <1>0, <1>1 DEF create_wager, TypeOK
<1>5. wager_count' = id /\ wager_outcome_submitted' = wager_outcome_submitted \ {<<id, u>>}
  BY <1>0 DEF create_wager
<1>6. SUFFICES ASSUME NEW x \in WagerIds
               PROVE  AgreeAt(x)'
  BY DEF ParticipantsAgree, AgreeAt
<1>7. AgreeAt(x)
  BY AgreeAtEach
<1>8. CASE x # id
  <2>1. /\ wager_participants'[x] = wager_participants[x]
        /\ \A w \in Users : is_wager_participant(x, w)' <=> is_wager_participant(x, w)
    BY <1>1, <1>3, <1>8, AddParticipantFacts
  <2>2. \A w \in Users : has_outcome_submitted(x, w)' => has_outcome_submitted(x, w)
    BY <1>5 DEF has_outcome_submitted
  <2>3. Exists(x)' <=> Exists(x)
    BY <1>4, <1>8 DEF Exists
  <2>4. x <= wager_count' <=> x <= wager_count
    BY <1>0, <1>1, <1>5, <1>8
  <2> QED
    BY <1>4, <1>7, <1>8, <2>1, <2>2, <2>3, <2>4 DEF AgreeAt
<1>9. CASE x = id
  <2>1. wager_participants'[id] = <<u>>
    BY <1>1, <1>2, <1>3, AddParticipantFacts
  <2>2. \A w \in Users : is_wager_participant(id, w)' <=> w = u
    <3>1. \A w \in Users : ~is_wager_participant(id, w)
      BY <1>1, <1>2 DEF ParticipantsAgree
    <3> QED
      BY <1>1, <1>3, <3>1, AddParticipantFacts
  <2>3. \A w \in Users : ~has_outcome_submitted(id, w)'
    <3>1. \A w \in Users : has_outcome_submitted(id, w) => w = u
      BY <1>1, <1>2 DEF ParticipantsAgree
    <3> QED
      BY <1>5, <3>1 DEF has_outcome_submitted
  <2>4. Exists(id)'
    BY <1>4, AddressesAssumption DEF Exists
  <2> QED
    BY <1>1, <1>4, <1>5, <1>9, <2>1, <2>2, <2>3, <2>4 DEF AgreeAt
<1> QED
  BY <1>8, <1>9

LEMMA AgreeJoin ==
  ASSUME TypeOK, ParticipantsAgree, NEW u \in Users, NEW id \in WagerIds, NEW c \in Claims,
         join_wager(u, id, c)
  PROVE  ParticipantsAgree'
<1>1. AddParticipant(id, u, c) /\ ~is_wager_participant(id, u) /\ Exists(id)
  BY DEF join_wager
<1>2. SameTerms(id)
  BY StateFrame DEF join_wager
<1>3. UNCHANGED <<wager_count, wager_outcome_submitted>>
  BY DEF join_wager, ballots
<1> SUFFICES ASSUME NEW x \in WagerIds
             PROVE  AgreeAt(x)'
  BY DEF ParticipantsAgree, AgreeAt
<1>4. AgreeAt(x)
  BY AgreeAtEach
<1>5. (Exists(x)' <=> Exists(x)) /\ wagers'[x].creator = wagers[x].creator
  BY <1>2 DEF SameTerms, Exists
<1>6. \A w \in Users : has_outcome_submitted(x, w)' <=> has_outcome_submitted(x, w)
  BY <1>3 DEF has_outcome_submitted
<1>7. CASE x # id
  <2>1. /\ wager_participants'[x] = wager_participants[x]
        /\ \A w \in Users : is_wager_participant(x, w)' <=> is_wager_participant(x, w)
    BY <1>1, <1>7, AddParticipantFacts
  <2> QED
    BY <1>3, <1>4, <1>5, <1>6, <2>1 DEF AgreeAt
<1>8. CASE x = id
  <2> DEFINE list == wager_participants[id]
             longer == wager_participants'[id]
  <2>1. list \in Seq(Users) /\ list # <<>>
    BY <1>1, <1>4, <1>8 DEF TypeOK, AgreeAt
  <2>2. longer = Append(list, u)
    BY <1>1, AddParticipantFacts
  <2>3. \A w \in Users : is_wager_participant(id, w)' <=> is_wager_participant(id, w) \/ w = u
    BY <1>1, AddParticipantFacts
  <2>4. \A i \in DOMAIN list : list[i] # u
    BY <1>1, <1>4, <1>8 DEF AgreeAt
  <2>5. /\ Len(longer) = Len(list) + 1
        /\ DOMAIN longer = 1 .. (Len(list) + 1)
        /\ DOMAIN list = 1 .. Len(list)
        /\ Len(list) \in Nat
        /\ \A i \in DOMAIN list : longer[i] = list[i]
        /\ longer[Len(list) + 1] = u
    BY <2>1, <2>2
  <2>6. longer # <<>> /\ longer[1] = list[1]
    BY <2>1, <2>2
  <2> HIDE DEF list, longer
  <2>7. \A w \in Users :
          is_wager_participant(id, w)' <=> \E i \in DOMAIN longer : longer[i] = w
    <3>1. \A w \in Users : is_wager_participant(id, w) <=> \E i \in DOMAIN list : list[i] = w
      BY <1>4, <1>8 DEF AgreeAt, list
    <3>2. \A w : (\E i \in DOMAIN longer : longer[i] = w)
                   <=> (\E i \in DOMAIN list : list[i] = w) \/ w = u
      <4>1. \A i \in DOMAIN longer : i \in DOMAIN list \/ i = Len(list) + 1
        BY <2>5
      <4>2. \A i \in DOMAIN list : i \in DOMAIN longer
        BY <2>5
      <4>3. Len(list) + 1 \in DOMAIN longer
        BY <2>5
      <4> QED
        BY <2>5, <4>1, <4>2, <4>3
    <3> QED
      BY <2>3, <3>1, <3>2
  <2>8. \A i, j \in DOMAIN longer : longer[i] = longer[j] => i = j
    <3>1. \A i, j \in DOMAIN list : list[i] = list[j] => i = j
      BY <1>4, <1>8 DEF AgreeAt, list
    <3> QED
      BY <2>4, <2>5, <3>1
  <2> QED
    BY <1>1, <1>3, <1>4, <1>5, <1>6, <1>8, <2>3, <2>6, <2>7, <2>8 DEF AgreeAt, list, longer
<1> QED
  BY <1>7, <1>8

\* Steps that add no participant and keep every wager's terms: at most a participant
\* gets a ballot.
LEMMA AgreeFrame ==
  ASSUME TypeOK, ParticipantsAgree, NEW id, SameTerms(id),
         UNCHANGED <<wager_count, participation>>,
         \A p \in wager_outcome_submitted' :
           p \in wager_outcome_submitted \union wager_participants_mapping
  PROVE  ParticipantsAgree'
<1> SUFFICES ASSUME NEW x \in WagerIds
             PROVE  AgreeAt(x)'
  BY DEF ParticipantsAgree, AgreeAt
<1>1. AgreeAt(x)
  BY AgreeAtEach
<1>2. (Exists(x)' <=> Exists(x)) /\ wagers'[x].creator = wagers[x].creator
  BY DEF SameTerms, Exists
<1>3. \A w \in Users :
        has_outcome_submitted(x, w)' => has_outcome_submitted(x, w) \/ is_wager_participant(x, w)
  BY DEF has_outcome_submitted, is_wager_participant
<1>4. \A w \in Users : is_wager_participant(x, w)' <=> is_wager_participant(x, w)
  BY DEF is_wager_participant, participation
<1> QED
  BY <1>1, <1>2, <1>3, <1>4 DEF AgreeAt, participation

LEMMA AgreeStep ==
  ASSUME TypeOK, ParticipantsAgree, [Next]_vars
  PROVE  ParticipantsAgree'
<1>1. ASSUME NEW u \in Users, NEW id \in WagerIds, NEW vote \in BOOLEAN,
             submit_outcome(u, id, vote)
      PROVE  ParticipantsAgree'
  <2>1. SameTerms(id)
    BY <1>1, SubmitCases
  <2>2. UNCHANGED <<wager_count, participation>>
    BY <1>1 DEF submit_outcome
  <2>3. /\ wager_outcome_submitted' = wager_outcome_submitted \union {<<id, u>>}
        /\ <<id, u>> \in wager_participants_mapping
    BY <1>1 DEF submit_outcome, is_wager_participant
  <2> QED
    BY <2>1, <2>2, <2>3, AgreeFrame
<1>2. ASSUME NEW id \in WagerIds, cancel_wager(id)
      PROVE  ParticipantsAgree'
  <2>1. SameTerms(id)
    BY <1>2, StateFrame DEF cancel_wager
  <2> QED
    BY <1>2, <2>1, AgreeFrame DEF cancel_wager, ballots
<1>3. ASSUME NEW id \in WagerIds, NEW u \in Users, resolve_wager(Admin, id, u)
      PROVE  ParticipantsAgree'
  <2>1. SameTerms(id)
    BY <1>3, RulingFrame DEF resolve_wager
  <2> QED
    BY <1>3, <2>1, AgreeFrame DEF resolve_wager, ballots
<1>4. CASE UNCHANGED records
  <2>1. SameTerms(0)
    BY <1>4 DEF records, SameTerms
  <2> QED
    BY <1>4, <2>1, AgreeFrame DEF records, ballots
<1> QED
  BY <1>1, <1>2, <1>3, <1>4, AgreeCreate, AgreeJoin, BooksFrame DEF Next, WagerCall, AdminCall

-----------------------------------------------------------------------------
(* Which wagers a step disturbs, and how. *)

\* The new wager takes an id that read as blank; every other one is as it was.
CreatedAs(id, u, n) ==
  /\ wagers[id] = NoWager
  /\ wager_participants[id] = <<>>
  /\ wagers'[id].creator = u
  /\ wagers'[id].stake = n
  /\ wagers'[id].state = "Pending"
  /\ wager_participants'[id] = <<u>>
  /\ n \in Nat /\ n > 0
  /\ escrow_address \in Escrows
  /\ vault'.wager_stake = Credited(vault.wager_stake, escrow_address, id, n)
  /\ \A x \in WagerIds : x # id =>
       /\ wagers'[x] = wagers[x]
       /\ wager_participants'[x] = wager_participants[x]
       /\ wager_participants_claim'[x] = wager_participants_claim[x]
       /\ \A w \in Users :
            /\ has_outcome_submitted(x, w)' <=> has_outcome_submitted(x, w)
            /\ <<x, w>> \in wager_outcome_votes' <=> <<x, w>> \in wager_outcome_votes

LEMMA CreateFacts ==
  ASSUME TypeOK, ParticipantsAgree, UncreatedIsBlank, NEW u \in Users, NEW n \in Amounts,
         NEW m \in Modes, NEW c \in Claims, NEW t \in Times, create_wager(u, n, m, c, t)
  PROVE  \E id \in WagerIds : CreatedAs(id, u, n)
<1>0. PICK id : id = wager_count + 1
  OBVIOUS
<1>1. id \in WagerIds /\ wager_count \in Nat /\ WagerIds \subseteq Nat /\ n \in Nat
  BY <1>0, MaxWagersAssumption, AmountsAssumption DEF create_wager, WagerIds, TypeOK
<1>2. ~Exists(id) /\ wager_participants[id] = <<>>
  BY <1>0, <1>1 DEF ParticipantsAgree
<1>3. wagers[id] = NoWager
  BY <1>1, <1>2 DEF UncreatedIsBlank
<1>4. AddParticipant(id, u, c) /\ StakePaidBy(u, id, n)
  BY <1>0 DEF create_wager
<1>5. /\ wagers'[id].creator = u
      /\ wagers'[id].stake = n
      /\ wagers'[id].state = "Pending"
      /\ \A x \in WagerIds : x # id => wagers'[x] = wagers[x]
  BY <1>0, <1>1 DEF create_wager, TypeOK
<1>6. /\ wager_participants'[id] = <<u>>
      /\ \A x \in WagerIds : x # id => wager_participants'[x] = wager_participants[x]
  BY <1>1, <1>2, <1>4, AddParticipantFacts
<1>7. \A x \in WagerIds : x # id => wager_participants_claim'[x] = wager_participants_claim[x]
  BY <1>1, <1>4 DEF AddParticipant, TypeOK
<1>8. /\ n > 0
      /\ escrow_address \in Escrows
      /\ vault'.wager_stake = Credited(vault.wager_stake, escrow_address, id, n)
  BY <1>1, <1>4, StakePaidResult DEF TypeOK
<1>9. \A x \in WagerIds, w \in Users : x # id =>
        /\ has_outcome_submitted(x, w)' <=> has_outcome_submitted(x, w)
        /\ <<x, w>> \in wager_outcome_votes' <=> <<x, w>> \in wager_outcome_votes
  BY <1>0 DEF create_wager, has_outcome_submitted
<1> QED
  BY <1>1, <1>2, <1>3, <1>5, <1>6, <1>7, <1>8, <1>9 DEF CreatedAs

LEMMA JoinFacts ==
  ASSUME TypeOK, ParticipantsAgree, NEW u \in Users, NEW id \in WagerIds, NEW c \in Claims,
         join_wager(u, id, c)
  PROVE  LET list == wager_participants[id]
         IN  /\ Exists(id) /\ ~Decided(id)
             /\ SameTerms(id)
             /\ wagers'[id].state = "Active"
             /\ list \in Seq(Users) /\ Len(list) >= 1
             /\ \A i \in DOMAIN list : list[i] # u
             /\ wagers[id].mode = "HeadToHead" =>
                  Len(list) = 1 /\ wager_participants_claim[id][list[1]] # c
             /\ wager_participants'[id] = Append(list, u)
             /\ wager_participants_claim'[id][u] = c
             /\ \A w \in Users : w # u =>
                  wager_participants_claim'[id][w] = wager_participants_claim[id][w]
             /\ ~has_outcome_submitted(id, u)'
             /\ escrow_address \in Escrows
             /\ vault'.wager_stake =
                  Credited(vault.wager_stake, escrow_address, id, wagers[id].stake)
             /\ UNCHANGED ballots
             /\ \A x \in WagerIds : x # id =>
                  /\ wager_participants'[x] = wager_participants[x]
                  /\ wager_participants_claim'[x] = wager_participants_claim[x]
<1> DEFINE list == wager_participants[id]
<1>1. /\ AddParticipant(id, u, c) /\ StakePaidBy(u, id, wagers[id].stake)
      /\ Exists(id) /\ ~Decided(id) /\ ~is_wager_participant(id, u)
      /\ UNCHANGED ballots
      /\ wagers[id].mode = "HeadToHead" =>
           Len(list) = 1 /\ wager_participants_claim[id][list[1]] # c
  BY DEF join_wager, OpenTo
<1>2. SameTerms(id) /\ wagers'[id].state = "Active"
  BY StateFrame DEF join_wager
<1>3. AgreeAt(id) /\ list \in Seq(Users)
  BY AgreeAtEach DEF TypeOK
<1>4. Len(list) >= 1 /\ (\A i \in DOMAIN list : list[i] # u)
  BY <1>1, <1>3 DEF AgreeAt
<1>5. wagers[id].stake \in Nat
  BY DEF TypeOK, Wager
<1>6. /\ escrow_address \in Escrows
      /\ vault'.wager_stake = Credited(vault.wager_stake, escrow_address, id, wagers[id].stake)
  BY <1>1, <1>5, StakePaidResult DEF TypeOK
<1>7. ~has_outcome_submitted(id, u)'
  BY <1>1, <1>3 DEF AgreeAt, has_outcome_submitted, ballots
<1>8. \A x \in WagerIds : x # id => wager_participants_claim'[x] = wager_participants_claim[x]
  BY <1>1 DEF AddParticipant, TypeOK
<1>9. /\ wager_participants'[id] = Append(list, u)
      /\ wager_participants_claim'[id][u] = c
      /\ \A w \in Users : w # u =>
           wager_participants_claim'[id][w] = wager_participants_claim[id][w]
      /\ \A x \in WagerIds : x # id => wager_participants'[x] = wager_participants[x]
  BY <1>1, AddParticipantFacts
<1> HIDE DEF list
<1> QED
  BY <1>1, <1>2, <1>3, <1>4, <1>6, <1>7, <1>8, <1>9 DEF list

\* A vote, a ruling or a cancellation of wager id: nobody joins or leaves, and ballots
\* change for that wager only.
DecisionStep(id) ==
  \/ \E u \in Users, vote \in BOOLEAN : submit_outcome(u, id, vote)
  \/ cancel_wager(id)
  \/ \E u \in Users : resolve_wager(Admin, id, u)

LEMMA DecisionFacts ==
  ASSUME TypeOK, NEW id \in WagerIds, DecisionStep(id)
  PROVE  /\ SameTerms(id)
         /\ Exists(id) \/ wager_participants[id] # <<>>
         /\ UNCHANGED <<wager_count, participation>>
         /\ \A x \in WagerIds, w \in Users : x # id =>
              /\ has_outcome_submitted(x, w)' <=> has_outcome_submitted(x, w)
              /\ <<x, w>> \in wager_outcome_votes' <=> <<x, w>> \in wager_outcome_votes
<1>1. ASSUME NEW u \in Users, NEW vote \in BOOLEAN, submit_outcome(u, id, vote)
      PROVE  /\ SameTerms(id)
             /\ Exists(id)
             /\ UNCHANGED <<wager_count, participation>>
             /\ \A x \in WagerIds, w \in Users : x # id =>
                  /\ has_outcome_submitted(x, w)' <=> has_outcome_submitted(x, w)
                  /\ <<x, w>> \in wager_outcome_votes' <=> <<x, w>> \in wager_outcome_votes
  <2>1. SameTerms(id)
    BY <1>1, SubmitCases
  <2>2. Exists(id) /\ UNCHANGED <<wager_count, participation>>
    BY <1>1 DEF submit_outcome
  <2>3. /\ wager_outcome_submitted' = wager_outcome_submitted \union {<<id, u>>}
        /\ \/ wager_outcome_votes' = wager_outcome_votes \union {<<id, u>>}
           \/ wager_outcome_votes' = wager_outcome_votes \ {<<id, u>>}
    BY <1>1 DEF submit_outcome
  <2> QED
    BY <2>1, <2>2, <2>3 DEF has_outcome_submitted
<1>2. CASE cancel_wager(id)
  <2>1. SameTerms(id)
    BY <1>2, StateFrame DEF cancel_wager
  <2>2. wager_participants[id] # <<>>
    BY <1>2 DEF cancel_wager
  <2> QED
    BY <1>2, <2>1, <2>2 DEF cancel_wager, has_outcome_submitted, ballots
<1>3. ASSUME NEW u \in Users, resolve_wager(Admin, id, u)
      PROVE  /\ SameTerms(id)
             /\ Exists(id)
             /\ UNCHANGED <<wager_count, participation, ballots>>
  BY <1>3, RulingFrame DEF resolve_wager
<1> QED
  BY <1>1, <1>2, <1>3 DEF DecisionStep, has_outcome_submitted, ballots

\* Every step is a creation, a join, a decision step, or leaves the records alone.
LEMMA StepCases ==
  ASSUME TypeOK, [Next]_vars
  PROVE  \/ \E u \in Users, n \in Amounts, m \in Modes, c \in Claims, t \in Times :
              create_wager(u, n, m, c, t)
         \/ \E u \in Users, id \in WagerIds, c \in Claims : join_wager(u, id, c)
         \/ \E id \in WagerIds : DecisionStep(id)
         \/ UNCHANGED records /\ vault'.wager_stake = vault.wager_stake
  BY BooksFrame DEF Next, WagerCall, AdminCall, DecisionStep

LEMMA BlankStep ==
  ASSUME TypeOK, ParticipantsAgree, UncreatedIsBlank, [Next]_vars
  PROVE  UncreatedIsBlank'
<1>1. ASSUME NEW u \in Users, NEW n \in Amounts, NEW m \in Modes, NEW c \in Claims,
             NEW t \in Times, create_wager(u, n, m, c, t)
      PROVE  UncreatedIsBlank'
  <2>1. PICK id \in WagerIds : CreatedAs(id, u, n)
    BY <1>1, CreateFacts
  <2> QED
    BY <2>1, AddressesAssumption DEF CreatedAs, UncreatedIsBlank, Exists
<1>2. ASSUME NEW u \in Users, NEW id \in WagerIds, NEW c \in Claims, join_wager(u, id, c)
      PROVE  UncreatedIsBlank'
  BY <1>2, JoinFacts DEF UncreatedIsBlank, Exists, SameTerms
<1>3. ASSUME NEW id \in WagerIds, DecisionStep(id)
      PROVE  UncreatedIsBlank'
  <2>1. Exists(id)
    BY <1>3, DecisionFacts DEF ParticipantsAgree
  <2> QED
    BY <1>3, <2>1, DecisionFacts DEF UncreatedIsBlank, Exists, SameTerms
<1>4. CASE UNCHANGED records
  BY <1>4 DEF UncreatedIsBlank, Exists, records
<1> QED
  BY <1>1, <1>2, <1>3, <1>4, StepCases

-----------------------------------------------------------------------------
(* Head-to-head claims oppose each other. *)

LEMMA OpposingStep ==
  ASSUME TypeOK, ParticipantsAgree, UncreatedIsBlank, OpposingClaims, [Next]_vars
  PROVE  OpposingClaims'
<1>1. ASSUME NEW u \in Users, NEW n \in Amounts, NEW m \in Modes, NEW c \in Claims,
             NEW t \in Times, create_wager(u, n, m, c, t)
      PROVE  OpposingClaims'
  <2>1. PICK id \in WagerIds : CreatedAs(id, u, n)
    BY <1>1, CreateFacts
  <2> SUFFICES ASSUME NEW x \in WagerIds, wagers'[x].mode = "HeadToHead"
               PROVE  LET list == wager_participants'[x]
                          claim == wager_participants_claim'[x]
                      IN  Len(list) <= 2 /\ (Len(list) = 2 => claim[list[1]] # claim[list[2]])
    BY DEF OpposingClaims
  <2>2. CASE x = id
    <3>1. Len(wager_participants'[x]) = 1
      BY <2>1, <2>2 DEF CreatedAs
    <3> QED
      BY <3>1
  <2>3. CASE x # id
    BY <2>1, <2>3 DEF CreatedAs, OpposingClaims
  <2> QED
    BY <2>2, <2>3
<1>2. ASSUME NEW u \in Users, NEW id \in WagerIds, NEW c \in Claims, join_wager(u, id, c)
      PROVE  OpposingClaims'
  <2> DEFINE list == wager_participants[id]
  <2>1. /\ SameTerms(id)
        /\ list \in Seq(Users)
        /\ \A i \in DOMAIN list : list[i] # u
        /\ wagers[id].mode = "HeadToHead" =>
             Len(list) = 1 /\ wager_participants_claim[id][list[1]] # c
        /\ wager_participants'[id] = Append(list, u)
        /\ wager_participants_claim'[id][u] = c
        /\ \A w \in Users : w # u =>
             wager_participants_claim'[id][w] = wager_participants_claim[id][w]
        /\ \A x \in WagerIds : x # id =>
             /\ wager_participants'[x] = wager_participants[x]
             /\ wager_participants_claim'[x] = wager_participants_claim[x]
    BY <1>2, JoinFacts
  <2>2. ASSUME wagers[id].mode = "HeadToHead"
        PROVE  /\ Len(wager_participants'[id]) = 2
               /\ wager_participants'[id][1] = list[1]
               /\ wager_participants'[id][2] = u
               /\ wager_participants_claim'[id][list[1]] # c
    <3>1. Len(list) = 1 /\ list[1] \in Users /\ list[1] # u
      BY <2>1, <2>2
    <3> QED
      BY <2>1, <2>2, <3>1
  <2> HIDE DEF list
  <2> QED
    BY <2>1, <2>2 DEF OpposingClaims, SameTerms
<1>3. ASSUME NEW id \in WagerIds, DecisionStep(id)
      PROVE  OpposingClaims'
  BY <1>3, DecisionFacts DEF OpposingClaims, SameTerms, participation
<1>4. CASE UNCHANGED records
  BY <1>4 DEF OpposingClaims, records, participation
<1> QED
  BY <1>1, <1>2, <1>3, <1>4, StepCases

-----------------------------------------------------------------------------
(* Two equal votes decide a head-to-head wager, for the claim they name. *)

agreedOn(x) == _check_resolution(x, wager_outcome_submitted, wager_outcome_votes)

ConsensusAt(x) ==
  \A outcome \in agreedOn(x) :
    /\ wagers[x].state = "Resolved"
    /\ \E i \in DOMAIN wager_participants[x] :
         /\ wager_participants[x][i] = wagers[x].winner
         /\ FirstWithClaim(x, ClaimOf(outcome), i)

LEMMA ConsensusAtEach == ConsensusDecides <=> \A x \in WagerIds : ConsensusAt(x)
  BY DEF ConsensusDecides, ConsensusAt, agreedOn

\* A wager whose participants and ballots a step leaves alone stays agreed on the same
\* outcome.
LEMMA AgreedKept ==
  ASSUME TypeOK, NEW x \in WagerIds,
         wagers'[x].mode = wagers[x].mode,
         wager_participants'[x] = wager_participants[x],
         \A w \in Users :
           /\ has_outcome_submitted(x, w)' <=> has_outcome_submitted(x, w)
           /\ <<x, w>> \in wager_outcome_votes' <=> <<x, w>> \in wager_outcome_votes
  PROVE  agreedOn(x)' = agreedOn(x)
<1>1. CASE Len(wager_participants[x]) = 2
  <2>1. wager_participants[x][1] \in Users /\ wager_participants[x][2] \in Users
    <3>1. wager_participants[x] \in Seq(Users)
      BY DEF TypeOK
    <3> QED
      BY <1>1, <3>1
  <2>2. \A i \in 1 .. 2 : wager_participants[x][i] \in Users
    BY <2>1
  <2> QED
    BY <1>1, <2>2 DEF agreedOn, _check_resolution, has_outcome_submitted
<1>2. CASE Len(wager_participants[x]) # 2
  BY <1>2 DEF agreedOn, _check_resolution
<1> QED
  BY <1>1, <1>2

LEMMA FirstKept ==
  ASSUME NEW x \in WagerIds, NEW claim, NEW i,
         wager_participants'[x] = wager_participants[x],
         wager_participants_claim'[x] = wager_participants_claim[x]
  PROVE  FirstWithClaim(x, claim, i)' <=> FirstWithClaim(x, claim, i)
  BY DEF FirstWithClaim

LEMMA ConsensusKept ==
  ASSUME TypeOK, NEW x \in WagerIds, ConsensusAt(x),
         wagers'[x] = wagers[x],
         wager_participants'[x] = wager_participants[x],
         wager_participants_claim'[x] = wager_participants_claim[x],
         \A w \in Users :
           /\ has_outcome_submitted(x, w)' <=> has_outcome_submitted(x, w)
           /\ <<x, w>> \in wager_outcome_votes' <=> <<x, w>> \in wager_outcome_votes
  PROVE  ConsensusAt(x)'
  BY AgreedKept, FirstKept DEF ConsensusAt

\* A vote: it leaves the wager open only without consensus, and otherwise resolves it
\* for the first participant holding the agreed claim.
LEMMA ConsensusSubmit ==
  ASSUME TypeOK, NEW u \in Users, NEW id \in WagerIds, NEW vote \in BOOLEAN,
         submit_outcome(u, id, vote)
  PROVE  ConsensusAt(id)'
<1>1. /\ SameTerms(id)
      /\ wager_participants' = wager_participants
      /\ wager_participants_claim' = wager_participants_claim
  BY SubmitCases DEF submit_outcome, participation
<1>2. agreedOn(id)' = _check_resolution(id, wager_outcome_submitted', wager_outcome_votes')
  BY <1>1 DEF agreedOn, _check_resolution, SameTerms
<1>3. CASE agreedOn(id)' = {}
  BY <1>3 DEF ConsensusAt
<1>4. ASSUME NEW outcome \in agreedOn(id)', NEW i \in DOMAIN wager_participants[id],
             FirstWithClaim(id, ClaimOf(outcome), i),
             wagers'[id].state = "Resolved",
             wagers'[id].winner = wager_participants[id][i]
      PROVE  ConsensusAt(id)'
  <2>1. ASSUME NEW other \in agreedOn(id)'
        PROVE  other = outcome
    BY <1>2 DEF _check_resolution
  <2>2. FirstWithClaim(id, ClaimOf(outcome), i)'
    BY <1>1, <1>4, FirstKept
  <2> QED
    BY <1>1, <1>4, <2>1, <2>2 DEF ConsensusAt
<1> QED
  BY <1>2, <1>3, <1>4, SubmitCases

LEMMA ConsensusStep ==
  ASSUME TypeOK, ParticipantsAgree, UncreatedIsBlank, ConsensusDecides, [Next]_vars
  PROVE  ConsensusDecides'
<1> SUFFICES ASSUME NEW x \in WagerIds
             PROVE  ConsensusAt(x)'
  BY DEF ConsensusDecides, ConsensusAt, agreedOn
<1>0. ConsensusAt(x)
  BY ConsensusAtEach
<1>1. ASSUME NEW u \in Users, NEW n \in Amounts, NEW m \in Modes, NEW c \in Claims,
             NEW t \in Times, create_wager(u, n, m, c, t)
      PROVE  ConsensusAt(x)'
  <2>1. PICK id \in WagerIds : CreatedAs(id, u, n)
    BY <1>1, CreateFacts
  <2>2. CASE x # id
    BY <1>0, <2>1, <2>2, ConsensusKept DEF CreatedAs
  <2>3. CASE x = id
    <3>1. Len(wager_participants'[x]) = 1
      BY <2>1, <2>3 DEF CreatedAs
    <3>2. agreedOn(x)' = {}
      BY <3>1 DEF agreedOn, _check_resolution
    <3> QED
      BY <3>2 DEF ConsensusAt
  <2> QED
    BY <2>2, <2>3
<1>2. ASSUME NEW u \in Users, NEW id \in WagerIds, NEW c \in Claims, join_wager(u, id, c)
      PROVE  ConsensusAt(x)'
  <2>1. CASE x # id
    <3>1. /\ wagers'[x] = wagers[x]
          /\ wager_participants'[x] = wager_participants[x]
          /\ wager_participants_claim'[x] = wager_participants_claim[x]
      BY <1>2, <2>1, JoinFacts DEF SameTerms
    <3>2. UNCHANGED ballots
      BY <1>2 DEF join_wager
    <3> QED
      BY <1>0, <3>1, <3>2, ConsensusKept DEF ballots, has_outcome_submitted
  <2>2. CASE x = id
    <3> DEFINE list == wager_participants[id]
    <3>1. /\ list \in Seq(Users) /\ Len(list) >= 1
          /\ wager_participants'[id] = Append(list, u)
          /\ <<id, u>> \notin wager_outcome_submitted'
      BY <1>2, JoinFacts DEF has_outcome_submitted
    <3>2. ASSUME Len(wager_participants'[id]) = 2
          PROVE  wager_participants'[id][2] = u
      BY <3>1, <3>2
    <3> HIDE DEF list
    <3>3. agreedOn(id)' = {}
      BY <3>1, <3>2 DEF agreedOn, _check_resolution
    <3> QED
      BY <2>2, <3>3 DEF ConsensusAt
  <2> QED
    BY <2>1, <2>2
<1>3. ASSUME NEW id \in WagerIds, DecisionStep(id)
      PROVE  ConsensusAt(x)'
  <2>1. CASE x # id
    BY <1>0, <1>3, <2>1, DecisionFacts, ConsensusKept DEF SameTerms, participation
  <2>2. ASSUME NEW u \in Users, NEW vote \in BOOLEAN, submit_outcome(u, id, vote), x = id
        PROVE  ConsensusAt(x)'
    BY <2>2, ConsensusSubmit
  <2>3. ASSUME cancel_wager(id) \/ \E u \in Users : resolve_wager(Admin, id, u), x = id
        PROVE  ConsensusAt(x)'
    <3>1. agreedOn(id) = {}
      <4>1. CASE cancel_wager(id)
        BY <4>1 DEF cancel_wager, agreedOn, _check_resolution
      <4>2. CASE \E u \in Users : resolve_wager(Admin, id, u)
        BY <1>0, <2>3, <4>2 DEF resolve_wager, ConsensusAt
      <4> QED
        BY <2>3, <4>1, <4>2
    <3>2. UNCHANGED ballots
      BY <2>3 DEF cancel_wager, resolve_wager
    <3>3. agreedOn(id)' = agreedOn(id)
      BY <1>3, <3>2, DecisionFacts, AgreedKept
      DEF SameTerms, participation, ballots, has_outcome_submitted
    <3> QED
      BY <2>3, <3>1, <3>3 DEF ConsensusAt
  <2> QED
    BY <1>3, <2>1, <2>2, <2>3 DEF DecisionStep
<1>4. CASE UNCHANGED records
  BY <1>0, <1>4, ConsensusKept DEF records, participation, ballots, has_outcome_submitted
<1> QED
  BY <1>1, <1>2, <1>3, <1>4, StepCases

-----------------------------------------------------------------------------
(* With one escrow, every pot is accounted for. *)

AccountAt(e, id) ==
  LET w == wagers[id]
      pot == vault.wager_stake[e][id]
      count == Len(wager_participants[id])
  IN  /\ ~Decided(id) => pot = w.stake * count
      /\ Exists(id) => w.stake > 0
      /\ w.state = "Pending" <=> (count <= 1 /\ ~Decided(id))
      /\ w.state = "Cancelled" => count = 1 /\ pot = 0
      /\ w.state = "Resolved" => pot \in {0, w.stake * count}

LEMMA AccountAtEach ==
  StakeAccounting <=> \A e \in Escrows, id \in WagerIds : Escrows = {e} => AccountAt(e, id)
  BY DEF StakeAccounting, AccountAt

LEMMA AccountKept ==
  ASSUME NEW e, NEW x, AccountAt(e, x),
         wagers'[x] = wagers[x],
         wager_participants'[x] = wager_participants[x],
         vault'.wager_stake[e][x] = vault.wager_stake[e][x]
  PROVE  AccountAt(e, x)'
  BY DEF AccountAt, Decided, Exists

\* One pot of an escrow after a stake and after a payout.
LEMMA LedgerAt ==
  ASSUME NEW v \in Vaults, NEW e \in Escrows, NEW id \in WagerIds, NEW n \in Nat
  PROVE  /\ Credited(v.wager_stake, e, id, n)[e][id] = v.wager_stake[e][id] + n
         /\ Emptied(v.wager_stake, e, id)[e][id] = 0
         /\ \A x \in WagerIds : x # id =>
              /\ Credited(v.wager_stake, e, id, n)[e][x] = v.wager_stake[e][x]
              /\ Emptied(v.wager_stake, e, id)[e][x] = v.wager_stake[e][x]
  BY DEF Vaults, Credited, Emptied

LEMMA AccountCreate ==
  ASSUME TypeOK, ParticipantsAgree, UncreatedIsBlank, StakeAccounting,
         NEW e \in Escrows, Escrows = {e}, NEW x \in WagerIds,
         NEW u \in Users, NEW n \in Amounts, NEW m \in Modes, NEW c \in Claims,
         NEW t \in Times, create_wager(u, n, m, c, t)
  PROVE  AccountAt(e, x)'
<1>1. PICK id \in WagerIds : CreatedAs(id, u, n)
  BY CreateFacts
<1>2. vault'.wager_stake = Credited(vault.wager_stake, e, id, n) /\ n \in Nat /\ n > 0
  BY <1>1 DEF CreatedAs
<1>3. AccountAt(e, x) /\ vault \in Vaults
  BY AccountAtEach DEF TypeOK
<1>4. CASE x # id
  BY <1>1, <1>2, <1>3, <1>4, LedgerAt, AccountKept DEF CreatedAs
<1>5. CASE x = id
  <2>1. vault.wager_stake[e][id] = 0
    BY <1>1, <1>3, <1>5 DEF CreatedAs, AccountAt, NoWager, Decided
  <2>2. vault'.wager_stake[e][id] = n
    BY <1>2, <1>3, <2>1, LedgerAt
  <2>3. Len(wager_participants'[id]) = 1
    BY <1>1 DEF CreatedAs
  <2>4. wagers'[id].state = "Pending" /\ wagers'[id].stake = n
    BY <1>1 DEF CreatedAs
  <2>5. n * 1 = n
    BY <1>2
  <2> QED
    BY <1>2, <1>5, <2>2, <2>3, <2>4, <2>5 DEF AccountAt, Decided, Exists
<1> QED
  BY <1>4, <1>5

LEMMA AccountJoin ==
  ASSUME TypeOK, ParticipantsAgree, StakeAccounting,
         NEW e \in Escrows, Escrows = {e}, NEW x \in WagerIds,
         NEW u \in Users, NEW id \in WagerIds, NEW c \in Claims, join_wager(u, id, c)
  PROVE  AccountAt(e, x)'
<1> DEFINE stake == wagers[id].stake
           count == Len(wager_participants[id])
<1>1. /\ Exists(id) /\ ~Decided(id) /\ SameTerms(id)
      /\ wagers'[id].state = "Active"
      /\ wager_participants[id] \in Seq(Users) /\ count >= 1
      /\ wager_participants'[id] = Append(wager_participants[id], u)
      /\ \A y \in WagerIds : y # id => wager_participants'[y] = wager_participants[y]
      /\ vault'.wager_stake = Credited(vault.wager_stake, e, id, stake)
  BY JoinFacts
<1>2. AccountAt(e, x) /\ vault \in Vaults /\ stake \in Nat
  BY AccountAtEach DEF TypeOK, Wager
<1>3. CASE x # id
  BY <1>1, <1>2, <1>3, LedgerAt, AccountKept DEF SameTerms
<1>4. CASE x = id
  <2>1. Len(wager_participants'[id]) = count + 1 /\ count \in Nat
    BY <1>1
  <2>2. vault'.wager_stake[e][id] = vault.wager_stake[e][id] + stake
    BY <1>1, <1>2, LedgerAt
  <2>3. vault.wager_stake[e][id] = stake * count /\ stake > 0
    BY <1>1, <1>2, <1>4 DEF AccountAt
  <2>4. vault'.wager_stake[e][id] = stake * (count + 1)
    BY <1>2, <2>1, <2>2, <2>3, OneMore
  <2>5. wagers'[id].stake = stake
    BY <1>1 DEF SameTerms
  <2> HIDE DEF stake, count
  <2> QED
    BY <1>1, <1>4, <2>1, <2>3, <2>4, <2>5 DEF AccountAt, Decided
<1> QED
  BY <1>3, <1>4

LEMMA AccountDecision ==
  ASSUME TypeOK, StakeAccounting, NEW e \in Escrows, Escrows = {e}, NEW x \in WagerIds,
         NEW id \in WagerIds, DecisionStep(id)
  PROVE  AccountAt(e, x)'
<1>1. /\ AccountAt(e, x) /\ vault \in Vaults
      /\ SameTerms(id) /\ wager_participants' = wager_participants
  BY AccountAtEach, DecisionFacts DEF TypeOK, participation
<1>2. ASSUME NEW y \in WagerIds,
             \/ vault' = vault
             \/ vault'.wager_stake = Emptied(vault.wager_stake, e, id)
      PROVE  /\ y # id => vault'.wager_stake[e][y] = vault.wager_stake[e][y]
             /\ vault'.wager_stake[e][id] \in {0, vault.wager_stake[e][id]}
  BY <1>1, <1>2, LedgerAt
<1>3. ASSUME NEW u \in Users, NEW vote \in BOOLEAN, submit_outcome(u, id, vote)
      PROVE  AccountAt(e, x)'
  <2>1. ~Decided(id)
    BY <1>3 DEF submit_outcome
  <2>2. CASE /\ vault' = vault
             /\ wagers'[id].state =
                  IF wagers[id].state = "Active" THEN "VotingPhase" ELSE wagers[id].state
    <3>1. CASE x # id
      BY <1>1, <2>2, <3>1, AccountKept DEF SameTerms
    <3>2. CASE x = id
      <4>1. /\ wagers'[id].stake = wagers[id].stake
            /\ wagers'[id].creator = wagers[id].creator
            /\ wager_participants'[id] = wager_participants[id]
            /\ vault'.wager_stake[e][id] = vault.wager_stake[e][id]
        BY <1>1, <2>2 DEF SameTerms
      <4>2. ~Decided(id)'
        BY <2>1, <2>2 DEF Decided
      <4>3. wagers'[id].state = "Pending" <=> wagers[id].state = "Pending"
        BY <2>2
      <4> QED
        BY <1>1, <2>1, <2>2, <3>2, <4>1, <4>2, <4>3 DEF AccountAt, Decided, Exists
    <3> QED
      BY <3>1, <3>2
  <2>3. CASE /\ vault'.wager_stake = Emptied(vault.wager_stake, e, id)
             /\ wagers'[id].state = "Resolved"
    <3>1. CASE x # id
      BY <1>1, <1>2, <2>3, <3>1, AccountKept DEF SameTerms
    <3>2. CASE x = id
      <4>1. vault'.wager_stake[e][id] = 0
        BY <1>1, <2>3, LedgerAt
      <4> QED
        BY <1>1, <2>3, <3>2, <4>1 DEF SameTerms, AccountAt, Decided, Exists
    <3> QED
      BY <3>1, <3>2
  <2> QED
    BY <1>3, <2>2, <2>3, SubmitCases
<1>4. CASE cancel_wager(id)
  <2>1. /\ Len(wager_participants[id]) = 1
        /\ wagers'[id].state = "Cancelled"
    BY <1>4, StateFrame DEF cancel_wager
  <2>2. vault'.wager_stake = Emptied(vault.wager_stake, e, id)
    <3>1. /\ escrow_address = e
          /\ wagers[id].stake \in Nat
          /\ wager_participants[id] \in Seq(Addresses)
          /\ vault' = refund_wager(vault, escrow_address, id, wagers[id].stake,
                                   wager_participants[id])
      BY <1>4 DEF cancel_wager, EscrowConfigured, TypeOK, Wager, Addresses
    <3> QED
      BY <1>1, <3>1, RefundResult
  <2>3. CASE x # id
    BY <1>1, <1>2, <2>2, <2>3, AccountKept DEF SameTerms
  <2>4. CASE x = id
    <3>1. vault'.wager_stake[e][id] = 0
      BY <1>1, <2>2, LedgerAt
    <3> QED
      BY <1>1, <2>1, <2>4, <3>1 DEF SameTerms, AccountAt, Decided, Exists
  <2> QED
    BY <2>3, <2>4
<1>5. ASSUME NEW u \in Users, resolve_wager(Admin, id, u)
      PROVE  AccountAt(e, x)'
  <2>1. vault' = vault /\ wagers'[id].state = "Resolved" /\ wagers[id].state # "Resolved"
    BY <1>5, RulingFrame DEF resolve_wager
  <2>2. CASE x # id
    BY <1>1, <2>1, <2>2, AccountKept DEF SameTerms
  <2>3. CASE x = id
    BY <1>1, <2>1, <2>3 DEF SameTerms, AccountAt, Decided, Exists
  <2> QED
    BY <2>2, <2>3
<1> QED
  BY <1>3, <1>4, <1>5 DEF DecisionStep

LEMMA AccountStep ==
  ASSUME TypeOK, ParticipantsAgree, UncreatedIsBlank, StakeAccounting, [Next]_vars
  PROVE  StakeAccounting'
<1> SUFFICES ASSUME NEW e \in Escrows, Escrows = {e}, NEW x \in WagerIds
             PROVE  AccountAt(e, x)'
  BY DEF StakeAccounting, AccountAt
<1>1. CASE UNCHANGED records /\ vault'.wager_stake = vault.wager_stake
  <2>1. AccountAt(e, x)
    BY AccountAtEach
  <2> QED
    BY <1>1, <2>1, AccountKept DEF records, participation
<1> QED
  BY <1>1, AccountCreate, AccountJoin, AccountDecision, StepCases

-----------------------------------------------------------------------------
LEMMA IndInit == Init => IndInv
<1> SUFFICES ASSUME Init
             PROVE  IndInv
  OBVIOUS
<1>1. \A id \in WagerIds : wagers[id] = NoWager /\ wager_participants[id] = <<>> /\ id > 0
  BY DEF Init, WagerIds
<1>2. \A id \in WagerIds : ~Exists(id) /\ ~Decided(id) /\ Len(wager_participants[id]) = 0
  BY <1>1 DEF Exists, Decided, NoWager
<1>3. ParticipantsAgree
  BY <1>1, <1>2, MaxWagersAssumption
  DEF ParticipantsAgree, Init, WagerIds, is_wager_participant, has_outcome_submitted
<1>4. UncreatedIsBlank
  BY <1>1 DEF UncreatedIsBlank
<1>5. OpposingClaims
  BY <1>2 DEF OpposingClaims
<1>6. ConsensusDecides
  BY <1>2 DEF ConsensusDecides, _check_resolution
<1>7. StakeAccounting
  <2> SUFFICES ASSUME NEW e \in Escrows, NEW id \in WagerIds
               PROVE  AccountAt(e, id)
    BY AccountAtEach
  <2>1. vault.wager_stake[e][id] = 0
    BY DEF Init, EmptyVault
  <2> QED
    BY <1>1, <1>2, <2>1 DEF AccountAt, NoWager
<1> QED
  BY <1>3, <1>4, <1>5, <1>6, <1>7, TypeInit DEF IndInv

\* The invariant is inductive.
THEOREM Inductive == Spec => []IndInv
<1>1. IndInv /\ [Next]_vars => IndInv'
  BY TypeStep, AgreeStep, BlankStep, OpposingStep, ConsensusStep, AccountStep DEF IndInv
<1> QED
  BY <1>1, IndInit, PTL DEF Spec

\* However many users and wagers there are, the list, the count and the mapping of a
\* wager's participants agree.
THEOREM ParticipantsAlwaysAgree == Spec => []ParticipantsAgree
<1>1. IndInv => ParticipantsAgree
  BY DEF IndInv
<1> QED
  BY <1>1, Inductive, PTL

\* However many users and wagers there are, head-to-head participants hold opposite
\* claims.
THEOREM ClaimsAlwaysOppose == Spec => []OpposingClaims
<1>1. IndInv => OpposingClaims
  BY DEF IndInv
<1> QED
  BY <1>1, Inductive, PTL

\* Two equal votes always leave a head-to-head wager resolved for the claim they name.
THEOREM ConsensusAlwaysDecides == Spec => []ConsensusDecides
<1>1. IndInv => ConsensusDecides
  BY DEF IndInv
<1> QED
  BY <1>1, Inductive, PTL

\* With one escrow, whatever the number of participants and the stake, an open pot is
\* one stake per participant and a decided one is whole or empty.
THEOREM PotsAlwaysAddUp == Spec => []StakeAccounting
<1>1. IndInv => StakeAccounting
  BY DEF IndInv
<1> QED
  BY <1>1, Inductive, PTL

-----------------------------------------------------------------------------
(* However many escrows a wager's stakes are spread over, they are accounted for. *)

\* The money of wager id in escrows v, over all of them.
Staked(v, id) == SumFunction([e \in Escrows |-> v.wager_stake[e][id]])

LEMMA StakedType ==
  ASSUME NEW v \in Vaults, NEW id \in WagerIds
  PROVE  Staked(v, id) \in Nat /\ \A e \in Escrows : v.wager_stake[e][id] \in Nat
<1>1. PICK f \in [Escrows -> Nat] : f = [e \in Escrows |-> v.wager_stake[e][id]]
  BY DEF Vaults
<1>2. SumFunction(f) \in Nat
  BY FiniteAccountsAssumption, SumType
<1> QED
  BY <1>1, <1>2 DEF Staked, Vaults

\* A stake adds to the total of its wager and of no other, whichever escrow it goes to.
LEMMA StakedCredited ==
  ASSUME NEW v \in Vaults, NEW w \in Vaults, NEW e \in Escrows, NEW id \in WagerIds,
         NEW n \in Nat, w.wager_stake = Credited(v.wager_stake, e, id, n)
  PROVE  /\ Staked(w, id) = Staked(v, id) + n
         /\ \A x \in WagerIds : x # id => Staked(w, x) = Staked(v, x)
<1>1. Staked(w, id) = Staked(v, id) + n
  <2>0. /\ [a \in Escrows |-> v.wager_stake[a][id]] \in [Escrows -> Nat]
        /\ [a \in Escrows |-> w.wager_stake[a][id]] \in [Escrows -> Nat]
    BY DEF Vaults
  <2>1. PICK f \in [Escrows -> Nat] : f = [a \in Escrows |-> v.wager_stake[a][id]]
    BY <2>0
  <2>2. PICK g \in [Escrows -> Nat] : g = [a \in Escrows |-> w.wager_stake[a][id]]
    BY <2>0
  <2>3. g[e] = f[e] + n /\ \A a \in Escrows : a # e => g[a] = f[a]
    BY <2>1, <2>2 DEF Credited, Vaults
  <2>4. SumFunction(g) = SumFunction(f) + n
    BY <2>3, FiniteAccountsAssumption, SumGrows
  <2> QED
    BY <2>1, <2>2, <2>4 DEF Staked
<1>2. ASSUME NEW x \in WagerIds, x # id PROVE Staked(w, x) = Staked(v, x)
  <2>1. \A a \in Escrows : w.wager_stake[a][x] = v.wager_stake[a][x]
    BY <1>2 DEF Credited, Vaults
  <2> QED
    BY <2>1 DEF Staked
<1> QED
  BY <1>1, <1>2

\* A payout takes one escrow's pot out of the total of its wager and of no other.
LEMMA StakedEmptied ==
  ASSUME NEW v \in Vaults, NEW w \in Vaults, NEW e \in Escrows, NEW id \in WagerIds,
         w.wager_stake = Emptied(v.wager_stake, e, id)
  PROVE  /\ Staked(v, id) = Staked(w, id) + v.wager_stake[e][id]
         /\ \A x \in WagerIds : x # id => Staked(w, x) = Staked(v, x)
<1>1. Staked(v, id) = Staked(w, id) + v.wager_stake[e][id]
  <2>0. /\ [a \in Escrows |-> v.wager_stake[a][id]] \in [Escrows -> Nat]
        /\ [a \in Escrows |-> w.wager_stake[a][id]] \in [Escrows -> Nat]
    BY DEF Vaults
  <2>1. PICK f \in [Escrows -> Nat] : f = [a \in Escrows |-> v.wager_stake[a][id]]
    BY <2>0
  <2>2. PICK g \in [Escrows -> Nat] : g = [a \in Escrows |-> w.wager_stake[a][id]]
    BY <2>0
  <2>3. PICK n \in Nat : n = v.wager_stake[e][id]
    BY DEF Vaults
  <2>4. f[e] = g[e] + n /\ \A a \in Escrows : a # e => f[a] = g[a]
    BY <2>1, <2>2, <2>3 DEF Emptied, Vaults
  <2>5. SumFunction(f) = SumFunction(g) + n
    BY <2>4, FiniteAccountsAssumption, SumGrows
  <2> QED
    BY <2>1, <2>2, <2>3, <2>5 DEF Staked
<1>2. ASSUME NEW x \in WagerIds, x # id PROVE Staked(w, x) = Staked(v, x)
  <2>1. \A a \in Escrows : w.wager_stake[a][x] = v.wager_stake[a][x]
    BY <1>2 DEF Emptied, Vaults
  <2> QED
    BY <2>1 DEF Staked
<1> QED
  BY <1>1, <1>2

AcrossAt(id) ==
  LET due == wagers[id].stake * Len(wager_participants[id])
  IN  /\ wagers[id].state \in {"Pending", "Active", "VotingPhase"} => Staked(vault, id) = due
      /\ wagers[id].state = "Cancelled" => Staked(vault, id) = 0
      /\ Staked(vault, id) <= due

LEMMA AcrossAtEach == StakesAcrossEscrows <=> \A id \in WagerIds : AcrossAt(id)
  BY DEF StakesAcrossEscrows, AcrossAt, Staked

LEMMA AcrossKept ==
  ASSUME NEW x, AcrossAt(x),
         wagers'[x].stake = wagers[x].stake,
         wagers'[x].state = wagers[x].state,
         wager_participants'[x] = wager_participants[x],
         Staked(vault', x) = Staked(vault, x)
  PROVE  AcrossAt(x)'
  BY DEF AcrossAt, Staked

LEMMA DueType ==
  ASSUME TypeOK, NEW id \in WagerIds
  PROVE  /\ wagers[id].stake \in Nat /\ Len(wager_participants[id]) \in Nat
         /\ wagers[id].stake * Len(wager_participants[id]) \in Nat
<1>1. wagers[id].stake \in Nat /\ Len(wager_participants[id]) \in Nat
  BY DEF TypeOK, Wager
<1> QED
  BY <1>1

LEMMA AcrossCreate ==
  ASSUME TypeOK, TypeOK', ParticipantsAgree, UncreatedIsBlank, StakesAcrossEscrows,
         NEW x \in WagerIds,
         NEW u \in Users, NEW n \in Amounts, NEW m \in Modes, NEW c \in Claims,
         NEW t \in Times, create_wager(u, n, m, c, t)
  PROVE  AcrossAt(x)'
<1>1. PICK id \in WagerIds : CreatedAs(id, u, n)
  BY CreateFacts
<1>2. /\ vault \in Vaults /\ vault' \in Vaults /\ n \in Nat /\ AcrossAt(x)
      /\ escrow_address \in Escrows
      /\ vault'.wager_stake = Credited(vault.wager_stake, escrow_address, id, n)
  BY <1>1, AcrossAtEach DEF TypeOK, CreatedAs
<1>3. /\ Staked(vault', id) = Staked(vault, id) + n
      /\ \A y \in WagerIds : y # id => Staked(vault', y) = Staked(vault, y)
  BY <1>2, StakedCredited
<1>4. CASE x # id
  BY <1>1, <1>2, <1>3, <1>4, AcrossKept DEF CreatedAs
<1>5. CASE x = id
  <2>1. Staked(vault, id) = 0
    BY <1>1, <1>2, <1>5 DEF CreatedAs, AcrossAt, NoWager
  <2>2. Staked(vault', id) = n
    BY <1>2, <1>3, <2>1
  <2>3. /\ wagers'[id].stake = n /\ wagers'[id].state = "Pending"
        /\ Len(wager_participants'[id]) = 1
    BY <1>1 DEF CreatedAs
  <2>4. n * 1 = n /\ n <= n
    BY <1>2
  <2>5. Staked(vault, id)' = n
    BY <2>2 DEF Staked
  <2> QED
    BY <1>5, <2>3, <2>4, <2>5 DEF AcrossAt
<1> QED
  BY <1>4, <1>5

LEMMA AcrossJoin ==
  ASSUME TypeOK, TypeOK', ParticipantsAgree, StakesAcrossEscrows, NEW x \in WagerIds,
         NEW u \in Users, NEW id \in WagerIds, NEW c \in Claims, join_wager(u, id, c)
  PROVE  AcrossAt(x)'
<1> DEFINE stake == wagers[id].stake
           count == Len(wager_participants[id])
<1>1. /\ ~Decided(id) /\ SameTerms(id)
      /\ wagers'[id].state = "Active"
      /\ wager_participants[id] \in Seq(Users)
      /\ wager_participants'[id] = Append(wager_participants[id], u)
      /\ \A y \in WagerIds : y # id => wager_participants'[y] = wager_participants[y]
      /\ escrow_address \in Escrows
      /\ vault'.wager_stake = Credited(vault.wager_stake, escrow_address, id, stake)
  BY JoinFacts
<1>2. /\ AcrossAt(x) /\ vault \in Vaults /\ vault' \in Vaults
      /\ stake \in Nat /\ count \in Nat /\ stake * count \in Nat
  BY AcrossAtEach, DueType DEF TypeOK
<1>3. /\ Staked(vault', id) = Staked(vault, id) + stake
      /\ \A y \in WagerIds : y # id => Staked(vault', y) = Staked(vault, y)
  <2> HIDE DEF stake
  <2> QED
    BY <1>1, <1>2, StakedCredited
<1>4. CASE x # id
  BY <1>1, <1>2, <1>3, <1>4, AcrossKept DEF SameTerms
<1>5. CASE x = id
  <2>1. Len(wager_participants'[id]) = count + 1
    BY <1>1
  <2>2. Staked(vault, id) = stake * count
    BY <1>1, <1>2, <1>5 DEF AcrossAt, Decided, TypeOK, Wager, States
  <2>3. Staked(vault', id) = stake * (count + 1) /\ stake * (count + 1) <= stake * (count + 1)
    <3> HIDE DEF stake, count
    <3>1. stake * (count + 1) = stake * count + stake
      BY <1>2, OneMore
    <3> QED
      BY <1>2, <1>3, <2>2, <3>1
  <2>4. wagers'[id].stake = stake
    BY <1>1 DEF SameTerms
  <2>5. Staked(vault, id)' = Staked(vault', id)
    BY DEF Staked
  <2> HIDE DEF stake, count
  <2> QED
    BY <1>1, <1>5, <2>1, <2>3, <2>4, <2>5 DEF AcrossAt
<1> QED
  BY <1>4, <1>5

\* A decision never has to find all of a wager's stakes in the current escrow: what it
\* takes out of the total is what is there, and a cancellation needs all of it there.
LEMMA AcrossDecision ==
  ASSUME TypeOK, TypeOK', StakesAcrossEscrows, NEW x \in WagerIds,
         NEW id \in WagerIds, DecisionStep(id)
  PROVE  AcrossAt(x)'
<1>1. /\ AcrossAt(x) /\ vault \in Vaults /\ vault' \in Vaults
      /\ SameTerms(id) /\ wager_participants' = wager_participants
  BY AcrossAtEach, DecisionFacts DEF TypeOK, participation
<1>2. /\ Staked(vault, id) \in Nat /\ Staked(vault', id) \in Nat
      /\ wagers[x].stake * Len(wager_participants[x]) \in Nat
      /\ \A e \in Escrows : vault.wager_stake[e][id] \in Nat
  BY <1>1, StakedType, DueType
<1>3. ASSUME x # id, Staked(vault', x) = Staked(vault, x) PROVE AcrossAt(x)'
  BY <1>1, <1>3, AcrossKept DEF SameTerms
<1>4. ASSUME x = id, wagers'[id].state = "Resolved", Staked(vault', id) <= Staked(vault, id)
      PROVE  AcrossAt(x)'
  <2>1. Staked(vault, x)' = Staked(vault', x)
    BY DEF Staked
  <2>2. Staked(vault', x) <= wagers[x].stake * Len(wager_participants[x])
    BY <1>1, <1>2, <1>4 DEF AcrossAt
  <2>3. /\ wagers'[x].stake = wagers[x].stake
        /\ wager_participants'[x] = wager_participants[x]
    BY <1>1, <1>4 DEF SameTerms
  <2> QED
    BY <1>4, <2>1, <2>2, <2>3 DEF AcrossAt
<1>5. ASSUME NEW u \in Users, NEW vote \in BOOLEAN, submit_outcome(u, id, vote)
      PROVE  AcrossAt(x)'
  <2>1. CASE /\ vault' = vault
             /\ wagers'[id].state =
                  IF wagers[id].state = "Active" THEN "VotingPhase" ELSE wagers[id].state
    <3>1. Staked(vault', x) = Staked(vault, x)
      BY <2>1
    <3>2. CASE x = id
      <4>1. /\ wagers[id].state \in {"Pending", "Active", "VotingPhase"}
            /\ wagers'[id].state \in {"Pending", "Active", "VotingPhase"}
        BY <1>5, <2>1 DEF submit_outcome, Decided, TypeOK, Wager, States
      <4>2. Staked(vault, x)' = Staked(vault', x)
        BY DEF Staked
      <4>3. /\ wagers'[x].stake = wagers[x].stake
            /\ wager_participants'[x] = wager_participants[x]
        BY <1>1, <3>2 DEF SameTerms
      <4>4. /\ Staked(vault, x) = wagers[x].stake * Len(wager_participants[x])
            /\ Staked(vault, x) <= wagers[x].stake * Len(wager_participants[x])
        BY <1>1, <3>2, <4>1 DEF AcrossAt
      <4> QED
        BY <3>1, <3>2, <4>1, <4>2, <4>3, <4>4 DEF AcrossAt
    <3> QED
      BY <1>3, <3>1, <3>2
  <2>2. CASE /\ escrow_address \in Escrows
             /\ vault'.wager_stake = Emptied(vault.wager_stake, escrow_address, id)
             /\ wagers'[id].state = "Resolved"
    <3>1. /\ Staked(vault, id) = Staked(vault', id) + vault.wager_stake[escrow_address][id]
          /\ \A y \in WagerIds : y # id => Staked(vault', y) = Staked(vault, y)
      BY <1>1, <2>2, StakedEmptied
    <3>2. Staked(vault', id) <= Staked(vault, id)
      BY <1>2, <2>2, <3>1
    <3> QED
      BY <1>3, <1>4, <2>2, <3>1, <3>2
  <2> QED
    BY <1>5, <2>1, <2>2, SubmitCases
<1>6. CASE cancel_wager(id)
  <2>1. /\ Len(wager_participants[id]) = 1
        /\ wagers'[id].state = "Cancelled"
        /\ escrow_address \in Escrows
        /\ wagers[id].stake \in Nat
        /\ wager_participants[id] \in Seq(Addresses)
        /\ CanRefund(vault, escrow_address, id, wagers[id].stake, wager_participants[id])
        /\ vault' = refund_wager(vault, escrow_address, id, wagers[id].stake,
                                 wager_participants[id])
    BY <1>6, StateFrame DEF cancel_wager, EscrowConfigured, TypeOK, Wager, Addresses
  <2>2. vault'.wager_stake = Emptied(vault.wager_stake, escrow_address, id)
    BY <1>1, <2>1, RefundResult
  <2>3. /\ Staked(vault, id) = Staked(vault', id) + vault.wager_stake[escrow_address][id]
        /\ \A y \in WagerIds : y # id => Staked(vault', y) = Staked(vault, y)
    BY <1>1, <2>1, <2>2, StakedEmptied
  <2>4. CASE x = id
    <3>1. vault.wager_stake[escrow_address][id] = wagers[id].stake
      <4>1. wagers[id].stake * 1 = wagers[id].stake
        BY <2>1
      <4> QED
        BY <2>1, <4>1 DEF CanRefund
    <3>2. Staked(vault, id) <= wagers[id].stake
      <4>1. wagers[id].stake * 1 = wagers[id].stake
        BY <2>1
      <4> QED
        BY <1>1, <2>1, <2>4, <4>1 DEF AcrossAt
    <3>3. Staked(vault', id) = 0
      BY <1>2, <2>1, <2>3, <3>1, <3>2
    <3>4. Staked(vault, id)' = 0
      BY <3>3 DEF Staked
    <3>5. 0 <= wagers'[id].stake * Len(wager_participants'[id])
      BY <1>1, <1>2, <2>4 DEF SameTerms
    <3> QED
      BY <2>1, <2>4, <3>4, <3>5 DEF AcrossAt
  <2> QED
    BY <1>3, <2>3, <2>4
<1>7. ASSUME NEW u \in Users, resolve_wager(Admin, id, u)
      PROVE  AcrossAt(x)'
  <2>1. vault' = vault /\ wagers'[id].state = "Resolved"
    BY <1>7, RulingFrame DEF resolve_wager
  <2>2. Staked(vault', x) = Staked(vault, x) /\ Staked(vault', id) <= Staked(vault, id)
    BY <1>2, <2>1
  <2> QED
    BY <1>3, <1>4, <2>1, <2>2
<1> QED
  BY <1>5, <1>6, <1>7 DEF DecisionStep

\* However often the contract moves to another escrow, and however many there are, an
\* open wager's stakes are all still in escrow, and a cancelled wager has none left.
THEOREM StakesNeverLost == Spec => []StakesAcrossEscrows
<1>1. Init => StakesAcrossEscrows
  <2> SUFFICES ASSUME Init, NEW id \in WagerIds
               PROVE  AcrossAt(id)
    BY AcrossAtEach
  <2>1. wagers[id] = NoWager /\ Len(wager_participants[id]) = 0
    BY DEF Init
  <2>2. PICK f \in [Escrows -> Nat] :
          f = [e \in Escrows |-> vault.wager_stake[e][id]] /\ \A e \in Escrows : f[e] = 0
    <3> DEFINE none == [e \in Escrows |-> 0]
    <3>1. none \in [Escrows -> Nat] /\ \A e \in Escrows : none[e] = 0
      OBVIOUS
    <3>2. none = [e \in Escrows |-> vault.wager_stake[e][id]]
      BY DEF Init, EmptyVault
    <3> HIDE DEF none
    <3> QED
      BY <3>1, <3>2
  <2>3. Staked(vault, id) = 0
    BY <2>2, FiniteAccountsAssumption, SumZero DEF Staked
  <2> QED
    BY <2>1, <2>3 DEF AcrossAt, NoWager
<1>2. IndInv /\ IndInv' /\ StakesAcrossEscrows /\ [Next]_vars => StakesAcrossEscrows'
  <2> SUFFICES ASSUME IndInv, IndInv', StakesAcrossEscrows, [Next]_vars, NEW x \in WagerIds
               PROVE  AcrossAt(x)'
    BY DEF StakesAcrossEscrows, AcrossAt, Staked
  <2>1. TypeOK /\ TypeOK' /\ ParticipantsAgree /\ UncreatedIsBlank
    BY DEF IndInv
  <2>2. CASE UNCHANGED records /\ vault'.wager_stake = vault.wager_stake
    <3>1. Staked(vault', x) = Staked(vault, x)
      BY <2>2 DEF Staked
    <3>2. AcrossAt(x)
      BY AcrossAtEach
    <3> QED
      BY <2>2, <3>1, <3>2, AcrossKept DEF records, participation
  <2> QED
    BY <2>1, <2>2, AcrossCreate, AcrossJoin, AcrossDecision, StepCases
<1> QED
  BY <1>1, <1>2, Inductive, PTL DEF Spec

-----------------------------------------------------------------------------
(* What a decision leaves behind for good. *)

\* Money that comes into or leaves the pot of one wager touches no other pot, and what
\* leaves a pot empties it, whichever escrow it is in.
LEMMA PotsOfOthers ==
  ASSUME NEW v \in Vaults, NEW e \in Escrows, NEW f \in Escrows, NEW id \in WagerIds,
         NEW x \in WagerIds, NEW n \in Nat
  PROVE  /\ x # id => Credited(v.wager_stake, f, id, n)[e][x] = v.wager_stake[e][x]
         /\ Emptied(v.wager_stake, f, id)[e][x] \in {0, v.wager_stake[e][x]}
  BY DEF Vaults, Credited, Emptied

\* What a decision step takes out of a pot is all of it.
LEMMA DecisionPots ==
  ASSUME TypeOK, NEW e \in Escrows, NEW x \in WagerIds, NEW id \in WagerIds, DecisionStep(id)
  PROVE  vault'.wager_stake[e][x] \in {0, vault.wager_stake[e][x]}
<1>1. vault \in Vaults
  BY DEF TypeOK
<1>2. ASSUME NEW u \in Users, NEW vote \in BOOLEAN, submit_outcome(u, id, vote)
      PROVE  vault'.wager_stake[e][x] \in {0, vault.wager_stake[e][x]}
  BY <1>1, <1>2, SubmitCases, PotsOfOthers
<1>3. CASE cancel_wager(id)
  <2>1. /\ escrow_address \in Escrows
        /\ wagers[id].stake \in Nat
        /\ wager_participants[id] \in Seq(Addresses)
        /\ vault' = refund_wager(vault, escrow_address, id, wagers[id].stake,
                                 wager_participants[id])
    BY <1>3 DEF cancel_wager, EscrowConfigured, TypeOK, Wager, Addresses
  <2>2. vault'.wager_stake = Emptied(vault.wager_stake, escrow_address, id)
    BY <1>1, <2>1, RefundResult
  <2> QED
    BY <1>1, <2>1, <2>2, PotsOfOthers
<1>4. ASSUME NEW u \in Users, resolve_wager(Admin, id, u)
      PROVE  vault' = vault
  BY <1>4 DEF resolve_wager
<1> QED
  BY <1>2, <1>3, <1>4 DEF DecisionStep

\* The pot of a decided wager is never added to and only ever paid out whole, however
\* often the escrow changes.
THEOREM NeverASecondPayout == Spec => NoSecondPayout
<1>1. ASSUME IndInv, [Next]_vars, NEW e \in Escrows, NEW x \in WagerIds,
             wagers[x].state \in {"Resolved", "Cancelled"}
      PROVE  vault'.wager_stake[e][x] \in {0, vault.wager_stake[e][x]}
  <2> USE <1>1
  <2>1. TypeOK /\ ParticipantsAgree /\ UncreatedIsBlank /\ vault \in Vaults
    BY DEF IndInv, TypeOK
  <2>2. ASSUME NEW u \in Users, NEW n \in Amounts, NEW m \in Modes, NEW c \in Claims,
               NEW t \in Times, create_wager(u, n, m, c, t)
        PROVE  vault'.wager_stake[e][x] \in {0, vault.wager_stake[e][x]}
    <3>1. PICK id \in WagerIds : CreatedAs(id, u, n)
      BY <2>1, <2>2, CreateFacts
    <3>2. id # x /\ n \in Nat /\ escrow_address \in Escrows
      BY <3>1 DEF CreatedAs, NoWager
    <3>3. vault'.wager_stake = Credited(vault.wager_stake, escrow_address, id, n)
      BY <3>1 DEF CreatedAs
    <3> QED
      BY <2>1, <3>2, <3>3, PotsOfOthers
  <2>3. ASSUME NEW u \in Users, NEW id \in WagerIds, NEW c \in Claims, join_wager(u, id, c)
        PROVE  vault'.wager_stake[e][x] \in {0, vault.wager_stake[e][x]}
    <3>1. /\ ~Decided(id) /\ escrow_address \in Escrows
          /\ vault'.wager_stake =
               Credited(vault.wager_stake, escrow_address, id, wagers[id].stake)
      BY <2>1, <2>3, JoinFacts
    <3>2. id # x /\ wagers[id].stake \in Nat
      BY <2>1, <3>1 DEF Decided, TypeOK, Wager
    <3> QED
      BY <2>1, <3>1, <3>2, PotsOfOthers
  <2>4. ASSUME NEW id \in WagerIds, DecisionStep(id)
        PROVE  vault'.wager_stake[e][x] \in {0, vault.wager_stake[e][x]}
    BY <2>1, <2>4, DecisionPots
  <2> QED
    BY <2>1, <2>2, <2>3, <2>4, StepCases
<1>2. IndInv /\ [Next]_vars =>
        [ \A e \in Escrows, id \in WagerIds :
            wagers[id].state \in {"Resolved", "Cancelled"} =>
              vault'.wager_stake[e][id] \in {0, vault.wager_stake[e][id]} ]_vars
  BY <1>1
<1> QED
  BY <1>2, Inductive, PTL DEF Spec, NoSecondPayout

\* A resolved wager of two or more keeps its record, its participants and its ballots.
THEOREM DecisionsAreFinal == Spec => DecisionFinal
<1>1. ASSUME IndInv, [Next]_vars, NEW x \in WagerIds,
             wagers[x].state = "Resolved", Len(wager_participants[x]) > 1
      PROVE  /\ wagers'[x] = wagers[x]
             /\ wager_participants'[x] = wager_participants[x]
             /\ \A u \in Users : has_outcome_submitted(x, u)' = has_outcome_submitted(x, u)
  <2>0. Len(wager_participants[x]) # 1
    <3>1. Len(wager_participants[x]) > 1
      BY <1>1
    <3>2. Len(wager_participants[x]) \in Nat
      BY <1>1 DEF IndInv, TypeOK
    <3>3. \A n \in Nat : n > 1 => n # 1
      OBVIOUS
    <3> QED
      BY <3>1, <3>2, <3>3, Zenon
  <2> USE <1>1
  <2>1. TypeOK /\ ParticipantsAgree /\ UncreatedIsBlank
    BY DEF IndInv
  <2> DEFINE Kept == /\ wagers'[x] = wagers[x]
                     /\ wager_participants'[x] = wager_participants[x]
                     /\ \A u \in Users : has_outcome_submitted(x, u)' = has_outcome_submitted(x, u)
  <2>2. ASSUME NEW u \in Users, NEW n \in Amounts, NEW m \in Modes, NEW c \in Claims,
               NEW t \in Times, create_wager(u, n, m, c, t)
        PROVE  Kept
    <3>1. PICK id \in WagerIds : CreatedAs(id, u, n)
      BY <2>1, <2>2, CreateFacts
    <3>2. id # x
      BY <3>1 DEF CreatedAs, NoWager
    <3> QED
      BY <3>1, <3>2 DEF CreatedAs, has_outcome_submitted
  <2>3. ASSUME NEW u \in Users, NEW id \in WagerIds, NEW c \in Claims, join_wager(u, id, c)
        PROVE  Kept
    <3>1. /\ ~Decided(id) /\ SameTerms(id) /\ UNCHANGED ballots
          /\ \A y \in WagerIds : y # id => wager_participants'[y] = wager_participants[y]
      BY <2>1, <2>3, JoinFacts
    <3>2. id # x
      BY <3>1 DEF Decided
    <3> QED
      BY <3>1, <3>2 DEF SameTerms, has_outcome_submitted, ballots
  <2>4. ASSUME NEW id \in WagerIds, DecisionStep(id)
        PROVE  Kept
    <3>1. id # x
      <4>1. ASSUME NEW u \in Users, NEW vote \in BOOLEAN, submit_outcome(u, id, vote)
            PROVE  id # x
        BY <4>1 DEF submit_outcome, Decided
      <4>2. ASSUME cancel_wager(id) PROVE id # x
        <5>1. Len(wager_participants[id]) = 1
          BY <4>2 DEF cancel_wager
        <5> QED
          BY <2>0, <5>1
      <4>3. ASSUME NEW u \in Users, resolve_wager(Admin, id, u) PROVE id # x
        BY <4>3 DEF resolve_wager
      <4> QED
        BY <2>4, <4>1, <4>2, <4>3 DEF DecisionStep
    <3>2. /\ SameTerms(id) /\ UNCHANGED participation
          /\ \A u \in Users : has_outcome_submitted(x, u)' <=> has_outcome_submitted(x, u)
      BY <2>1, <2>4, <3>1, DecisionFacts
    <3> QED
      BY <3>1, <3>2 DEF SameTerms, participation, has_outcome_submitted
  <2>5. CASE UNCHANGED records
    BY <2>5 DEF records, participation, ballots, has_outcome_submitted
  <2> QED
    BY <2>1, <2>2, <2>3, <2>4, <2>5, StepCases
<1>2. IndInv /\ [Next]_vars =>
        [ \A id \in WagerIds :
            wagers[id].state = "Resolved" /\ Len(wager_participants[id]) > 1 =>
              /\ wagers'[id] = wagers[id]
              /\ wager_participants'[id] = wager_participants[id]
              /\ \A u \in Users : has_outcome_submitted(id, u)' = has_outcome_submitted(id, u)
        ]_vars
  BY <1>1
<1> QED
  BY <1>2, Inductive, PTL DEF Spec, DecisionFinal

-----------------------------------------------------------------------------
(* Who a step takes in-app money from, and who it gives it to. *)

LEMMA WalletsAt ==
  ASSUME NEW v \in Vaults, NEW e \in Escrows, NEW x \in Addresses, NEW n \in Nat,
         NEW f \in Escrows, NEW a \in Addresses
  PROVE  /\ Credited(v.user_balance, e, x, n)[f][a] =
              v.user_balance[f][a] + (IF f = e /\ a = x THEN n ELSE 0)
         /\ Debited(v.user_balance, e, x, n)[f][a] =
              IF f = e /\ a = x THEN v.user_balance[f][a] - n ELSE v.user_balance[f][a]
  BY DEF Vaults, Credited, Debited

LEMMA WithdrawPays ==
  ASSUME NEW v \in Vaults, NEW e \in Escrows, NEW to \in Users, NEW amount \in Nat
  PROVE  withdraw_from_wallet(v, e, to, amount).strk[to] = v.strk[to] + amount
<1>1. to \in Addresses /\ to \in Accounts
  BY DEF Accounts, Addresses
<1>2. withdraw_from_wallet(v, e, to, amount).strk[to] =
        CASE to = to -> v.strk[to] + amount
          [] to = e -> v.strk[to] - amount
          [] OTHER -> v.strk[to]
  BY <1>1, WithdrawMoves
<1>3. to # e
  BY AddressesAssumption
<1> QED
  BY <1>2, <1>3

LEMMA PotsAt ==
  ASSUME NEW v \in Vaults, NEW e \in Escrows, NEW x \in WagerIds, NEW n \in Nat,
         NEW f \in Escrows, NEW id \in WagerIds
  PROVE  /\ Credited(v.wager_stake, e, x, n)[f][id] =
              v.wager_stake[f][id] + (IF f = e /\ id = x THEN n ELSE 0)
         /\ Emptied(v.wager_stake, e, x)[f][id] =
              IF f = e /\ id = x THEN 0 ELSE v.wager_stake[f][id]
  BY DEF Vaults, Credited, Emptied

\* A stake comes out of the wallet of the one who pays it, and what the wallet lacks
\* comes from outside: the wallet is left with the difference, or empty.
LEMMA StakePaidWallets ==
  ASSUME vault \in Vaults, escrow_address \in Escrows \union {Zero},
         NEW caller \in Users, NEW id \in WagerIds, NEW stake \in Nat,
         StakePaidBy(caller, id, stake), NEW f \in Escrows, NEW a \in Addresses
  PROVE  vault'.user_balance[f][a] =
           IF f = escrow_address /\ a = caller
           THEN IF vault.user_balance[f][a] >= stake
                THEN vault.user_balance[f][a] - stake ELSE 0
           ELSE vault.user_balance[f][a]
<1>0. PICK e : e = escrow_address
  OBVIOUS
<1>1. e \in Escrows /\ caller \in Addresses
  BY <1>0 DEF StakePaidBy, EscrowConfigured, Addresses
<1>2. PICK topped : topped = ToppedUp(caller, stake)
  OBVIOUS
<1>3. vault.user_balance[f][a] \in Nat /\ vault.user_balance[e][caller] \in Nat
  BY <1>1 DEF Vaults
<1>4. /\ topped \in Vaults
      /\ topped.user_balance[f][a] =
           IF f = e /\ a = caller /\ vault.user_balance[f][a] < stake
           THEN stake ELSE vault.user_balance[f][a]
  <2>1. CASE NeedsTopUp(caller, stake)
    <3>1. PICK n : n = TopUp(caller, stake)
      OBVIOUS
    <3>2. n \in Nat /\ n = stake - vault.user_balance[e][caller]
      BY <1>0, <1>3, <2>1, <3>1 DEF NeedsTopUp, TopUp, get_balance
    <3>3. CanDeposit(vault, e, caller, n)
      BY <1>0, <2>1, <3>1 DEF StakePaidBy, CanTopUp
    <3>4. topped = deposit_to_wallet(vault, e, caller, n)
      BY <1>0, <1>2, <2>1, <3>1 DEF ToppedUp
    <3>5. topped \in Vaults /\ topped.user_balance = Credited(vault.user_balance, e, caller, n)
      BY <1>1, <3>2, <3>3, <3>4, DepositResult
    <3>6. topped.user_balance[f][a] =
            vault.user_balance[f][a] + (IF f = e /\ a = caller THEN n ELSE 0)
      BY <1>1, <3>2, <3>5, WalletsAt
    <3>7. vault.user_balance[e][caller] < stake
      BY <1>0, <2>1 DEF NeedsTopUp, get_balance
    <3> QED
      BY <1>3, <3>2, <3>5, <3>6, <3>7
  <2>2. CASE ~NeedsTopUp(caller, stake)
    <3>1. ~(vault.user_balance[e][caller] < stake)
      BY <1>0, <2>2 DEF NeedsTopUp, get_balance
    <3> QED
      BY <1>2, <2>2, <3>1 DEF ToppedUp
  <2> QED
    BY <2>1, <2>2
<1>5. CanFund(topped, e, caller, stake) /\ vault' = fund_wager(topped, e, id, caller, stake)
  BY <1>0, <1>2 DEF StakePaidBy
<1>6. vault'.user_balance = Debited(topped.user_balance, e, caller, stake)
  BY <1>1, <1>4, <1>5, FundResult
<1>7. vault'.user_balance[f][a] =
        IF f = e /\ a = caller THEN topped.user_balance[f][a] - stake ELSE topped.user_balance[f][a]
  BY <1>1, <1>4, <1>6, WalletsAt
<1> QED
  BY <1>0, <1>3, <1>4, <1>7

LEMMA ListOfOne ==
  ASSUME NEW S, NEW list \in Seq(S), Len(list) = 1
  PROVE  list # <<>> /\ DOMAIN list = {1} /\ list[1] \in S
<1>1. DOMAIN list = 1 .. 1
  OBVIOUS
<1>2. 1 .. 1 = {1}
  OBVIOUS
<1>3. list[1] \in S
  BY <1>1, <1>2
<1>4. list # <<>>
  <2>1. Len(<<>>) = 0
    OBVIOUS
  <2> QED
    BY <2>1
<1> QED
  BY <1>1, <1>2, <1>3, <1>4

\* A cancellation gives the whole pot back to the creator, who is the only participant.
LEMMA CancelFacts ==
  ASSUME TypeOK, ParticipantsAgree, NEW id \in WagerIds, cancel_wager(id)
  PROVE  LET creator == wagers[id].creator
             pot == vault.wager_stake[escrow_address][id]
         IN  /\ escrow_address \in Escrows
             /\ creator \in Users
             /\ Exists(id)
             /\ Len(wager_participants[id]) = 1
             /\ SameTerms(id)
             /\ wagers[id].state # "Cancelled" /\ wagers'[id].state = "Cancelled"
             /\ pot = wagers[id].stake * Len(wager_participants[id])
             /\ pot > 0
             /\ is_wager_participant(id, creator)
             /\ \A w \in Users : is_wager_participant(id, w) <=> w = creator
             /\ vault'.wager_stake = Emptied(vault.wager_stake, escrow_address, id)
             /\ \A f \in Escrows, a \in Addresses :
                  vault'.user_balance[f][a] =
                    vault.user_balance[f][a]
                      + (IF f = escrow_address /\ a = creator THEN pot ELSE 0)
<1>0. PICK e, list, stake, creator :
        /\ e = escrow_address /\ list = wager_participants[id]
        /\ stake = wagers[id].stake /\ creator = wagers[id].creator
  OBVIOUS
<1>1. /\ e \in Escrows
      /\ stake \in Nat
      /\ list \in Seq(Users)
      /\ Len(list) = 1
      /\ CanRefund(vault, e, id, stake, list)
      /\ vault' = refund_wager(vault, e, id, stake, list)
      /\ wagers[id].state # "Cancelled"
      /\ vault \in Vaults
  BY <1>0 DEF cancel_wager, EscrowConfigured, TypeOK, Wager
<1>2. SameTerms(id) /\ wagers'[id].state = "Cancelled"
  BY StateFrame DEF cancel_wager
<1>3. AgreeAt(id)
  BY AgreeAtEach
<1>4. list # <<>> /\ DOMAIN list = {1} /\ list[1] \in Users
  BY <1>1, ListOfOne
<1>5. Exists(id) /\ list[1] = creator
  BY <1>0, <1>3, <1>4 DEF AgreeAt
<1>6. creator \in Users /\ list \in Seq(Addresses)
  BY <1>1, <1>4, <1>5 DEF Addresses
<1>7. \A w \in Users : is_wager_participant(id, w) <=> w = creator
  BY <1>0, <1>3, <1>4, <1>5 DEF AgreeAt
<1>8. vault.wager_stake[e][id] > 0 /\ stake * Len(list) = vault.wager_stake[e][id]
  BY <1>1 DEF CanRefund
<1>9. vault'.wager_stake = Emptied(vault.wager_stake, e, id)
  BY <1>1, <1>6, RefundResult
<1>10. ASSUME NEW f \in Escrows, NEW a \in Addresses
       PROVE  vault'.user_balance[f][a] =
                vault.user_balance[f][a]
                  + (IF f = e /\ a = creator THEN vault.wager_stake[e][id] ELSE 0)
  <2>1. vault'.user_balance[f] =
          IF f = e THEN [b \in Addresses |-> vault.user_balance[e][b] + stake * Occurrences(list, b)]
                   ELSE vault.user_balance[f]
    BY <1>1, <1>6, RefundedWallets
  <2>2. vault.user_balance[f][a] \in Nat
    BY <1>1 DEF Vaults
  <2>3. CASE f = e
    <3>1. vault'.user_balance[f][a] = vault.user_balance[e][a] + stake * Occurrences(list, a)
      BY <2>1, <2>3
    <3>2. CASE a = creator
      <4>1. {i \in DOMAIN list : list[i] = a} = {1}
        BY <1>4, <1>5, <3>2
      <4>2. Cardinality({1}) = 1
        BY FS_Singleton
      <4>3. Occurrences(list, a) = 1
        BY <4>1, <4>2 DEF Occurrences
      <4>4. stake * Len(list) = stake * 1
        BY <1>1
      <4> QED
        BY <1>8, <2>3, <3>1, <3>2, <4>3, <4>4
    <3>3. CASE a # creator
      <4>1. {i \in DOMAIN list : list[i] = a} = {}
        BY <1>4, <1>5, <3>3
      <4>2. Occurrences(list, a) = 0
        BY <4>1, FS_EmptySet DEF Occurrences
      <4>3. stake * 0 = 0
        BY <1>1
      <4> QED
        BY <2>2, <2>3, <3>1, <3>3, <4>2, <4>3
    <3> QED
      BY <3>2, <3>3
  <2>4. CASE f # e
    BY <2>1, <2>2, <2>4
  <2> QED
    BY <2>3, <2>4
<1> QED
  BY <1>0, <1>1, <1>2, <1>5, <1>6, <1>7, <1>8, <1>9, <1>10

\* A vote leaves the money where it is, or decides an open wager and pays the pot of the
\* current escrow to the winner.
LEMMA SubmitPays ==
  ASSUME TypeOK, NEW u \in Users, NEW id \in WagerIds, NEW vote \in BOOLEAN,
         submit_outcome(u, id, vote)
  PROVE  \/ /\ vault' = vault
            /\ wagers'[id].state =
                 IF wagers[id].state = "Active" THEN "VotingPhase" ELSE wagers[id].state
         \/ /\ escrow_address \in Escrows
            /\ Exists(id) /\ ~Decided(id)
            /\ wagers'[id].state = "Resolved"
            /\ \E i \in DOMAIN wager_participants[id] :
                 wagers'[id].winner = wager_participants[id][i]
            /\ wagers'[id].winner \in Users
            /\ vault.wager_stake[escrow_address][id] > 0
            /\ vault'.wager_stake = Emptied(vault.wager_stake, escrow_address, id)
            /\ \A f \in Escrows, a \in Addresses :
                 vault'.user_balance[f][a] =
                   vault.user_balance[f][a]
                     + (IF f = escrow_address /\ a = wagers'[id].winner
                        THEN vault.wager_stake[escrow_address][id] ELSE 0)
<1>1. CASE /\ vault' = vault
           /\ wagers' = [wagers EXCEPT ![id].state =
                           IF @ = "Active" THEN "VotingPhase" ELSE @]
  BY <1>1, StateFrame
<1>2. ASSUME NEW claim, _resolve_wager_based_on_outcome(id, claim)
      PROVE  /\ escrow_address \in Escrows
             /\ wagers'[id].state = "Resolved"
             /\ \E i \in DOMAIN wager_participants[id] :
                  wagers'[id].winner = wager_participants[id][i]
             /\ wagers'[id].winner \in Users
             /\ vault.wager_stake[escrow_address][id] > 0
             /\ vault'.wager_stake = Emptied(vault.wager_stake, escrow_address, id)
             /\ \A f \in Escrows, a \in Addresses :
                  vault'.user_balance[f][a] =
                    vault.user_balance[f][a]
                      + (IF f = escrow_address /\ a = wagers'[id].winner
                         THEN vault.wager_stake[escrow_address][id] ELSE 0)
  <2>1. PICK i \in DOMAIN wager_participants[id] :
          /\ EscrowConfigured
          /\ CanDistribute(vault, escrow_address, id, wager_participants[id][i])
          /\ wagers' = [wagers EXCEPT ![id].state = "Resolved",
                                      ![id].winner = wager_participants[id][i]]
          /\ vault' = distribute_funds(vault, escrow_address, id, wager_participants[id][i])
    BY <1>2 DEF _resolve_wager_based_on_outcome
  <2>2. PICK w, e : w = wager_participants[id][i] /\ e = escrow_address
    OBVIOUS
  <2>3. /\ w \in Users /\ w \in Addresses /\ e \in Escrows /\ vault \in Vaults
        /\ vault.wager_stake[e][id] > 0
    BY <2>1, <2>2 DEF EscrowConfigured, TypeOK, Addresses, CanDistribute
  <2>4. wagers'[id].state = "Resolved" /\ wagers'[id].winner = w
    BY <2>1, <2>2, <2>3, RulingFrame
  <2>5. /\ vault'.user_balance = Credited(vault.user_balance, e, w, vault.wager_stake[e][id])
        /\ vault'.wager_stake = Emptied(vault.wager_stake, e, id)
    BY <2>1, <2>2, <2>3, DistributeResult
  <2>6. vault.wager_stake[e][id] \in Nat
    BY <2>3 DEF Vaults
  <2>7. \A f \in Escrows, a \in Addresses :
          vault'.user_balance[f][a] =
            vault.user_balance[f][a] + (IF f = e /\ a = w THEN vault.wager_stake[e][id] ELSE 0)
    BY <2>3, <2>5, <2>6, WalletsAt
  <2> QED
    BY <2>1, <2>2, <2>3, <2>4, <2>5, <2>7
<1>3. Exists(id) /\ ~Decided(id)
  BY DEF submit_outcome
<1>4. \/ /\ vault' = vault
         /\ wagers' = [wagers EXCEPT ![id].state =
                         IF @ = "Active" THEN "VotingPhase" ELSE @]
      \/ \E claim : _resolve_wager_based_on_outcome(id, claim)
  BY DEF submit_outcome
<1> QED
  BY <1>1, <1>2, <1>3, <1>4

\* Which transactions can touch a wallet or a pot at all.
LEMMA MoneyCases ==
  ASSUME TypeOK, [Next]_vars
  PROVE  \/ \E u \in Users, n \in Amounts : fund_wallet(u, n)
         \/ \E u \in Users, n \in Amounts : withdraw(u, n)
         \/ \E u \in Users, n \in Amounts, m \in Modes, c \in Claims, t \in Times :
              create_wager(u, n, m, c, t)
         \/ \E u \in Users, id \in WagerIds, c \in Claims : join_wager(u, id, c)
         \/ \E u \in Users, id \in WagerIds, vote \in BOOLEAN : submit_outcome(u, id, vote)
         \/ \E id \in WagerIds : cancel_wager(id)
         \/ /\ vault'.user_balance = vault.user_balance
            /\ vault'.wager_stake = vault.wager_stake
<1>1. ASSUME NEW u \in Users, NEW n \in Amounts, NEW to \in Accounts, TransferToken(u, to, n)
      PROVE  /\ vault'.user_balance = vault.user_balance
             /\ vault'.wager_stake = vault.wager_stake
  BY <1>1 DEF TransferToken, transfer, TypeOK, Vaults
<1>2. ASSUME NEW u \in Users, NEW e \in Escrows, NEW n \in Approvals, ApproveEscrow(u, e, n)
      PROVE  /\ vault'.user_balance = vault.user_balance
             /\ vault'.wager_stake = vault.wager_stake
  BY <1>2 DEF ApproveEscrow, approve, TypeOK, Vaults
<1>3. ASSUME AdminCall \/ NextBlock \/ UNCHANGED vars
      PROVE  vault' = vault
  BY <1>3 DEF AdminCall, resolve_wager, set_escrow_address, renounce_role, NextBlock, vars
<1> QED
  BY <1>1, <1>2, <1>3 DEF Next, WalletCall, WagerCall

\* Whoever pays the stake of a wager becomes a participant of it in the same step.
LEMMA StakerJoins ==
  ASSUME TypeOK, ParticipantsAgree, UncreatedIsBlank, NEW u \in Users,
         \/ \E n \in Amounts, m \in Modes, c \in Claims, t \in Times :
              create_wager(u, n, m, c, t)
         \/ \E x \in WagerIds, c \in Claims : join_wager(u, x, c)
  PROVE  \E id \in WagerIds : \E stake \in Nat :
           /\ wagers'[id].stake = stake
           /\ <<id, u>> \in wager_participants_mapping' \ wager_participants_mapping
           /\ escrow_address \in Escrows
           /\ StakePaidBy(u, id, stake)
           /\ vault'.wager_stake = Credited(vault.wager_stake, escrow_address, id, stake)
<1>1. ASSUME NEW n \in Amounts, NEW m \in Modes, NEW c \in Claims, NEW t \in Times,
             create_wager(u, n, m, c, t)
      PROVE  \E id \in WagerIds : \E stake \in Nat :
               /\ wagers'[id].stake = stake
               /\ <<id, u>> \in wager_participants_mapping' \ wager_participants_mapping
               /\ escrow_address \in Escrows
               /\ StakePaidBy(u, id, stake)
               /\ vault'.wager_stake = Credited(vault.wager_stake, escrow_address, id, stake)
  <2>1. PICK id : id = wager_count + 1
    OBVIOUS
  <2>2. id \in WagerIds /\ wager_count \in Nat /\ WagerIds \subseteq Nat /\ n \in Nat
    BY <1>1, <2>1, MaxWagersAssumption, AmountsAssumption
    DEF create_wager, WagerIds, TypeOK
  <2>3. StakePaidBy(u, id, n) /\ AddParticipant(id, u, c)
    BY <1>1, <2>1 DEF create_wager
  <2>4. wagers'[id].stake = n
    BY <1>1, <2>1, <2>2 DEF create_wager, TypeOK
  <2>5. AgreeAt(id) /\ ~Exists(id)
    BY <2>1, <2>2, AgreeAtEach DEF AgreeAt
  <2>6. <<id, u>> \notin wager_participants_mapping
    BY <2>5 DEF AgreeAt, is_wager_participant
  <2>7. <<id, u>> \in wager_participants_mapping'
    BY <2>3 DEF AddParticipant
  <2>8. /\ escrow_address \in Escrows
        /\ vault'.wager_stake = Credited(vault.wager_stake, escrow_address, id, n)
    BY <2>2, <2>3, StakePaidResult DEF TypeOK
  <2> QED
    BY <2>2, <2>3, <2>4, <2>6, <2>7, <2>8
<1>2. ASSUME NEW x \in WagerIds, NEW c \in Claims, join_wager(u, x, c)
      PROVE  \E stake \in Nat :
               /\ wagers'[x].stake = stake
               /\ <<x, u>> \in wager_participants_mapping' \ wager_participants_mapping
               /\ escrow_address \in Escrows
               /\ StakePaidBy(u, x, stake)
               /\ vault'.wager_stake = Credited(vault.wager_stake, escrow_address, x, stake)
  <2>1. SameTerms(x)
    BY <1>2, JoinFacts
  <2>2. /\ StakePaidBy(u, x, wagers[x].stake)
        /\ <<x, u>> \in wager_participants_mapping' \ wager_participants_mapping
    BY <1>2 DEF join_wager, AddParticipant, is_wager_participant
  <2>3. wagers[x].stake \in Nat
    BY DEF TypeOK, Wager
  <2>4. /\ escrow_address \in Escrows
        /\ vault'.wager_stake = Credited(vault.wager_stake, escrow_address, x, wagers[x].stake)
    BY <2>2, <2>3, StakePaidResult DEF TypeOK
  <2> QED
    BY <2>1, <2>2, <2>3, <2>4 DEF SameTerms
<1> QED
  BY <1>1, <1>2

\* Nobody loses in-app money but by withdrawing it or by staking it oneself.
THEOREM WalletsNeverLose == Spec => WalletsLoseNothing
<1> DEFINE Explained(e, u) ==
      LET lost == vault.user_balance[e][u] - vault'.user_balance[e][u]
      IN  vault'.user_balance[e][u] < vault.user_balance[e][u] =>
            \/ vault'.strk[u] = vault.strk[u] + lost
            \/ \E id \in WagerIds :
                 /\ <<id, u>> \in wager_participants_mapping' \ wager_participants_mapping
                 /\ vault'.wager_stake[e][id] = vault.wager_stake[e][id] + wagers'[id].stake
                 /\ lost <= wagers'[id].stake
<1>1. ASSUME IndInv, [Next]_vars, NEW e \in Escrows, NEW u \in Users
      PROVE  Explained(e, u)
  <2> USE <1>1
  <2>1. /\ TypeOK /\ ParticipantsAgree /\ UncreatedIsBlank
        /\ vault \in Vaults /\ escrow_address \in Escrows \union {Zero}
        /\ u \in Addresses /\ u \in Accounts
    BY DEF IndInv, TypeOK, Addresses, Accounts
  <2>2. vault.user_balance[e][u] \in Nat
    BY <2>1 DEF Vaults
  <2>3. ASSUME NEW w \in Users, NEW n \in Amounts, fund_wallet(w, n)
        PROVE  Explained(e, u)
    <3>1. /\ escrow_address \in Escrows /\ w \in Addresses /\ n \in Nat
          /\ CanDeposit(vault, escrow_address, w, n)
          /\ vault' = deposit_to_wallet(vault, escrow_address, w, n)
      BY <2>1, <2>3, AmountsAssumption DEF fund_wallet, EscrowConfigured, Addresses
    <3>2. vault'.user_balance = Credited(vault.user_balance, escrow_address, w, n)
      BY <2>1, <3>1, DepositResult
    <3>3. vault'.user_balance[e][u] =
            vault.user_balance[e][u] + (IF e = escrow_address /\ u = w THEN n ELSE 0)
      BY <2>1, <3>1, <3>2, WalletsAt
    <3> QED
      BY <2>2, <3>1, <3>3
  <2>4. ASSUME NEW w \in Users, NEW n \in Amounts, withdraw(w, n)
        PROVE  Explained(e, u)
    <3>1. /\ escrow_address \in Escrows /\ w \in Addresses /\ n \in Nat
          /\ CanWithdraw(vault, escrow_address, w, n)
          /\ vault' = withdraw_from_wallet(vault, escrow_address, w, n)
      BY <2>1, <2>4, AmountsAssumption DEF withdraw, EscrowConfigured, Addresses
    <3>2. vault'.user_balance = Debited(vault.user_balance, escrow_address, w, n)
      BY <2>1, <3>1, WithdrawResult
    <3>3. vault'.user_balance[e][u] =
            IF e = escrow_address /\ u = w THEN vault.user_balance[e][u] - n
                                           ELSE vault.user_balance[e][u]
      BY <2>1, <3>1, <3>2, WalletsAt
    <3>4. vault'.strk[w] = vault.strk[w] + n
      BY <2>1, <3>1, WithdrawPays
    <3> QED
      BY <2>2, <3>1, <3>3, <3>4
  <2>5. ASSUME NEW w \in Users,
               \/ \E n \in Amounts, m \in Modes, c \in Claims, t \in Times :
                    create_wager(w, n, m, c, t)
               \/ \E x \in WagerIds, c \in Claims : join_wager(w, x, c)
        PROVE  Explained(e, u)
    <3>1. PICK id \in WagerIds : \E stake \in Nat :
            /\ wagers'[id].stake = stake
            /\ <<id, w>> \in wager_participants_mapping' \ wager_participants_mapping
            /\ escrow_address \in Escrows
            /\ StakePaidBy(w, id, stake)
            /\ vault'.wager_stake = Credited(vault.wager_stake, escrow_address, id, stake)
      BY <2>1, <2>5, StakerJoins
    <3>2. PICK stake \in Nat :
            /\ wagers'[id].stake = stake
            /\ <<id, w>> \in wager_participants_mapping' \ wager_participants_mapping
            /\ escrow_address \in Escrows
            /\ StakePaidBy(w, id, stake)
            /\ vault'.wager_stake = Credited(vault.wager_stake, escrow_address, id, stake)
      BY <3>1
    <3>3. vault'.user_balance[e][u] =
            IF e = escrow_address /\ u = w
            THEN IF vault.user_balance[e][u] >= stake
                 THEN vault.user_balance[e][u] - stake ELSE 0
            ELSE vault.user_balance[e][u]
      BY <2>1, <3>2, StakePaidWallets
    <3>4. e = escrow_address => vault'.wager_stake[e][id] = vault.wager_stake[e][id] + stake
      BY <2>1, <3>2, PotsAt
    <3>5. vault'.user_balance[e][u] < vault.user_balance[e][u] =>
            /\ e = escrow_address /\ u = w
            /\ vault.user_balance[e][u] - vault'.user_balance[e][u] <= stake
      BY <2>2, <3>2, <3>3
    <3> QED
      BY <3>2, <3>4, <3>5
  <2>6. ASSUME NEW w \in Users, NEW id \in WagerIds, NEW vote \in BOOLEAN,
               submit_outcome(w, id, vote)
        PROVE  Explained(e, u)
    <3>1. CASE vault' = vault
      BY <2>2, <3>1
    <3>2. CASE vault' # vault
      <4>1. PICK pot, payee :
              /\ escrow_address \in Escrows
              /\ pot = vault.wager_stake[escrow_address][id]
              /\ payee = wagers'[id].winner
              /\ vault'.user_balance[e][u] =
                   vault.user_balance[e][u]
                     + (IF e = escrow_address /\ u = payee THEN pot ELSE 0)
        BY <2>1, <2>6, <3>2, SubmitPays
      <4>2. pot \in Nat
        BY <2>1, <4>1 DEF Vaults
      <4> QED
        BY <2>2, <4>1, <4>2
    <3> QED
      BY <3>1, <3>2
  <2>7. ASSUME NEW id \in WagerIds, cancel_wager(id)
        PROVE  Explained(e, u)
    <3>1. PICK pot, payee :
            /\ escrow_address \in Escrows
            /\ pot = vault.wager_stake[escrow_address][id]
            /\ payee = wagers[id].creator
            /\ vault'.user_balance[e][u] =
                 vault.user_balance[e][u]
                   + (IF e = escrow_address /\ u = payee THEN pot ELSE 0)
      BY <2>1, <2>7, CancelFacts
    <3>2. pot \in Nat
      BY <2>1, <3>1 DEF Vaults
    <3> QED
      BY <2>2, <3>1, <3>2
  <2>8. CASE vault'.user_balance = vault.user_balance
    BY <2>2, <2>8
  <2> HIDE DEF Explained
  <2> QED
    BY <2>1, <2>3, <2>4, <2>5, <2>6, <2>7, <2>8, MoneyCases
<1>2. IndInv /\ [Next]_vars =>
        [ \A e \in Escrows, u \in Users :
            LET lost == vault.user_balance[e][u] - vault'.user_balance[e][u]
            IN  vault'.user_balance[e][u] < vault.user_balance[e][u] =>
                  \/ vault'.strk[u] = vault.strk[u] + lost
                  \/ \E id \in WagerIds :
                       /\ <<id, u>> \in wager_participants_mapping' \ wager_participants_mapping
                       /\ vault'.wager_stake[e][id] = vault.wager_stake[e][id] + wagers'[id].stake
                       /\ lost <= wagers'[id].stake ]_vars
  BY <1>1
<1> QED
  BY <1>2, Inductive, PTL DEF Spec, WalletsLoseNothing

\* A pot only ever empties, whole, to the winner of the vote that settles it or to the
\* creator who cancels; with one escrow it is then every participant's stake.
THEOREM PotsPayTheRightAccount == Spec => PotsPayWhomTheyShould
<1> DEFINE Paid(e, id) ==
      LET paid == vault.wager_stake[e][id]
          payee == IF wagers'[id].state = "Cancelled" THEN wagers[id].creator
                                                      ELSE wagers'[id].winner
      IN  vault'.wager_stake[e][id] < paid =>
            /\ wagers'[id].state \in {"Resolved", "Cancelled"}
            /\ wagers'[id].state # wagers[id].state
            /\ vault'.user_balance[e][payee] = vault.user_balance[e][payee] + paid
            /\ Escrows = {e} => paid = wagers[id].stake * Len(wager_participants[id])
<1>1. ASSUME IndInv, [Next]_vars, NEW e \in Escrows, NEW id \in WagerIds
      PROVE  Paid(e, id)
  <2> USE <1>1
  <2>1. /\ TypeOK /\ ParticipantsAgree /\ UncreatedIsBlank
        /\ vault \in Vaults /\ escrow_address \in Escrows \union {Zero}
    BY DEF IndInv, TypeOK
  <2>2. vault.wager_stake[e][id] \in Nat
    BY <2>1 DEF Vaults
  <2>3. ASSUME vault'.wager_stake = vault.wager_stake
        PROVE  Paid(e, id)
    BY <2>2, <2>3
  <2>4. ASSUME NEW u \in Users, NEW n \in Amounts, fund_wallet(u, n) \/ withdraw(u, n)
        PROVE  vault'.wager_stake = vault.wager_stake
    BY <2>1, <2>4, WalletType DEF WalletCall
  <2>5. ASSUME NEW w \in Users,
               \/ \E n \in Amounts, m \in Modes, c \in Claims, t \in Times :
                    create_wager(w, n, m, c, t)
               \/ \E x \in WagerIds, c \in Claims : join_wager(w, x, c)
        PROVE  Paid(e, id)
    <3>1. PICK x \in WagerIds, stake \in Nat :
            /\ escrow_address \in Escrows
            /\ vault'.wager_stake = Credited(vault.wager_stake, escrow_address, x, stake)
      BY <2>1, <2>5, StakerJoins
    <3>2. vault'.wager_stake[e][id] =
            vault.wager_stake[e][id] + (IF e = escrow_address /\ id = x THEN stake ELSE 0)
      BY <2>1, <3>1, PotsAt
    <3> QED
      BY <2>2, <3>1, <3>2
  <2>6. ASSUME NEW w \in Users, NEW x \in WagerIds, NEW vote \in BOOLEAN,
               submit_outcome(w, x, vote), vault'.wager_stake[e][id] < vault.wager_stake[e][id]
        PROVE  /\ wagers'[id].state = "Resolved" /\ ~Decided(id)
               /\ wagers'[id].winner \in Addresses
               /\ vault'.user_balance[e][wagers'[id].winner] =
                    vault.user_balance[e][wagers'[id].winner] + vault.wager_stake[e][id]
    <3>1. /\ escrow_address \in Escrows
          /\ ~Decided(x)
          /\ wagers'[x].state = "Resolved"
          /\ wagers'[x].winner \in Addresses
          /\ vault'.wager_stake = Emptied(vault.wager_stake, escrow_address, x)
          /\ \A f \in Escrows, a \in Addresses :
               vault'.user_balance[f][a] =
                 vault.user_balance[f][a]
                   + (IF f = escrow_address /\ a = wagers'[x].winner
                      THEN vault.wager_stake[escrow_address][x] ELSE 0)
      BY <2>1, <2>2, <2>6, SubmitPays DEF Addresses
    <3>2. vault'.wager_stake[e][id] =
            IF e = escrow_address /\ id = x THEN 0 ELSE vault.wager_stake[e][id]
      BY <2>1, <3>1, PotsAt, 0 \in Nat
    <3>3. e = escrow_address /\ id = x
      BY <2>2, <2>6, <3>2
    <3> QED
      BY <3>1, <3>3
  <2>7. ASSUME NEW x \in WagerIds, cancel_wager(x),
               vault'.wager_stake[e][id] < vault.wager_stake[e][id]
        PROVE  /\ wagers'[id].state = "Cancelled" /\ wagers[id].state # "Cancelled"
               /\ vault'.user_balance[e][wagers[id].creator] =
                    vault.user_balance[e][wagers[id].creator] + vault.wager_stake[e][id]
               /\ vault.wager_stake[e][id] = wagers[id].stake * Len(wager_participants[id])
    <3>1. /\ escrow_address \in Escrows
          /\ wagers'[x].state = "Cancelled" /\ wagers[x].state # "Cancelled"
          /\ wagers[x].creator \in Addresses
          /\ vault.wager_stake[escrow_address][x]
               = wagers[x].stake * Len(wager_participants[x])
          /\ vault'.wager_stake = Emptied(vault.wager_stake, escrow_address, x)
          /\ \A f \in Escrows, a \in Addresses :
               vault'.user_balance[f][a] =
                 vault.user_balance[f][a]
                   + (IF f = escrow_address /\ a = wagers[x].creator
                      THEN vault.wager_stake[escrow_address][x] ELSE 0)
      BY <2>1, <2>7, CancelFacts DEF Addresses
    <3>2. vault'.wager_stake[e][id] =
            IF e = escrow_address /\ id = x THEN 0 ELSE vault.wager_stake[e][id]
      BY <2>1, <3>1, PotsAt, 0 \in Nat
    <3>3. e = escrow_address /\ id = x
      BY <2>2, <2>7, <3>2
    <3> QED
      BY <3>1, <3>3
  <2>8. ~Decided(id) /\ Escrows = {e} =>
          vault.wager_stake[e][id] = wagers[id].stake * Len(wager_participants[id])
    BY DEF IndInv, StakeAccounting
  <2>9. ASSUME NEW w \in Users, NEW x \in WagerIds, NEW vote \in BOOLEAN,
               submit_outcome(w, x, vote)
        PROVE  Paid(e, id)
    BY <2>6, <2>8, <2>9 DEF Decided
  <2>10. ASSUME NEW x \in WagerIds, cancel_wager(x)
         PROVE  Paid(e, id)
    BY <2>7, <2>10
  <2> HIDE DEF Paid
  <2> QED
    BY <2>1, <2>3, <2>4, <2>5, <2>9, <2>10, MoneyCases
<1>2. IndInv /\ [Next]_vars =>
        [ \A e \in Escrows, id \in WagerIds :
            LET paid == vault.wager_stake[e][id]
                payee == IF wagers'[id].state = "Cancelled" THEN wagers[id].creator
                                                            ELSE wagers'[id].winner
            IN  vault'.wager_stake[e][id] < paid =>
                  /\ wagers'[id].state \in {"Resolved", "Cancelled"}
                  /\ wagers'[id].state # wagers[id].state
                  /\ vault'.user_balance[e][payee] = vault.user_balance[e][payee] + paid
                  /\ Escrows = {e} =>
                       paid = wagers[id].stake * Len(wager_participants[id]) ]_vars
  BY <1>1
<1> QED
  BY <1>2, Inductive, PTL DEF Spec, PotsPayWhomTheyShould

-----------------------------------------------------------------------------
(* With one escrow, the contracts implement StakePot. *)

\* A list without repetitions has as many members as places.
LEMMA DistinctCount ==
  ASSUME NEW S, NEW list \in Seq(S), \A i, j \in DOMAIN list : list[i] = list[j] => i = j,
         NEW T, \A u : u \in T <=> \E i \in DOMAIN list : list[i] = u
  PROVE  Cardinality(T) = Len(list)
<1>1. PICK n \in Nat : n = Len(list) /\ DOMAIN list = 1 .. n
  OBVIOUS
<1>2. list = [i \in DOMAIN list |-> list[i]]
  OBVIOUS
<1> HIDE DEF Len
<1>3. list \in [1 .. n -> T]
  BY <1>1, <1>2
<1>4. list \in Bijection(1 .. n, T)
  BY <1>1, <1>3 DEF Bijection, Injection, Surjection, IsInjective
<1>5. ExistsBijection(1 .. n, T)
  BY <1>4 DEF ExistsBijection
<1> QED
  BY <1>1, <1>5, FS_CountingElements

backersOf(id) == {u \in Users : is_wager_participant(id, u)}

LEMMA BackersCount ==
  ASSUME TypeOK, ParticipantsAgree, NEW id \in WagerIds
  PROVE  Cardinality(backersOf(id)) = Len(wager_participants[id])
<1>1. PICK list : list = wager_participants[id]
  OBVIOUS
<1>2. list \in Seq(Users)
  BY <1>1 DEF TypeOK
<1>3. AgreeAt(id)
  BY AgreeAtEach
<1>4. \A i, j \in DOMAIN list : list[i] = list[j] => i = j
  BY <1>1, <1>3 DEF AgreeAt
<1>5. \A i \in DOMAIN list : list[i] \in Users
  BY <1>2
<1>6. \A u : u \in backersOf(id) <=> \E i \in DOMAIN list : list[i] = u
  BY <1>1, <1>3, <1>5 DEF AgreeAt, backersOf
<1>7. Cardinality(backersOf(id)) = Len(list)
  BY <1>2, <1>4, <1>6, DistinctCount
<1> QED
  BY <1>1, <1>7


LEMMA PromiseInit == OneEscrow /\ Init => Promise!Init
<1> SUFFICES ASSUME OneEscrow, Init PROVE Promise!Init
  OBVIOUS
<1>1. TheEscrow \in Escrows
  BY DEF OneEscrow
<1>2. \A id \in WagerIds : phaseOf(id) = "none" /\ wagers[id].stake = 0
  BY DEF Init, phaseOf, Exists, NoWager
<1>3. \A id \in WagerIds : {u \in Users : is_wager_participant(id, u)} = {}
  BY DEF Init, is_wager_participant
<1>4. \A id \in WagerIds : potOf(id) = 0
  BY <1>1 DEF Init, EmptyVault, potOf
<1>5. \A u \in Users : vault.user_balance[TheEscrow][u] = 0
  BY <1>1 DEF Init, EmptyVault, Addresses
<1> QED
  BY <1>2, <1>3, <1>4, <1>5 DEF Promise!Init

LEMMA TheOnlyEscrow ==
  ASSUME OneEscrow
  PROVE  TheEscrow \in Escrows /\ \A e \in Escrows : e = TheEscrow
  BY DEF OneEscrow

\* What PayStake says of the pot and the wallets is what staking does to the vault.
LEMMA PromisePayStake ==
  ASSUME OneEscrow, TypeOK, NEW u \in Users, NEW id \in WagerIds, NEW stake \in Nat,
         StakePaidBy(u, id, stake),
         wager_participants_mapping' = wager_participants_mapping \union {<<id, u>>}
  PROVE  Promise!PayStake(u, id, stake)
<1>0. TheEscrow \in Escrows /\ \A e \in Escrows : e = TheEscrow
  BY TheOnlyEscrow
<1>1. vault \in Vaults /\ escrow_address \in Escrows \union {Zero}
  BY DEF TypeOK
<1>2. /\ escrow_address = TheEscrow
      /\ stake > 0
      /\ vault'.wager_stake = Credited(vault.wager_stake, TheEscrow, id, stake)
  BY <1>0, <1>1, StakePaidResult
<1>3. \A x \in WagerIds : potOf(x)' = potOf(x) + (IF x = id THEN stake ELSE 0)
  <2> TAKE x \in WagerIds
  <2>1. Credited(vault.wager_stake, TheEscrow, id, stake)[TheEscrow][x] =
          vault.wager_stake[TheEscrow][x] + (IF x = id THEN stake ELSE 0)
    BY <1>0, <1>1, PotsAt
  <2> QED
    BY <1>2, <2>1 DEF potOf
<1>4. \A w \in Users :
        vault'.user_balance[TheEscrow][w] =
          IF w = u THEN IF vault.user_balance[TheEscrow][w] >= stake
                        THEN vault.user_balance[TheEscrow][w] - stake ELSE 0
                   ELSE vault.user_balance[TheEscrow][w]
  <2> TAKE w \in Users
  <2>1. w \in Addresses
    BY DEF Addresses
  <2> QED
    BY <1>0, <1>1, <1>2, <2>1, StakePaidWallets
<1>5. \A x \in WagerIds : {w \in Users : is_wager_participant(x, w)}' =
        IF x = id THEN {w \in Users : is_wager_participant(x, w)} \union {u}
                  ELSE {w \in Users : is_wager_participant(x, w)}
  BY DEF is_wager_participant
<1>6. \A x \in WagerIds : potOf(x) \in Nat
  BY <1>0, <1>1 DEF potOf, Vaults
<1>7. [x \in WagerIds |-> {w \in Users : is_wager_participant(x, w)}]' =
        [[x \in WagerIds |-> {w \in Users : is_wager_participant(x, w)}] EXCEPT
           ![id] = @ \union {u}]
  BY <1>5
<1>8. [x \in WagerIds |-> potOf(x)]' = [[x \in WagerIds |-> potOf(x)] EXCEPT ![id] = @ + stake]
  <2>1. \A x \in WagerIds : potOf(x)' = IF x = id THEN potOf(x) + stake ELSE potOf(x)
    BY <1>3, <1>6
  <2> QED
    BY <2>1
<1>9. [w \in Users |-> vault.user_balance[TheEscrow][w]]' =
        [[w \in Users |-> vault.user_balance[TheEscrow][w]] EXCEPT
           ![u] = IF @ >= stake THEN @ - stake ELSE 0]
  BY <1>4
<1> QED
  BY <1>2, <1>7, <1>8, <1>9 DEF Promise!PayStake

LEMMA PhaseKept ==
  ASSUME NEW x \in WagerIds, vault'.wager_stake[TheEscrow][x] = vault.wager_stake[TheEscrow][x],
         wagers'[x].state = wagers[x].state, wagers'[x].creator = wagers[x].creator
  PROVE  phaseOf(x)' = phaseOf(x)
  BY DEF phaseOf, potOf, Exists, Decided

LEMMA PromiseOpen ==
  ASSUME OneEscrow, IndInv, NEW u \in Users, NEW n \in Amounts, NEW m \in Modes,
         NEW c \in Claims, NEW t \in Times, create_wager(u, n, m, c, t)
  PROVE  \E id \in WagerIds : Promise!Open(u, id, n)
<1>0. TypeOK /\ ParticipantsAgree /\ UncreatedIsBlank /\ vault \in Vaults
  BY DEF IndInv, TypeOK
<1>1. PICK id : id = wager_count + 1
  OBVIOUS
<1>2. id \in WagerIds /\ wager_count \in Nat /\ WagerIds \subseteq Nat /\ n \in Nat
  BY <1>0, <1>1, MaxWagersAssumption, AmountsAssumption DEF create_wager, WagerIds, TypeOK
<1>3. StakePaidBy(u, id, n) /\ AddParticipant(id, u, c)
  BY <1>1 DEF create_wager
<1>4. Promise!PayStake(u, id, n)
  BY <1>0, <1>2, <1>3, PromisePayStake DEF AddParticipant
<1>5. /\ wagers'[id].creator = u /\ wagers'[id].stake = n /\ wagers'[id].state = "Pending"
      /\ \A x \in WagerIds : x # id => wagers'[x] = wagers[x]
  BY <1>0, <1>1, <1>2 DEF create_wager, TypeOK
<1>6. ~Exists(id)
  BY <1>0, <1>1, <1>2 DEF ParticipantsAgree
<1>7. phaseOf(id) = "none" /\ phaseOf(id)' = "open"
  BY <1>5, <1>6, AddressesAssumption DEF phaseOf, Exists, Decided
<1>8. ASSUME NEW x \in WagerIds, x # id
      PROVE  phaseOf(x)' = phaseOf(x)
  <2>0. TheEscrow \in Escrows /\ \A e \in Escrows : e = TheEscrow
    BY TheOnlyEscrow
  <2>1. vault'.wager_stake = Credited(vault.wager_stake, TheEscrow, id, n)
    BY <1>0, <1>2, <1>3, <2>0, StakePaidResult DEF TypeOK
  <2>2. Credited(vault.wager_stake, TheEscrow, id, n)[TheEscrow][x]
          = vault.wager_stake[TheEscrow][x]
    BY <1>0, <1>2, <1>8, <2>0, PotsOfOthers
  <2> QED
    BY <1>5, <1>8, <2>1, <2>2, PhaseKept
<1>9. [x \in WagerIds |-> phaseOf(x)]' = [[x \in WagerIds |-> phaseOf(x)] EXCEPT ![id] = "open"]
  BY <1>7, <1>8
<1>10. [x \in WagerIds |-> wagers[x].stake]' = [[x \in WagerIds |-> wagers[x].stake] EXCEPT ![id] = n]
  BY <1>5
<1> QED
  BY <1>2, <1>4, <1>7, <1>9, <1>10 DEF Promise!Open

LEMMA PromiseBack ==
  ASSUME OneEscrow, IndInv, NEW u \in Users, NEW id \in WagerIds, NEW c \in Claims,
         join_wager(u, id, c)
  PROVE  Promise!Back(u, id)
<1>0. TypeOK /\ ParticipantsAgree /\ vault \in Vaults
  BY DEF IndInv, TypeOK
<1>1. PICK stake \in Nat : stake = wagers[id].stake
  BY <1>0 DEF TypeOK, Wager
<1>2. /\ StakePaidBy(u, id, stake) /\ AddParticipant(id, u, c)
      /\ Exists(id) /\ ~Decided(id) /\ ~is_wager_participant(id, u)
  BY <1>1 DEF join_wager
<1>3. Promise!PayStake(u, id, stake)
  BY <1>0, <1>2, PromisePayStake DEF AddParticipant
<1>4. SameTerms(id) /\ wagers'[id].state = "Active"
  BY <1>0, StateFrame DEF join_wager
<1>5. phaseOf(id) = "open" /\ phaseOf(id)' = "open"
  BY <1>2, <1>4 DEF phaseOf, Exists, Decided, SameTerms
<1>6. ASSUME NEW x \in WagerIds, x # id
      PROVE  phaseOf(x)' = phaseOf(x)
  <2>0. TheEscrow \in Escrows /\ \A e \in Escrows : e = TheEscrow
    BY TheOnlyEscrow
  <2>1. vault'.wager_stake = Credited(vault.wager_stake, TheEscrow, id, stake)
    BY <1>0, <1>2, <2>0, StakePaidResult DEF TypeOK
  <2>2. Credited(vault.wager_stake, TheEscrow, id, stake)[TheEscrow][x]
          = vault.wager_stake[TheEscrow][x]
    BY <1>0, <1>6, <2>0, PotsOfOthers
  <2> QED
    BY <1>4, <1>6, <2>1, <2>2, PhaseKept DEF SameTerms
<1>7. [x \in WagerIds |-> phaseOf(x)]' = [x \in WagerIds |-> phaseOf(x)]
  BY <1>5, <1>6
<1>8. [x \in WagerIds |-> wagers[x].stake]' = [x \in WagerIds |-> wagers[x].stake]
  BY <1>4 DEF SameTerms
<1> QED
  BY <1>1, <1>2, <1>3, <1>5, <1>7, <1>8 DEF Promise!Back, Promise!PayStake

LEMMA SameCardinality == ASSUME NEW S PROVE Promise!Cardinality(S) = Cardinality(S)
  BY DEF Promise!Cardinality, Cardinality

\* The whole pot to one participant is a payout of the promise, whoever decided it.
LEMMA PromisePayOut ==
  ASSUME OneEscrow, TypeOK, ParticipantsAgree, NEW id \in WagerIds, NEW payee \in Users,
         Exists(id), SameTerms(id), wagers'[id].state \in {"Resolved", "Cancelled"},
         is_wager_participant(id, payee), UNCHANGED wager_participants_mapping,
         potOf(id) = wagers[id].stake * Len(wager_participants[id]),
         vault'.wager_stake = Emptied(vault.wager_stake, TheEscrow, id),
         \A f \in Escrows, a \in Addresses :
           vault'.user_balance[f][a] =
             vault.user_balance[f][a] + (IF f = TheEscrow /\ a = payee THEN potOf(id) ELSE 0)
  PROVE  Promise!PayOut(id, payee)
<1>0. TheEscrow \in Escrows /\ vault \in Vaults
  BY TheOnlyEscrow DEF TypeOK
<1>1. \A x \in WagerIds : potOf(x)' = IF x = id THEN 0 ELSE potOf(x)
  <2> TAKE x \in WagerIds
  <2>1. Emptied(vault.wager_stake, TheEscrow, id)[TheEscrow][x] =
          IF x = id THEN 0 ELSE vault.wager_stake[TheEscrow][x]
    BY <1>0, PotsAt, 0 \in Nat
  <2> QED
    BY <2>1 DEF potOf
<1>2. Exists(id)' /\ Decided(id)'
  BY DEF Exists, Decided, SameTerms
<1>3. phaseOf(id)' = "closed"
  <2>1. ~(potOf(id) > 0)'
    BY <1>1
  <2> QED
    BY <1>2, <2>1 DEF phaseOf
<1>4. \A x \in WagerIds : x # id => phaseOf(x)' = phaseOf(x)
  BY <1>1, PhaseKept DEF SameTerms, potOf
<1>5. [x \in WagerIds |-> phaseOf(x)]' = [[x \in WagerIds |-> phaseOf(x)] EXCEPT ![id] = "closed"]
  BY <1>3, <1>4
<1>6. [x \in WagerIds |-> potOf(x)]' = [[x \in WagerIds |-> potOf(x)] EXCEPT ![id] = 0]
  BY <1>1
<1>7. \A w \in Users :
        vault'.user_balance[TheEscrow][w] =
          IF w = payee THEN vault.user_balance[TheEscrow][w] + potOf(id)
                       ELSE vault.user_balance[TheEscrow][w]
  <2> TAKE w \in Users
  <2>1. w \in Addresses
    BY DEF Addresses
  <2>2. vault.user_balance[TheEscrow][w] \in Nat
    BY <1>0, <2>1 DEF Vaults
  <2>3. vault'.user_balance[TheEscrow][w] =
          vault.user_balance[TheEscrow][w] + (IF w = payee THEN potOf(id) ELSE 0)
    BY <1>0, <2>1
  <2> QED
    BY <2>2, <2>3
<1>8. [w \in Users |-> vault.user_balance[TheEscrow][w]]' =
        [[w \in Users |-> vault.user_balance[TheEscrow][w]] EXCEPT ![payee] = @ + potOf(id)]
  BY <1>7
<1>9. [x \in WagerIds |-> wagers[x].stake]' = [x \in WagerIds |-> wagers[x].stake]
  BY DEF SameTerms
<1>10. [x \in WagerIds |-> {w \in Users : is_wager_participant(x, w)}]' =
         [x \in WagerIds |-> {w \in Users : is_wager_participant(x, w)}]
  BY DEF is_wager_participant
<1>11. potOf(id) = wagers[id].stake * Cardinality({w \in Users : is_wager_participant(id, w)})
  BY BackersCount DEF backersOf
<1>12. /\ payee \in [x \in WagerIds |-> {w \in Users : is_wager_participant(x, w)}][id]
       /\ [x \in WagerIds |-> potOf(x)][id] =
            [x \in WagerIds |-> wagers[x].stake][id]
              * Promise!Cardinality(
                  [x \in WagerIds |-> {w \in Users : is_wager_participant(x, w)}][id])
  BY <1>11, SameCardinality
<1>13. [w \in Users |-> vault.user_balance[TheEscrow][w]]' =
        [[w \in Users |-> vault.user_balance[TheEscrow][w]] EXCEPT
           ![payee] = @ + [x \in WagerIds |-> potOf(x)][id]]
  BY <1>8
<1> QED
  BY <1>5, <1>6, <1>9, <1>10, <1>12, <1>13, Zenon DEF Promise!PayOut

LEMMA PromiseSubmit ==
  ASSUME OneEscrow, IndInv, NEW u \in Users, NEW id \in WagerIds, NEW vote \in BOOLEAN,
         submit_outcome(u, id, vote)
  PROVE  \/ UNCHANGED Promise!vars
         \/ \E payee \in Users : Promise!Settle(id, payee)
<1>0. /\ TypeOK /\ ParticipantsAgree /\ vault \in Vaults
      /\ Exists(id) /\ ~Decided(id) /\ SameTerms(id)
      /\ UNCHANGED wager_participants_mapping
  BY SubmitCases DEF IndInv, TypeOK, submit_outcome, participation
<1>1. CASE /\ vault' = vault
           /\ wagers'[id].state =
                IF wagers[id].state = "Active" THEN "VotingPhase" ELSE wagers[id].state
  <2>1. \A x \in WagerIds : phaseOf(x)' = phaseOf(x)
    BY <1>0, <1>1 DEF phaseOf, potOf, Exists, Decided, SameTerms
  <2>2. \A x \in WagerIds : wagers'[x].stake = wagers[x].stake
    BY <1>0 DEF SameTerms
  <2> QED
    BY <1>0, <1>1, <2>1, <2>2 DEF Promise!vars, potOf, is_wager_participant
<1>2. CASE \E payee \in Users :
             /\ payee = wagers'[id].winner
             /\ escrow_address \in Escrows
             /\ wagers'[id].state = "Resolved"
             /\ \E i \in DOMAIN wager_participants[id] : wager_participants[id][i] = payee
             /\ vault'.wager_stake = Emptied(vault.wager_stake, escrow_address, id)
             /\ \A f \in Escrows, a \in Addresses :
                  vault'.user_balance[f][a] =
                    vault.user_balance[f][a]
                      + (IF f = escrow_address /\ a = payee
                         THEN vault.wager_stake[escrow_address][id] ELSE 0)
  <2>0. TheEscrow \in Escrows /\ \A e \in Escrows : e = TheEscrow
    BY TheOnlyEscrow
  <2>1. PICK payee \in Users :
          /\ payee = wagers'[id].winner
          /\ escrow_address \in Escrows
          /\ wagers'[id].state = "Resolved"
          /\ \E i \in DOMAIN wager_participants[id] : wager_participants[id][i] = payee
          /\ vault'.wager_stake = Emptied(vault.wager_stake, escrow_address, id)
          /\ \A f \in Escrows, a \in Addresses :
               vault'.user_balance[f][a] =
                 vault.user_balance[f][a]
                   + (IF f = escrow_address /\ a = payee
                      THEN vault.wager_stake[escrow_address][id] ELSE 0)
    BY <1>2
  <2>2. escrow_address = TheEscrow
    BY <2>0, <2>1
  <2>3. is_wager_participant(id, payee)
    BY <1>0, <2>1 DEF ParticipantsAgree
  <2>4. potOf(id) = wagers[id].stake * Len(wager_participants[id])
    BY <1>0, <2>0 DEF IndInv, StakeAccounting, potOf, OneEscrow
  <2>5. Promise!PayOut(id, payee)
    BY <1>0, <2>1, <2>2, <2>3, <2>4, PromisePayOut DEF potOf
  <2>6. phaseOf(id) = "open"
    BY <1>0 DEF phaseOf
  <2> QED
    BY <2>5, <2>6 DEF Promise!Settle
<1> QED
  BY <1>0, <1>1, <1>2, SubmitPays

LEMMA PromiseCancel ==
  ASSUME OneEscrow, IndInv, NEW id \in WagerIds, cancel_wager(id)
  PROVE  \E payee \in Users : Promise!Settle(id, payee) \/ Promise!RefundRuled(id, payee)
<1>0. TypeOK /\ ParticipantsAgree /\ vault \in Vaults
  BY DEF IndInv, TypeOK
<1>1. TheEscrow \in Escrows /\ \A e \in Escrows : e = TheEscrow
  BY TheOnlyEscrow
<1>2. PICK payee \in Users :
        /\ payee = wagers[id].creator
        /\ escrow_address \in Escrows
        /\ Exists(id) /\ SameTerms(id)
        /\ wagers[id].state # "Cancelled" /\ wagers'[id].state = "Cancelled"
        /\ vault.wager_stake[escrow_address][id]
             = wagers[id].stake * Len(wager_participants[id])
        /\ vault.wager_stake[escrow_address][id] > 0
        /\ \A w \in Users : is_wager_participant(id, w) <=> w = payee
        /\ vault'.wager_stake = Emptied(vault.wager_stake, escrow_address, id)
        /\ \A f \in Escrows, a \in Addresses :
             vault'.user_balance[f][a] =
               vault.user_balance[f][a]
                 + (IF f = escrow_address /\ a = payee
                    THEN vault.wager_stake[escrow_address][id] ELSE 0)
  BY <1>0, CancelFacts
<1>3. escrow_address = TheEscrow
  BY <1>1, <1>2
<1>4. UNCHANGED wager_participants_mapping
  BY DEF cancel_wager, participation
<1>5. Promise!PayOut(id, payee)
  BY <1>0, <1>2, <1>3, <1>4, PromisePayOut DEF potOf
<1>6. phaseOf(id) = IF Decided(id) THEN "ruled" ELSE "open"
  BY <1>2, <1>3 DEF phaseOf, potOf
<1>7. {w \in Users : is_wager_participant(id, w)} = {payee}
  BY <1>2
<1> QED
  BY <1>5, <1>6, <1>7 DEF Promise!Settle, Promise!RefundRuled

\* A ruling freezes the pot of an open wager, and says nothing new of a cancelled one.
LEMMA PromiseRule ==
  ASSUME OneEscrow, IndInv, NEW id \in WagerIds, NEW u \in Users, resolve_wager(Admin, id, u)
  PROVE  UNCHANGED Promise!vars \/ Promise!Rule(id)
<1>0. /\ TypeOK /\ ParticipantsAgree /\ vault \in Vaults
      /\ Exists(id) /\ wagers[id].state # "Resolved"
      /\ SameTerms(id) /\ wagers'[id].state = "Resolved"
      /\ vault' = vault
      /\ wager_participants_mapping' = wager_participants_mapping
  BY RulingFrame DEF IndInv, TypeOK, resolve_wager, participation
<1>1. TheEscrow \in Escrows /\ Escrows = {TheEscrow}
  BY TheOnlyEscrow
<1>2. /\ [x \in WagerIds |-> potOf(x)]' = [x \in WagerIds |-> potOf(x)]
      /\ [w \in Users |-> vault.user_balance[TheEscrow][w]]' =
           [w \in Users |-> vault.user_balance[TheEscrow][w]]
      /\ [x \in WagerIds |-> wagers[x].stake]' = [x \in WagerIds |-> wagers[x].stake]
      /\ [x \in WagerIds |-> {w \in Users : is_wager_participant(x, w)}]' =
           [x \in WagerIds |-> {w \in Users : is_wager_participant(x, w)}]
  BY <1>0 DEF potOf, SameTerms, is_wager_participant
<1>3. \A x \in WagerIds : x # id => phaseOf(x)' = phaseOf(x)
  BY <1>0, PhaseKept DEF SameTerms
<1>4. Exists(id)' /\ Decided(id)' /\ potOf(id)' = potOf(id)
  BY <1>0 DEF Exists, Decided, SameTerms, potOf
<1>5. CASE ~Decided(id)
  <2>1. PICK count \in Nat : count = Len(wager_participants[id]) /\ count > 0
    <3>1. wager_participants[id] \in Seq(Users) /\ wager_participants[id] # <<>>
      BY <1>0 DEF TypeOK, ParticipantsAgree
    <3> QED
      BY <3>1
  <2>2. PICK stake \in Nat : stake = wagers[id].stake /\ stake > 0
    BY <1>0, <1>1 DEF TypeOK, Wager, IndInv, StakeAccounting
  <2>3. potOf(id) = stake * count
    BY <1>1, <1>5, <2>1, <2>2 DEF IndInv, StakeAccounting, potOf
  <2>4. potOf(id) > 0
    <3>1. \A a, b \in Nat : a > 0 /\ b > 0 => a * b > 0
      OBVIOUS
    <3> QED
      BY <2>1, <2>2, <2>3, <3>1
  <2>5. phaseOf(id) = "open" /\ phaseOf(id)' = "ruled"
    BY <1>0, <1>4, <1>5, <2>4 DEF phaseOf
  <2>6. [x \in WagerIds |-> phaseOf(x)]' = [[x \in WagerIds |-> phaseOf(x)] EXCEPT ![id] = "ruled"]
    BY <1>3, <2>5
  <2>7. [x \in WagerIds |-> phaseOf(x)][id] = "open"
    BY <2>5
  <2> QED
    BY <1>2, <2>6, <2>7, Zenon DEF Promise!Rule
<1>6. CASE Decided(id)
  <2>1. phaseOf(id)' = phaseOf(id)
    BY <1>0, <1>4, <1>6 DEF phaseOf
  <2>2. [x \in WagerIds |-> phaseOf(x)]' = [x \in WagerIds |-> phaseOf(x)]
    BY <1>3, <2>1
  <2> QED
    BY <1>2, <2>2, Zenon DEF Promise!vars
<1> QED
  BY <1>5, <1>6

LEMMA RecordsKept ==
  ASSUME OneEscrow, TypeOK, UNCHANGED records, vault'.wager_stake = vault.wager_stake
  PROVE  /\ [x \in WagerIds |-> phaseOf(x)]' = [x \in WagerIds |-> phaseOf(x)]
         /\ [x \in WagerIds |-> potOf(x)]' = [x \in WagerIds |-> potOf(x)]
         /\ [x \in WagerIds |-> wagers[x].stake]' = [x \in WagerIds |-> wagers[x].stake]
         /\ [x \in WagerIds |-> {w \in Users : is_wager_participant(x, w)}]' =
              [x \in WagerIds |-> {w \in Users : is_wager_participant(x, w)}]
<1>1. wagers' = wagers /\ wager_participants_mapping' = wager_participants_mapping
  BY DEF records, participation
<1>2. \A x \in WagerIds : phaseOf(x)' = phaseOf(x)
  BY <1>1, PhaseKept
<1> QED
  BY <1>1, <1>2 DEF potOf, is_wager_participant

LEMMA PromiseWallet ==
  ASSUME OneEscrow, TypeOK, NEW u \in Users, NEW n \in Amounts,
         fund_wallet(u, n) \/ withdraw(u, n)
  PROVE  Promise!Deposit(u, n) \/ Promise!Withdraw(u, n)
<1>0. TheEscrow \in Escrows /\ \A e \in Escrows : e = TheEscrow
  BY TheOnlyEscrow
<1>1. /\ n \in Nat /\ u \in Addresses /\ vault \in Vaults
      /\ escrow_address = TheEscrow
  BY <1>0, AmountsAssumption
  DEF TypeOK, Addresses, fund_wallet, withdraw, EscrowConfigured
<1>2. UNCHANGED records /\ vault'.wager_stake = vault.wager_stake
  BY BooksFrame DEF WalletCall
<1>3. \A w \in Users : w \in Addresses
  BY DEF Addresses
<1>4. \A w \in Users : vault.user_balance[TheEscrow][w] \in Nat
  BY <1>0, <1>1, <1>3 DEF Vaults
<1>5. CASE fund_wallet(u, n)
  <2>1. /\ CanDeposit(vault, TheEscrow, u, n)
        /\ vault' = deposit_to_wallet(vault, TheEscrow, u, n)
    BY <1>1, <1>5 DEF fund_wallet
  <2>2. vault'.user_balance = Credited(vault.user_balance, TheEscrow, u, n)
    BY <1>0, <1>1, <2>1, DepositResult
  <2>3. \A w \in Users : vault'.user_balance[TheEscrow][w] =
          IF w = u THEN vault.user_balance[TheEscrow][w] + n
                   ELSE vault.user_balance[TheEscrow][w]
    <3> TAKE w \in Users
    <3>1. vault'.user_balance[TheEscrow][w] =
            vault.user_balance[TheEscrow][w] + (IF w = u THEN n ELSE 0)
      BY <1>0, <1>1, <1>3, <2>2, WalletsAt
    <3> QED
      BY <1>4, <3>1
  <2>4. [w \in Users |-> vault.user_balance[TheEscrow][w]]' =
          [[w \in Users |-> vault.user_balance[TheEscrow][w]] EXCEPT ![u] = @ + n]
    BY <2>3
  <2> QED
    BY <1>2, <2>4, RecordsKept, Zenon DEF Promise!Deposit
<1>6. CASE withdraw(u, n)
  <2>1. /\ CanWithdraw(vault, TheEscrow, u, n)
        /\ vault' = withdraw_from_wallet(vault, TheEscrow, u, n)
    BY <1>1, <1>6 DEF withdraw
  <2>2. vault'.user_balance = Debited(vault.user_balance, TheEscrow, u, n)
    BY <1>0, <1>1, <2>1, WithdrawResult
  <2>3. \A w \in Users : vault'.user_balance[TheEscrow][w] =
          IF w = u THEN vault.user_balance[TheEscrow][w] - n
                   ELSE vault.user_balance[TheEscrow][w]
    <3> TAKE w \in Users
    <3>1. Debited(vault.user_balance, TheEscrow, u, n)[TheEscrow][w] =
            IF w = u THEN vault.user_balance[TheEscrow][w] - n
                     ELSE vault.user_balance[TheEscrow][w]
      BY <1>0, <1>1, <1>3, WalletsAt
    <3> QED
      BY <2>2, <3>1
  <2>4. [w \in Users |-> vault.user_balance[TheEscrow][w]]' =
          [[w \in Users |-> vault.user_balance[TheEscrow][w]] EXCEPT ![u] = @ - n]
    BY <2>3
  <2>5. n <= [w \in Users |-> vault.user_balance[TheEscrow][w]][u]
    BY <1>1, <1>4, <2>1 DEF CanWithdraw, get_balance
  <2> QED
    BY <1>2, <2>4, <2>5, RecordsKept, Zenon DEF Promise!Withdraw
<1> QED
  BY <1>5, <1>6

\* Every transaction of the contracts is one step of the promise, or none.
LEMMA PromiseStep ==
  ASSUME OneEscrow, IndInv, [Next]_vars
  PROVE  [Promise!Next]_(Promise!vars)
<1>0. TypeOK
  BY DEF IndInv
<1>1. ASSUME NEW u \in Users, NEW n \in Amounts, fund_wallet(u, n) \/ withdraw(u, n)
      PROVE  Promise!Next
  BY <1>0, <1>1, PromiseWallet DEF Promise!Next
<1>2. ASSUME NEW u \in Users, NEW n \in Amounts, NEW m \in Modes, NEW c \in Claims,
             NEW t \in Times, create_wager(u, n, m, c, t)
      PROVE  Promise!Next
  BY <1>2, PromiseOpen DEF Promise!Next
<1>3. ASSUME NEW u \in Users, NEW id \in WagerIds, NEW c \in Claims, join_wager(u, id, c)
      PROVE  Promise!Next
  BY <1>3, PromiseBack DEF Promise!Next
<1>4. ASSUME NEW u \in Users, NEW id \in WagerIds, NEW vote \in BOOLEAN,
             submit_outcome(u, id, vote)
      PROVE  [Promise!Next]_(Promise!vars)
  BY <1>4, PromiseSubmit DEF Promise!Next
<1>5. ASSUME NEW id \in WagerIds, cancel_wager(id)
      PROVE  Promise!Next
  BY <1>5, PromiseCancel DEF Promise!Next
<1>6. ASSUME NEW id \in WagerIds, NEW u \in Users, resolve_wager(Admin, id, u)
      PROVE  [Promise!Next]_(Promise!vars)
  BY <1>6, PromiseRule DEF Promise!Next
<1>7. ASSUME UNCHANGED records, vault'.wager_stake = vault.wager_stake,
             vault'.user_balance = vault.user_balance
      PROVE  UNCHANGED Promise!vars
  <2>1. [w \in Users |-> vault.user_balance[TheEscrow][w]]' =
          [w \in Users |-> vault.user_balance[TheEscrow][w]]
    BY <1>7
  <2> QED
    BY <1>0, <1>7, <2>1, RecordsKept, Zenon DEF Promise!vars
<1>8. CASE \/ \E u \in Users, n \in Amounts, to \in Accounts : TransferToken(u, to, n)
           \/ \E u \in Users, e \in Escrows, n \in Approvals : ApproveEscrow(u, e, n)
  <2>1. vault'.user_balance = vault.user_balance
    BY <1>0, <1>8 DEF TransferToken, transfer, ApproveEscrow, approve, TypeOK, Vaults
  <2>2. UNCHANGED records /\ vault'.wager_stake = vault.wager_stake
    BY <1>0, <1>8, BooksFrame DEF WalletCall
  <2> QED
    BY <1>7, <2>1, <2>2
<1>9. CASE \/ NextBlock
           \/ \E e \in Escrows : set_escrow_address(Admin, e)
           \/ renounce_role(Admin)
           \/ UNCHANGED vars
  <2>1. vault' = vault
    BY <1>9 DEF NextBlock, set_escrow_address, renounce_role, vars
  <2>2. UNCHANGED records
    BY <1>0, <1>9, BooksFrame
  <2> QED
    BY <1>7, <2>1, <2>2
<1> QED
  BY <1>1, <1>2, <1>3, <1>4, <1>5, <1>6, <1>8, <1>9 DEF Next, WalletCall, WagerCall, AdminCall

\* With one escrow, the contracts implement StakePot: every deposit, stake, vote, ruling
\* and refund is one of its steps, or none.
THEOREM StakePotImplemented == OneEscrow => (Spec => ImplementsStakePot)
<1> SUFFICES ASSUME OneEscrow PROVE Spec => ImplementsStakePot
  OBVIOUS
<1>1. Init => Promise!Init
  BY PromiseInit
<1>2. IndInv /\ [Next]_vars => [Promise!Next]_(Promise!vars)
  BY PromiseStep
<1> QED
  BY <1>1, <1>2, Inductive, PTL DEF Spec, ImplementsStakePot, Promise!Spec
=============================================================================
