----------------------------- MODULE StrkWager -----------------------------
(***************************************************************************)
(* The wager contract (contracts/src/wager/wager.cairo) together with the  *)
(* escrows it moves money through.  One action is one transaction: every   *)
(* call the function makes into the escrow and the token happens in it, or *)
(* an assert fails and nothing does.                                       *)
(*                                                                         *)
(* Left out: category, title, terms and created_at, which no function      *)
(* reads, and the events.                                                  *)
(***************************************************************************)
EXTENDS Escrow, Functions

CONSTANTS
  Admin,      \* the account the constructor gives ADMIN_ROLE to
  MaxTime     \* bound: block timestamps are 0..MaxTime

ASSUME MaxTimeAssumption == MaxTime \in Nat

Times  == 0 .. MaxTime
Modes  == {"HeadToHead", "Group"}
Claims == {"Yes", "No"}
States == {"Pending", "Active", "VotingPhase", "Resolved", "Cancelled"}

Wager ==
  [ creator : Addresses, stake : Nat, winner : Addresses,
    mode : Modes, state : States, resolution_time : Times ]

\* What storage holds for an id nobody created: zeros and #[default] variants.
NoWager ==
  [ creator |-> Zero, stake |-> 0, winner |-> Zero,
    mode |-> "HeadToHead", state |-> "Pending", resolution_time |-> 0 ]

VARIABLES
  vault,                        \* the token and the escrows
  wager_count,
  wagers,                       \* wager id -> Wager
  wager_participants,           \* wager id -> list of participants (and its length)
  wager_participants_mapping,   \* the pairs <<wager id, participant>> that are true
  wager_participants_claim,     \* wager id -> participant -> Claim
  wager_outcome_votes,          \* the pairs whose stored vote is true
  wager_outcome_submitted,      \* the pairs that have voted
  escrow_address,
  admins,                       \* the holders of ADMIN_ROLE
  now                           \* the block timestamp

participation ==
  <<wager_participants, wager_participants_mapping, wager_participants_claim>>
ballots == <<wager_outcome_votes, wager_outcome_submitted>>
settings == <<escrow_address, admins>>
vars == <<vault, wager_count, wagers, participation, ballots, settings, now>>

Init ==
  /\ vault = EmptyVault
  /\ wager_count = 0
  /\ wagers = [id \in WagerIds |-> NoWager]
  /\ wager_participants = [id \in WagerIds |-> <<>>]
  /\ wager_participants_mapping = {}
  /\ wager_participants_claim = [id \in WagerIds |-> [u \in Users |-> "No"]]
  /\ wager_outcome_votes = {}
  /\ wager_outcome_submitted = {}
  /\ escrow_address = Zero
  /\ admins = {Admin}
  /\ now = 0

-----------------------------------------------------------------------------
(* Internal functions. *)

\* _escrow_dispatcher panics while no escrow is set.
EscrowConfigured == escrow_address # Zero

_has_sufficient_balance(caller, stake) ==
  get_balance(vault, escrow_address, caller) + vault.strk[caller] >= stake

\* _top_up_in_app_wallet, taken only when the in-app wallet is short.
NeedsTopUp(caller, stake) == get_balance(vault, escrow_address, caller) < stake
TopUp(caller, stake) == stake - get_balance(vault, escrow_address, caller)

CanTopUp(caller, stake) ==
  NeedsTopUp(caller, stake) =>
    CanDeposit(vault, escrow_address, caller, TopUp(caller, stake))

ToppedUp(caller, stake) ==
  IF NeedsTopUp(caller, stake)
  THEN deposit_to_wallet(vault, escrow_address, caller, TopUp(caller, stake))
  ELSE vault

\* What create_wager and join_wager do with the money: check that the caller owns the
\* stake, top the in-app wallet up from the token account, move the stake to the pot.
StakePaidBy(caller, id, stake) ==
  /\ EscrowConfigured
  /\ _has_sufficient_balance(caller, stake)
  /\ CanTopUp(caller, stake)
  /\ CanFund(ToppedUp(caller, stake), escrow_address, caller, stake)
  /\ vault' = fund_wager(ToppedUp(caller, stake), escrow_address, id, caller, stake)

is_wager_participant(id, caller) == <<id, caller>> \in wager_participants_mapping

has_outcome_submitted(id, caller) == <<id, caller>> \in wager_outcome_submitted

\* Mutant: the membership mapping is not written.
AddParticipantUnmapped(id, caller, claim) ==
  /\ wager_participants' =
       [wager_participants EXCEPT ![id] = Append(@, caller)]
  /\ wager_participants_claim' =
       [wager_participants_claim EXCEPT ![id][caller] = claim]
  /\ UNCHANGED wager_participants_mapping

\* The bookkeeping of a new participant.
AddParticipant(id, caller, claim) ==
  /\ wager_participants' =
       [wager_participants EXCEPT ![id] = Append(@, caller)]
  /\ wager_participants_mapping' = wager_participants_mapping \union {<<id, caller>>}
  /\ wager_participants_claim' =
       [wager_participants_claim EXCEPT ![id][caller] = claim]

\* The outcomes the ballots of a wager settle on: none, or the one both
\* participants of a head-to-head wager voted for.
_check_resolution(id, submitted, votes) ==
  { outcome \in BOOLEAN :
      /\ wagers[id].mode = "HeadToHead"
      /\ Len(wager_participants[id]) = 2
      /\ \A i \in 1 .. 2 :
           LET ballot == <<id, wager_participants[id][i]>>
           IN  ballot \in submitted /\ (ballot \in votes) = outcome }

ClaimOf(outcome) == IF outcome THEN "Yes" ELSE "No"

\* The position of the first participant that made a claim.
FirstWithClaim(id, claim, i) ==
  LET ClaimAt(j) == wager_participants_claim[id][wager_participants[id][j]]
  IN  /\ ClaimAt(i) = claim
      /\ \A j \in 1 .. (i - 1) : ClaimAt(j) # claim

\* Mutant: the winner is the creator, whatever was claimed.
_resolve_wager_for_creator(id, claim) ==
  LET winner == wager_participants[id][1]
  IN  /\ CanDistribute(vault, escrow_address, id, winner)
      /\ wagers' = [wagers EXCEPT ![id].state = "Resolved", ![id].winner = winner]
      /\ vault' = distribute_funds(vault, escrow_address, id, winner)

_resolve_wager_based_on_outcome(id, claim) ==
  \E i \in DOMAIN wager_participants[id] :
    LET winner == wager_participants[id][i]
    IN  /\ FirstWithClaim(id, claim, i)
        /\ EscrowConfigured
        /\ CanDistribute(vault, escrow_address, id, winner)
        /\ wagers' = [wagers EXCEPT ![id].state = "Resolved", ![id].winner = winner]
        /\ vault' = distribute_funds(vault, escrow_address, id, winner)

Exists(id) == wagers[id].creator # Zero

\* Mutants: joining and voting check for one of the final states only.
DecidedIfResolved(id)  == wagers[id].state = "Resolved"
DecidedIfCancelled(id) == wagers[id].state = "Cancelled"

Decided(id) == wagers[id].state \in {"Resolved", "Cancelled"}

\* Mutant: 'Claims must be opposing' is not asserted.
OpenToAnyClaim(id, claim) ==
  wagers[id].mode = "HeadToHead" => Len(wager_participants[id]) = 1

\* A head-to-head wager takes one opponent, with the opposite claim.
OpenTo(id, claim) ==
  wagers[id].mode = "HeadToHead" =>
    /\ Len(wager_participants[id]) = 1
    /\ wager_participants_claim[id][wager_participants[id][1]] # claim

-----------------------------------------------------------------------------
(* The external functions. *)

fund_wallet(caller, amount) ==
  /\ EscrowConfigured
  /\ CanDeposit(vault, escrow_address, caller, amount)
  /\ vault' = deposit_to_wallet(vault, escrow_address, caller, amount)
  /\ UNCHANGED <<wager_count, wagers, participation, ballots, settings, now>>

withdraw(caller, amount) ==
  /\ EscrowConfigured
  /\ CanWithdraw(vault, escrow_address, caller, amount)
  /\ vault' = withdraw_from_wallet(vault, escrow_address, caller, amount)
  /\ UNCHANGED <<wager_count, wagers, participation, ballots, settings, now>>

create_wager(caller, stake, mode, claim, resolution_time) ==
  /\ wager_count < MaxWagers   \* bound
  /\ resolution_time > now
  /\ LET id == wager_count + 1
     IN  /\ StakePaidBy(caller, id, stake)
         /\ wagers' = [wagers EXCEPT ![id] =
              [ creator |-> caller, stake |-> stake, winner |-> Zero, mode |-> mode,
                state |-> "Pending", resolution_time |-> resolution_time ]]
         /\ wager_count' = id
         /\ AddParticipant(id, caller, claim)
         /\ wager_outcome_submitted' = wager_outcome_submitted \ {<<id, caller>>}
  /\ UNCHANGED <<wager_outcome_votes, settings, now>>

join_wager(caller, id, claim) ==
  /\ Exists(id)
  /\ ~Decided(id)
  /\ ~is_wager_participant(id, caller)
  /\ OpenTo(id, claim)
  /\ StakePaidBy(caller, id, wagers[id].stake)
  /\ AddParticipant(id, caller, claim)
  /\ wagers' = [wagers EXCEPT ![id].state = "Active"]
  /\ UNCHANGED <<wager_count, ballots, settings, now>>

submit_outcome(caller, id, vote) ==
  /\ Exists(id)
  /\ ~Decided(id)
  /\ now >= wagers[id].resolution_time
  /\ is_wager_participant(id, caller)
  /\ ~has_outcome_submitted(id, caller)
  /\ wager_outcome_submitted' = wager_outcome_submitted \union {<<id, caller>>}
  /\ wager_outcome_votes' =
       IF vote THEN wager_outcome_votes \union {<<id, caller>>}
               ELSE wager_outcome_votes \ {<<id, caller>>}
  /\ LET agreed == _check_resolution(id, wager_outcome_submitted', wager_outcome_votes')
     IN  \/ /\ agreed = {}
            /\ wagers' = [wagers EXCEPT ![id].state =
                            IF @ = "Active" THEN "VotingPhase" ELSE @]
            /\ UNCHANGED vault
         \/ \E outcome \in agreed :
              _resolve_wager_based_on_outcome(id, ClaimOf(outcome))
  /\ UNCHANGED <<wager_count, participation, settings, now>>

\* The admin's ruling.  No money moves, and a cancelled wager may be ruled on too.
resolve_wager(caller, id, winner) ==
  /\ caller \in admins
  /\ wagers[id].state # "Resolved"
  /\ Exists(id)
  /\ is_wager_participant(id, winner)
  /\ wagers' = [wagers EXCEPT ![id].state = "Resolved", ![id].winner = winner]
  /\ UNCHANGED <<vault, wager_count, participation, ballots, settings, now>>

\* Anybody may cancel a wager nobody joined, one the admin has already ruled on
\* included: only an empty pot stops it.
cancel_wager(id) ==
  /\ wagers[id].state # "Cancelled"
  /\ Len(wager_participants[id]) = 1
  /\ EscrowConfigured
  /\ CanRefund(vault, escrow_address, id, wagers[id].stake, wager_participants[id])
  /\ wagers' = [wagers EXCEPT ![id].state = "Cancelled"]
  /\ vault' = refund_wager(vault, escrow_address, id, wagers[id].stake,
                           wager_participants[id])
  /\ UNCHANGED <<wager_count, participation, ballots, settings, now>>

set_escrow_address(caller, new_address) ==
  /\ caller \in admins
  /\ new_address # Zero
  /\ escrow_address' = new_address
  /\ UNCHANGED <<vault, wager_count, wagers, participation, ballots, admins, now>>

\* The only way the roles change: nobody holds DEFAULT_ADMIN_ROLE, so nobody can
\* grant, but AccessControl's renounce_role is part of the contract's interface.
renounce_role(caller) ==
  /\ admins' = admins \ {caller}
  /\ UNCHANGED <<vault, wager_count, wagers, participation, ballots, escrow_address, now>>

-----------------------------------------------------------------------------
(* The environment: the token used directly, and the passing of time. *)

ApproveEscrow(u, e, amount) ==
  /\ vault' = approve(vault, u, e, amount)
  /\ UNCHANGED <<wager_count, wagers, participation, ballots, settings, now>>

TransferToken(u, to, amount) ==
  /\ CanTransfer(vault, u, to, amount)
  /\ vault' = transfer(vault, u, to, amount)
  /\ UNCHANGED <<wager_count, wagers, participation, ballots, settings, now>>

NextBlock ==
  /\ now < MaxTime   \* bound
  /\ now' = now + 1
  /\ UNCHANGED <<vault, wager_count, wagers, participation, ballots, settings>>

WalletCall ==
  \E u \in Users, n \in Amounts :
    \/ fund_wallet(u, n)
    \/ withdraw(u, n)
    \/ \E to \in Accounts : TransferToken(u, to, n)

WagerCall ==
  \/ \E u \in Users, n \in Amounts, m \in Modes, c \in Claims, t \in Times :
       create_wager(u, n, m, c, t)
  \/ \E u \in Users, id \in WagerIds, c \in Claims : join_wager(u, id, c)
  \/ \E u \in Users, id \in WagerIds, vote \in BOOLEAN : submit_outcome(u, id, vote)
  \/ \E id \in WagerIds : cancel_wager(id)

AdminCall ==
  \/ \E id \in WagerIds, u \in Users : resolve_wager(Admin, id, u)
  \/ \E e \in Escrows : set_escrow_address(Admin, e)
  \/ renounce_role(Admin)

Next ==
  \/ WalletCall
  \/ WagerCall
  \/ AdminCall
  \/ \E u \in Users, e \in Escrows, n \in Approvals : ApproveEscrow(u, e, n)
  \/ NextBlock

Spec == Init /\ [][Next]_vars

-----------------------------------------------------------------------------
(* Properties. *)

\* Every variable keeps its type; amounts are naturals, so no u256 of the wager or
\* escrow contract ever underflows.
TypeOK ==
  /\ vault \in Vaults
  /\ wager_count \in 0 .. MaxWagers
  /\ wagers \in [WagerIds -> Wager]
  /\ wager_participants \in [WagerIds -> Seq(Users)]
  /\ wager_participants_mapping \in SUBSET (WagerIds \X Users)
  /\ wager_participants_claim \in [WagerIds -> [Users -> Claims]]
  /\ wager_outcome_votes \in SUBSET (WagerIds \X Users)
  /\ wager_outcome_submitted \in SUBSET (WagerIds \X Users)
  /\ escrow_address \in Escrows \union {Zero}
  /\ admins \in SUBSET {Admin}
  /\ now \in Times

\* The three views of a wager's participants (the indexed list, its count, the
\* membership mapping) agree, nobody is listed twice, the creator is first, and only
\* participants have ballots.
ParticipantsAgree ==
  \A id \in WagerIds :
    LET list == wager_participants[id]
    IN  /\ \A u \in Users : is_wager_participant(id, u) <=> \E i \in DOMAIN list : list[i] = u
        /\ \A i, j \in DOMAIN list : list[i] = list[j] => i = j
        /\ Exists(id) <=> id <= wager_count
        /\ Exists(id) <=> list # <<>>
        /\ Exists(id) => list[1] = wagers[id].creator
        /\ \A u \in Users : has_outcome_submitted(id, u) => is_wager_participant(id, u)

\* A head-to-head wager never has a third participant, and its two participants hold
\* opposite claims: the search for the winner always finds exactly one.
OpposingClaims ==
  \A id \in WagerIds :
    LET list == wager_participants[id]
        claim == wager_participants_claim[id]
    IN  wagers[id].mode = "HeadToHead" =>
          /\ Len(list) <= 2
          /\ Len(list) = 2 => claim[list[1]] # claim[list[2]]

\* Both participants of a head-to-head wager cannot have voted alike and the wager
\* still be open, or be won by somebody whose claim they voted down: the second vote
\* decides it, whoever voted first, even if the first vote was cast before the
\* opponent joined.
ConsensusDecides ==
  \A id \in WagerIds :
    \A outcome \in _check_resolution(id, wager_outcome_submitted, wager_outcome_votes) :
      /\ wagers[id].state = "Resolved"
      /\ \E i \in DOMAIN wager_participants[id] :
           /\ wager_participants[id][i] = wagers[id].winner
           /\ FirstWithClaim(id, ClaimOf(outcome), i)

\* With one escrow, an open wager's pot is one stake per participant, a cancelled one's
\* is empty, and a resolved one's is empty or still whole: never a part of it.
StakeAccounting ==
  \A e \in Escrows, id \in WagerIds :
    LET w == wagers[id]
        pot == vault.wager_stake[e][id]
        count == Len(wager_participants[id])
    IN  Escrows = {e} =>
          /\ ~Decided(id) => pot = w.stake * count
          /\ Exists(id) => w.stake > 0
          /\ w.state = "Pending" <=> (count <= 1 /\ ~Decided(id))
          /\ w.state = "Cancelled" => count = 1 /\ pot = 0
          /\ w.state = "Resolved" => pot \in {0, w.stake * count}

\* An id nobody created still reads as the zeros of fresh storage.
UncreatedIsBlank == \A id \in WagerIds : ~Exists(id) => wagers[id] = NoWager

\* The invariants above hold one another up: opposing claims and one-vote consensus
\* need the participants' views to agree, and the accounting of a pot needs them all.
IndInv ==
  /\ TypeOK
  /\ ParticipantsAgree
  /\ UncreatedIsBlank
  /\ OpposingClaims
  /\ ConsensusDecides
  /\ StakeAccounting

\* A decided wager pays at most once: an emptied pot never fills again, and while a
\* decided wager still has a pot nobody can add to it.
NoSecondPayout ==
  [][ \A e \in Escrows, id \in WagerIds :
        wagers[id].state \in {"Resolved", "Cancelled"} =>
          vault'.wager_stake[e][id] \in {0, vault.wager_stake[e][id]} ]_vars

\* Once a wager two people take part in is resolved, nothing about it changes any
\* more: not by late joiners, late votes, cancellation or another ruling.
DecisionFinal ==
  [][ \A id \in WagerIds :
        wagers[id].state = "Resolved" /\ Len(wager_participants[id]) > 1 =>
          /\ wagers'[id] = wagers[id]
          /\ wager_participants'[id] = wager_participants[id]
          /\ \A u \in Users : has_outcome_submitted(id, u)' = has_outcome_submitted(id, u)
    ]_vars

\* An in-app wallet loses money only to its owner's token account, or as the stake of
\* a wager its owner becomes a participant of in that very step.
WalletsLoseNothing ==
  [][ \A e \in Escrows, u \in Users :
        LET lost == vault.user_balance[e][u] - vault'.user_balance[e][u]
        IN  vault'.user_balance[e][u] < vault.user_balance[e][u] =>
              \/ vault'.strk[u] = vault.strk[u] + lost
              \/ \E id \in WagerIds :
                   /\ <<id, u>> \in wager_participants_mapping' \ wager_participants_mapping
                   /\ vault'.wager_stake[e][id] = vault.wager_stake[e][id] + wagers'[id].stake
                   /\ lost <= wagers'[id].stake ]_vars

\* With one escrow, a vote that settles a head-to-head wager always pays the winner both stakes;
\* no step but that one and a refund of the creator ever empties a pot.
PotsPayWhomTheyShould ==
  [][ \A e \in Escrows, id \in WagerIds :
        LET paid == vault.wager_stake[e][id]
            payee == IF wagers'[id].state = "Cancelled" THEN wagers[id].creator
                                                        ELSE wagers'[id].winner
        IN  vault'.wager_stake[e][id] < paid =>
              /\ wagers'[id].state \in {"Resolved", "Cancelled"}
              /\ wagers'[id].state # wagers[id].state
              /\ vault'.user_balance[e][payee] = vault.user_balance[e][payee] + paid
              /\ Escrows = {e} =>
                   paid = wagers[id].stake * Len(wager_participants[id]) ]_vars

\* Moving to another escrow mid-wager spreads a wager's stakes but loses none: over all
\* escrows together an open wager still holds one stake per participant, and a wager
\* can only be cancelled where its whole stake is.
StakesAcrossEscrows ==
  \A id \in WagerIds :
    LET staked == SumFunction([e \in Escrows |-> vault.wager_stake[e][id]])
        due == wagers[id].stake * Len(wager_participants[id])
    IN  /\ wagers[id].state \in {"Pending", "Active", "VotingPhase"} => staked = due
        /\ wagers[id].state = "Cancelled" => staked = 0
        /\ staked <= due

\* What backend/docs/overview.mdx promises, "Automated fund release to winners": once a
\* wager is resolved between several participants its stakes are no longer in escrow.
\* The admin's resolve_wager moves no money, so this does not hold; and with a second
\* participant cancel_wager cannot return the stakes any more either.
ReleasedToWinner ==
  \A e \in Escrows, id \in WagerIds :
    wagers[id].state = "Resolved" /\ Len(wager_participants[id]) > 1 =>
      vault.wager_stake[e][id] = 0
=============================================================================
