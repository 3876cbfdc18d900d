----------------------------- MODULE Invitation -----------------------------
(* Wager invitations of the backend: POST /invitations/create invites a user *)
(* by username to a wager.  CreateInvitationGuard looks the wager and the    *)
(* invited user up, the controller looks for an earlier invitation, and the  *)
(* service inserts one: four awaited calls with no transaction or unique     *)
(* index, while users may be renamed between any two.                        *)
(*                                                                           *)
(* A row stores the invited username, and ON UPDATE CASCADE rewrites it in   *)
(* every row when the user of that name is renamed.  The user a row was made *)
(* for is kept beside it, for the properties; no step reads it.              *)
EXTENDS UserTable, FiniteSets

CONSTANTS Wagers, NoWager,
          Ids,            \* ids of invitations: the bound on how many are made
          MaxRenames      \* bound on PATCH /users/update

ASSUME RequestsAssumption == IsFiniteSet(Handlers)
ASSUME NoWagerAssumption == NoWager \notin Wagers
ASSUME RenamesAssumption == MaxRenames \in Nat

VARIABLES username,     \* users.username
          wagers,       \* the wagers created so far
          invitation,   \* the invitations table
          request,      \* the requests being handled
          renames

invitationVars == <<username, wagers, invitation, request, renames>>

Invitations == [wager : Wagers, by : Users, invitedUsername : Names, invited : Users]
NoInvitation == [wager |-> NoWager, by |-> NoUser, invitedUsername |-> NoName, invited |-> NoUser]

NoRequest == [pc |-> "free", by |-> NoUser, wager |-> NoWager, name |-> NoName]
Requests == [pc : {"findWager", "findUser", "findExisting", "create"},
             by : Users, wager : Wagers, name : Names]

InvitationTypeOK ==
  /\ username \in [Users -> Names \cup {NoName}]
  /\ wagers \subseteq Wagers
  /\ invitation \in [Ids -> Invitations \cup {NoInvitation}]
  /\ request \in [Handlers -> Requests \cup {NoRequest}]
  /\ renames \in 0..MaxRenames

NamesAreUnique(f) == \A u, v \in Users : u # v /\ f[u] = f[v] => f[u] = NoName

InvitationInit ==
  /\ username \in {f \in [Users -> Names \cup {NoName}] : NamesAreUnique(f)}
  /\ wagers = {}
  /\ invitation = [i \in Ids |-> NoInvitation]
  /\ request = [h \in Handlers |-> NoRequest]
  /\ renames = 0

Named(n) == {u \in Users : username[u] = n}
InvitationRows == {i \in Ids : invitation[i] # NoInvitation}

-----------------------------------------------------------------------------
createWager(w) == /\ wagers' = wagers \cup {w}
                  /\ UNCHANGED <<username, invitation, request, renames>>

(* MUTANT: the invitations keep the old name.                                *)
changeUsernameAlone(u, n) ==
  /\ renames < MaxRenames
  /\ Named(n) \subseteq {u}
  /\ username' = [username EXCEPT ![u] = n]
  /\ renames' = renames + 1
  /\ UNCHANGED <<wagers, invitation, request>>

(* PATCH /users/update, and what the foreign key of the invitations cascades.*)
Cascaded(row, u, n) ==
  IF row # NoInvitation /\ row.invitedUsername = username[u]
  THEN [row EXCEPT !.invitedUsername = n] ELSE row

changeUsername(u, n) ==
  /\ renames < MaxRenames
  /\ Named(n) \subseteq {u}
  /\ username' = [username EXCEPT ![u] = n]
  /\ invitation' = [i \in Ids |-> Cascaded(invitation[i], u, n)]
  /\ renames' = renames + 1
  /\ UNCHANGED <<wagers, request>>

Invite(h, u, w, n) ==
  /\ request[h] = NoRequest
  /\ request' = [request EXCEPT ![h] = [pc |-> "findWager", by |-> u, wager |-> w, name |-> n]]
  /\ UNCHANGED <<username, wagers, invitation, renames>>

Stands(h, pc) == request[h].pc = pc
Leave(h) == request' = [request EXCEPT ![h] = NoRequest]

(* The guard or the controller throws unless the condition holds.            *)
GoOnIf(h, condition, pc) ==
  IF condition THEN request' = [request EXCEPT ![h].pc = pc] ELSE Leave(h)

FindWager(h) ==
  /\ Stands(h, "findWager")
  /\ GoOnIf(h, request[h].wager \in wagers, "findUser")
  /\ UNCHANGED <<username, wagers, invitation, renames>>

(* MUTANT: the guard does not compare the invited user with the inviting one. *)
FindInvitedUserOnly(h) ==
  /\ Stands(h, "findUser")
  /\ GoOnIf(h, Named(request[h].name) # {}, "findExisting")
  /\ UNCHANGED <<username, wagers, invitation, renames>>

(* The invited user exists and is not the inviting one.                      *)
FindInvitedUser(h) ==
  /\ Stands(h, "findUser")
  /\ LET found == Named(request[h].name)
     IN  GoOnIf(h, found # {} /\ request[h].by \notin found, "findExisting")
  /\ UNCHANGED <<username, wagers, invitation, renames>>

(* MUTANT: an earlier invitation is looked for among the inviter's own.      *)
findOwnInvitation(h) ==
  /\ Stands(h, "findExisting")
  /\ GoOnIf(h,
       ~\E i \in InvitationRows : /\ invitation[i].wager = request[h].wager
                                  /\ invitation[i].by = request[h].by
                                  /\ invitation[i].invitedUsername = request[h].name,
       "create")
  /\ UNCHANGED <<username, wagers, invitation, renames>>

findExistingInvitation(h) ==
  /\ Stands(h, "findExisting")
  /\ GoOnIf(h,
       ~\E i \in InvitationRows : /\ invitation[i].wager = request[h].wager
                                  /\ invitation[i].invitedUsername = request[h].name,
       "create")
  /\ UNCHANGED <<username, wagers, invitation, renames>>

(* The insert throws when nobody has the name any more.                      *)
createInvitation(h) ==
  /\ Stands(h, "create")
  /\ LET found == Named(request[h].name)
     IN  \/ found = {} /\ UNCHANGED invitation
         \/ \E u \in found, i \in Ids \ InvitationRows :
              invitation' = [invitation EXCEPT ![i] = [wager |-> request[h].wager,
                                                       by |-> request[h].by,
                                                       invitedUsername |-> request[h].name,
                                                       invited |-> u]]
  /\ Leave(h)
  /\ UNCHANGED <<username, wagers, renames>>

InvitationNext ==
  \/ \E w \in Wagers : createWager(w)
  \/ \E u \in Users, n \in Names : changeUsername(u, n)
  \/ \E h \in Handlers, u \in Users, w \in Wagers, n \in Names : Invite(h, u, w, n)
  \/ \E h \in Handlers : \/ FindWager(h) \/ FindInvitedUser(h)
                         \/ findExistingInvitation(h) \/ createInvitation(h)

InvitationSpec == InvitationInit /\ [][InvitationNext]_invitationVars

-----------------------------------------------------------------------------
InvitationsOf(u, w) ==
  {i \in InvitationRows : invitation[i].invited = u /\ invitation[i].wager = w}

(* "Ensure user is not invited more than once to the same wager": only       *)
(* requests that overlap invite a user twice, and the invitations made under *)
(* an old name count.  Until a second rename there are never more            *)
(* invitations of a user to a wager than handlers; the second one may give a *)
(* name that a request is about to invite to a user who has invitations.     *)
DuplicatesOnlyByOverlap ==
  renames <= 1 =>
    \A u \in Users, w \in Wagers :
      Cardinality(InvitationsOf(u, w)) <= Cardinality(Handlers)

(* Inviting oneself takes two renames during one request: the invited user   *)
(* gives the name up after the guard and the inviting one takes it.          *)
SelfInvitationTakesTwoRenames ==
  renames <= 1 => \A i \in InvitationRows : invitation[i].invited # invitation[i].by
=============================================================================
