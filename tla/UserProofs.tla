----------------------------- MODULE UserProofs -----------------------------
(* Proofs that accounts stay unique and tokens name the right one, and of    *)
(* what invitations to wagers can go wrong, for any number of users, names,  *)
(* addresses, invitations and requests.                                      *)
EXTENDS Accounts, Invitation, FiniteSetTheorems, TLAPS

(* What a request that is about to sign holds: the id of a row it has read   *)
(* or inserted, whose address nothing rewrites.                              *)
SignersHoldTheirUser ==
  \A h \in Handlers : At(h, "sign") =>
    handler[h].id \in Users /\ user[handler[h].id].address = handler[h].address

(* The role it holds is the row's, unless it changed since.                  *)
SignersHoldTheirRole ==
  \A h \in Handlers : At(h, "sign") => h \in late \/ handler[h].role = role[handler[h].id]

IndInv == /\ TypeOK
          /\ AccountsAreUnique /\ TokensNameTheirAccount /\ RolesAreCurrent
          /\ SignersHoldTheirUser /\ SignersHoldTheirRole

(* An empty database with no tokens and no requests.                         *)
LEMMA InitIndInv == Init => IndInv
<1> SUFFICES ASSUME Init PROVE IndInv
  OBVIOUS
<1>1. TypeOK
  BY DEF Init, TypeOK, Free, Busy, Rows, NoRow, Roles
<1>2. AccountsAreUnique
  BY DEF Init, AccountsAreUnique, Exists
<1>3. TokensNameTheirAccount
  BY DEF Init, TokensNameTheirAccount
<1>4. SignersHoldTheirUser
  BY DEF Init, SignersHoldTheirUser, At, Free
<1>5. RolesAreCurrent /\ SignersHoldTheirRole
  BY DEF Init, RolesAreCurrent, SignersHoldTheirRole, At, Free
<1> QED
  BY <1>1, <1>2, <1>3, <1>4, <1>5 DEF IndInv

(* The facts about the rows alone, which a step that leaves users and tokens *)
(* in place keeps.                                                           *)
LEMMA RowsKept ==
  ASSUME IndInv, user' = user, access' = access, refresh' = refresh
  PROVE  AccountsAreUnique' /\ TokensNameTheirAccount'
BY DEF IndInv, AccountsAreUnique, TokensNameTheirAccount, Exists

(* Tokens stay current while no role changes and no token is signed, and a   *)
(* request keeps the role it holds.                                          *)
LEMMA RolesKept ==
  ASSUME IndInv, UNCHANGED <<access, role, history>>,
         \A h \in Handlers : At(h, "sign")' =>
           handler'[h] = handler[h] \/ handler'[h].role = role[handler'[h].id]
  PROVE  RolesAreCurrent' /\ SignersHoldTheirRole'
<1>1. RolesAreCurrent'
  BY DEF IndInv, RolesAreCurrent, RolesGuard, history
<1>2. SignersHoldTheirRole'
  BY DEF IndInv, SignersHoldTheirRole, At, history
<1> QED
  BY <1>1, <1>2

(* A row the indexes allow keeps accounts unique, tokens and signers right.  *)
LEMMA InsertKeeps ==
  ASSUME IndInv, NEW u \in Users, NEW row \in Rows, Insert(u, row),
         access' = access, refresh' = refresh
  PROVE  /\ user' \in [Users -> Rows \cup {NoRow}]
         /\ AccountsAreUnique'
         /\ TokensNameTheirAccount'
         /\ \A v \in Users : Exists(v) => user'[v] = user[v]
         /\ user'[u] = row
         /\ {v \in Users : Exists(v)} \subseteq {v \in Users : Exists(v)'}
<1>1. /\ user \in [Users -> Rows \cup {NoRow}]
      /\ user' = [user EXCEPT ![u] = row]
      /\ user[u] = NoRow
  BY DEF IndInv, TypeOK, Insert, Exists
<1>2. /\ user'[u] = row
      /\ \A v \in Users \ {u} : user'[v] = user[v]
      /\ user' \in [Users -> Rows \cup {NoRow}]
  BY <1>1
<1>3. \A v \in Users : Exists(v) => v # u /\ user'[v] = user[v]
  BY <1>1, <1>2 DEF Exists
<1>4. AccountsAreUnique'
  <2> SUFFICES ASSUME NEW v \in Users, NEW w \in Users, v # w,
                      user'[v] # NoRow, user'[w] # NoRow
               PROVE  /\ user'[v].address # user'[w].address
                      /\ user'[v].username = user'[w].username
                           => user'[v].username = NoName
    BY DEF AccountsAreUnique, Exists
  <2>1. CASE v # u /\ w # u
    BY <1>2, <2>1 DEF IndInv, AccountsAreUnique, Exists
  <2>2. CASE v = u
    BY <1>2, <2>2 DEF Insert, IndexesAllow
  <2>3. CASE w = u
    BY <1>2, <2>3 DEF Insert, IndexesAllow
  <2> QED
    BY <2>1, <2>2, <2>3
<1>5. TokensNameTheirAccount'
  <2>1. \A t \in access : t.sub \in Users /\ t.address \in Addresses
    BY DEF IndInv, TypeOK, Tokens
  <2>2. \A t \in access : Exists(t.sub)
    BY <2>1, NoAddressAssumption DEF IndInv, TokensNameTheirAccount, Exists, NoRow
  <2> QED
    <3>1. \A a \in refresh : \E v \in Users : user[v].address = a /\ Exists(v)
      BY NoAddressAssumption DEF IndInv, TypeOK, TokensNameTheirAccount, Exists, NoRow
    <3>2. \A a \in refresh : \E v \in Users : user'[v].address = a
      BY <1>3, <3>1
    <3> QED
      BY <1>3, <2>1, <2>2, <3>2 DEF IndInv, TokensNameTheirAccount
<1>6. {v \in Users : Exists(v)} \subseteq {v \in Users : Exists(v)'}
  BY <1>3 DEF Exists
<1> QED
  BY <1>2, <1>3, <1>4, <1>5, <1>6

(* One step per action; logging in and refreshing share <1>3.                *)
LEMMA NextIndInv == IndInv /\ [Next]_vars => IndInv'
<1> SUFFICES ASSUME IndInv, [Next]_vars PROVE IndInv'
  OBVIOUS
<1> USE DEF rowVars, tokenVars, history
<1>0. TypeOK /\ SignersHoldTheirUser
  BY DEF IndInv
<1>1. ASSUME NEW h \in Handlers, NEW a \in Addresses, NEW n \in Names \cup {NoName},
             NEW pc \in {"verify", "refresh"}, Arrive(h, pc, a, n)
      PROVE  IndInv'
  <2>1. TypeOK'
    BY <1>0, <1>1 DEF TypeOK, Arrive, Busy, Free, Roles, Exists
  <2>2. SignersHoldTheirUser'
    BY <1>0, <1>1 DEF TypeOK, SignersHoldTheirUser, Arrive, At
  <2>3. \A k \in Handlers : At(k, "sign")' => handler'[k] = handler[k]
    BY <1>0, <1>1 DEF TypeOK, Arrive, At
  <2> QED
    BY <1>1, <2>1, <2>2, <2>3, RowsKept, RolesKept DEF IndInv, Arrive
<1>2. ASSUME NEW h \in Handlers, isValidSignature(h) PROVE IndInv'
  <2>1. TypeOK'
    BY <1>0, <1>2 DEF TypeOK, isValidSignature, At, Finish, Busy, Free, Exists
  <2>2. /\ handler' \in [Handlers -> Busy \cup {Free}]
        /\ ~At(h, "sign")'
        /\ \A k \in Handlers \ {h} : handler'[k] = handler[k]
        /\ user' = user
    BY <1>0, <1>2, <2>1 DEF TypeOK, isValidSignature, At, Finish, Busy, Free
  <2>3. SignersHoldTheirUser'
    BY <1>0, <2>2 DEF SignersHoldTheirUser, At
  <2>4. \A k \in Handlers : At(k, "sign")' => handler'[k] = handler[k]
    BY <2>2
  <2> QED
    BY <1>2, <2>1, <2>3, <2>4, RowsKept, RolesKept DEF IndInv, isValidSignature
(* A request reads the row of its address, to log in or to refresh.          *)
<1>3. ASSUME NEW h \in Handlers, handler[h] # Free,
             UNCHANGED <<rowVars, tokenVars, history>>,
             \/ Finish(h)
             \/ handler' = [handler EXCEPT ![h].pc = "create"]
             \/ \E u \in findOneByAddress(handler[h].address) : SignFor(h, u)
      PROVE  IndInv'
  <2>0. handler[h] \in Busy
    BY <1>0, <1>3 DEF TypeOK
  <2>1. /\ handler' \in [Handlers -> Busy \cup {Free}]
        /\ At(h, "sign")' => \/ handler'[h] = handler[h]
                             \/ /\ handler'[h].id \in Users
                                /\ user[handler'[h].id].address = handler'[h].address
                                /\ handler'[h].role = role[handler'[h].id]
        /\ \A k \in Handlers \ {h} : handler'[k] = handler[k]
    <3>1. CASE Finish(h)
      BY <1>0, <3>1 DEF TypeOK, Finish, At, Free
    <3>2. CASE handler' = [handler EXCEPT ![h].pc = "create"]
      BY <1>0, <2>0, <3>2 DEF TypeOK, At, Busy
    <3>3. ASSUME NEW u \in findOneByAddress(handler[h].address), SignFor(h, u)
          PROVE  /\ handler' \in [Handlers -> Busy \cup {Free}]
                 /\ handler'[h].id \in Users
                 /\ user[handler'[h].id].address = handler'[h].address
                 /\ handler'[h].role = role[handler'[h].id]
                 /\ \A k \in Handlers \ {h} : handler'[k] = handler[k]
      <4>1. u \in Users /\ user[u].address = handler[h].address /\ role[u] \in Roles
        BY <1>0 DEF findOneByAddress, TypeOK
      <4>2. handler'[h] = [handler[h] EXCEPT !.pc = "sign", !.username = NoName,
                                             !.id = u, !.role = role[u]]
        BY <1>0, <2>0, <3>3 DEF TypeOK, SignFor, Busy
      <4>3. handler'[h] \in Busy /\ handler'[h].id = u /\ handler'[h].role = role[u]
            /\ handler'[h].address = handler[h].address
        BY <2>0, <4>1, <4>2 DEF Busy
      <4> QED
        BY <1>0, <3>3, <4>1, <4>3 DEF TypeOK, SignFor
    <3> QED
      BY <1>3, <3>1, <3>2, <3>3
  <2>2. TypeOK'
    BY <1>0, <1>3, <2>1 DEF TypeOK, Exists
  <2>3. SignersHoldTheirUser'
    BY <1>0, <1>3, <2>1 DEF SignersHoldTheirUser, At
  <2>4. \A k \in Handlers : At(k, "sign")' =>
          handler'[k] = handler[k] \/ handler'[k].role = role[handler'[k].id]
    BY <2>1
  <2> QED
    BY <1>3, <2>2, <2>3, <2>4, RowsKept, RolesKept DEF IndInv
<1>4. ASSUME NEW h \in Handlers, FindExistingUser(h) PROVE IndInv'
  BY <1>3, <1>4 DEF FindExistingUser, At, Free
<1>5. ASSUME NEW h \in Handlers, refreshTokens(h) PROVE IndInv'
  BY <1>3, <1>5 DEF refreshTokens, At, Free
<1>6. ASSUME NEW h \in Handlers, CreateNewUser(h) PROVE IndInv'
  <2> DEFINE row == [address |-> handler[h].address, username |-> handler[h].username]
  <2>1. handler[h] \in Busy /\ row \in Rows
    BY <1>0, <1>6 DEF CreateNewUser, At, TypeOK, Busy, Free, Rows
  <2>2. CASE Finish(h) /\ UNCHANGED user
    BY <1>3, <1>6, <2>1, <2>2 DEF CreateNewUser, At, Free
  <2>3. ASSUME NEW u \in Users, Insert(u, row), SignFor(h, u) PROVE IndInv'
    <3> HIDE DEF row
    <3>1. UNCHANGED <<role, avatar, tokenVars, history>>
      BY <1>6 DEF CreateNewUser
    <3>2. /\ user' \in [Users -> Rows \cup {NoRow}]
          /\ AccountsAreUnique' /\ TokensNameTheirAccount'
          /\ \A v \in Users : Exists(v) => user'[v] = user[v]
          /\ user'[u] = row
          /\ {v \in Users : Exists(v)} \subseteq {v \in Users : Exists(v)'}
      BY <2>1, <2>3, <3>1, InsertKeeps
    <3>3. /\ handler'[h] \in Busy /\ handler'[h].id = u
          /\ handler'[h].address = handler[h].address
          /\ handler'[h].role = role[u]
          /\ \A k \in Handlers \ {h} : handler'[k] = handler[k]
          /\ handler' \in [Handlers -> Busy \cup {Free}]
      <4>1. role[u] \in Roles
        BY <1>0 DEF TypeOK
      <4> QED
        BY <1>0, <2>1, <2>3, <4>1 DEF TypeOK, Busy, SignFor
    <3>4. TypeOK'
      BY <1>0, <3>1, <3>2, <3>3 DEF TypeOK
    <3>5. SignersHoldTheirUser'
      <4> SUFFICES ASSUME NEW k \in Handlers, At(k, "sign")'
                   PROVE  /\ handler'[k].id \in Users
                          /\ user'[handler'[k].id].address = handler'[k].address
        BY DEF SignersHoldTheirUser
      <4>1. CASE k = h
        BY <3>2, <3>3, <4>1 DEF row
      <4>2. CASE k # h
        <5>1. handler'[k] = handler[k] /\ At(k, "sign")
          BY <3>3, <4>2 DEF At
        <5>2. /\ handler[k] \in Busy
              /\ handler[k].id \in Users
              /\ user[handler[k].id].address = handler[k].address
          BY <1>0, <5>1 DEF TypeOK, At, Free, SignersHoldTheirUser
        <5>3. Exists(handler[k].id)
          BY <5>2, NoAddressAssumption DEF Exists, NoRow, Busy
        <5> QED
          BY <3>2, <5>1, <5>2, <5>3
      <4> QED
        BY <4>1, <4>2
    <3>6. \A k \in Handlers :
            handler'[k] = handler[k] \/ handler'[k].role = role[handler'[k].id]
      BY <3>3
    <3>7. RolesAreCurrent' /\ SignersHoldTheirRole'
      BY <3>1, <3>6, RolesKept
    <3> QED
      BY <3>2, <3>4, <3>5, <3>7 DEF IndInv
  <2> QED
    BY <1>6, <2>2, <2>3 DEF CreateNewUser
<1>7. ASSUME NEW h \in Handlers, signJwt(h) PROVE IndInv'
  <2> DEFINE t == TokenOf(h)
  <2>1. /\ handler[h] \in Busy /\ At(h, "sign")
        /\ handler[h].id \in Users /\ handler[h].address \in Addresses
        /\ user[handler[h].id].address = handler[h].address
    BY <1>0, <1>7 DEF signJwt, At, TypeOK, Busy, Free, SignersHoldTheirUser
  <2>2. /\ access' = access \cup {t} /\ refresh' = refresh \cup {handler[h].address}
        /\ outdated' = IF h \in late THEN outdated \cup {t} ELSE outdated \ {t}
        /\ late' = late \ {h}
        /\ UNCHANGED <<user, role, avatar>> /\ handler' = [handler EXCEPT ![h] = Free]
    BY <1>7 DEF signJwt, Finish
  <2>0. /\ t \in Tokens
        /\ t.sub = handler[h].id /\ t.address = handler[h].address
        /\ t.role = handler[h].role
    BY <2>1 DEF TokenOf, Tokens, Busy
  <2> HIDE DEF t
  <2>3. TypeOK'
    BY <1>0, <2>0, <2>1, <2>2 DEF TypeOK, Exists
  <2>4. SignersHoldTheirUser'
    BY <1>0, <2>2 DEF TypeOK, SignersHoldTheirUser, At, Free
  <2>5. AccountsAreUnique'
    BY <2>2 DEF IndInv, AccountsAreUnique, Exists
  <2>6. \A s \in access \cup {t} : s.sub \in Users /\ user[s.sub].address = s.address
    BY <1>0, <2>0, <2>1 DEF IndInv, TypeOK, TokensNameTheirAccount, Tokens
  <2>7. \A s \in access \cup {t} : s.address \in Addresses /\ Exists(s.sub)
    BY <1>0, <2>0, <2>1, <2>6, NoAddressAssumption DEF TypeOK, Exists, NoRow, Tokens
  <2>8. \A r, s \in access \cup {t} : r.address = s.address <=> r.sub = s.sub
    BY <2>6, <2>7 DEF IndInv, AccountsAreUnique
  <2>9. \A a \in refresh \cup {handler[h].address} : \E u \in Users : user[u].address = a
    BY <2>1 DEF IndInv, TokensNameTheirAccount
  <2>10. TokensNameTheirAccount'
    BY <2>2, <2>6, <2>8, <2>9 DEF TokensNameTheirAccount
  <2>11. SignersHoldTheirRole'
    BY <1>0, <2>2 DEF IndInv, TypeOK, SignersHoldTheirRole, At, Free
  <2>12. RolesAreCurrent'
    <3> SUFFICES ASSUME NEW s \in access \cup {t}, s \notin outdated'
                 PROVE  RolesGuard(s, {"Admin"}) <=> role[s.sub] = "Admin"
      BY <2>2 DEF RolesAreCurrent, RolesGuard
    <3>1. CASE s = t
      <4>1. h \notin late
        BY <2>2, <3>1
      <4>2. t.role = role[t.sub]
        BY <2>0, <2>1, <4>1 DEF IndInv, SignersHoldTheirRole
      <4> QED
        BY <3>1, <4>2 DEF RolesGuard
    <3>2. CASE s # t
      <4>1. s \in access /\ s \notin outdated
        BY <2>2, <3>2
      <4> QED
        BY <4>1 DEF IndInv, RolesAreCurrent
    <3> QED
      BY <3>1, <3>2
  <2> QED
    BY <2>3, <2>4, <2>5, <2>10, <2>11, <2>12 DEF IndInv
<1>8. ASSUME NEW u \in Users, NEW a \in Addresses, NEW n \in Names \cup {NoName},
             CreateUser(u, a, n)
      PROVE  IndInv'
  <2> DEFINE row == [address |-> a, username |-> n]
  <2>1. row \in Rows /\ Insert(u, row) /\ UNCHANGED <<role, avatar, tokenVars, handler, history>>
    BY <1>8 DEF CreateUser, Rows
  <2> HIDE DEF row
  <2>2. /\ user' \in [Users -> Rows \cup {NoRow}]
        /\ AccountsAreUnique' /\ TokensNameTheirAccount'
        /\ \A v \in Users : Exists(v) => user'[v] = user[v]
        /\ {v \in Users : Exists(v)} \subseteq {v \in Users : Exists(v)'}
    BY <2>1, InsertKeeps
  <2>3. TypeOK'
    BY <1>0, <2>1, <2>2 DEF TypeOK
  <2>4. \A h \in Handlers : At(h, "sign") => Exists(handler[h].id)
    BY <1>0, NoAddressAssumption DEF TypeOK, SignersHoldTheirUser, At, Exists, NoRow, Busy, Free
  <2>5. SignersHoldTheirUser'
    BY <1>0, <2>1, <2>2, <2>4 DEF SignersHoldTheirUser, At
  <2>6. RolesAreCurrent' /\ SignersHoldTheirRole'
    BY <2>1, RolesKept
  <2> QED
    BY <2>2, <2>3, <2>5, <2>6 DEF IndInv
<1>9. ASSUME NEW t \in access, NEW n \in Names, NEW picture \in BOOLEAN,
             updateUsername(t, n, picture)
      PROVE  IndInv'
  <2>1. t.sub \in Users /\ t.address \in Addresses
    BY <1>0 DEF TypeOK, Tokens
  <2>2. user[t.sub] \in Rows
    BY <1>0, <2>1, NoAddressAssumption DEF IndInv, TypeOK, TokensNameTheirAccount, NoRow
  <2>3. /\ user' = [user EXCEPT ![t.sub].username = n]
        /\ UNCHANGED <<role, tokenVars, handler, history>>
        /\ \A v \in Users \ {t.sub} : user[v].username # n
        /\ avatar' \subseteq avatar \cup {t.sub}
    BY <1>9 DEF updateUsername
  <2>4. /\ user' \in [Users -> Rows \cup {NoRow}]
        /\ \A v \in Users : user'[v].address = user[v].address
        /\ \A v \in Users \ {t.sub} : user'[v] = user[v]
        /\ user'[t.sub].username = n
        /\ user'[t.sub] \in Rows
    BY <1>0, <2>1, <2>2, <2>3 DEF TypeOK, Rows
  <2>5. TypeOK'
    <3>1. user'[t.sub] # NoRow
      BY <2>4, NoAddressAssumption DEF Rows, NoRow
    <3> QED
      BY <1>0, <2>1, <2>3, <2>4, <3>1 DEF TypeOK, Exists
  <2>6. SignersHoldTheirUser'
    BY <1>0, <2>3, <2>4 DEF SignersHoldTheirUser, At
  <2>7. TokensNameTheirAccount'
    BY <1>0, <2>3, <2>4 DEF IndInv, TypeOK, Tokens, TokensNameTheirAccount
  <2>8. AccountsAreUnique'
    <3> SUFFICES ASSUME NEW v \in Users, NEW w \in Users, v # w,
                        user'[v] # NoRow, user'[w] # NoRow
                 PROVE  /\ user'[v].address # user'[w].address
                        /\ user'[v].username = user'[w].username
                             => user'[v].username = NoName
      BY DEF AccountsAreUnique, Exists
    <3>1. user[v] # NoRow /\ user[w] # NoRow
      BY <2>2, <2>4, NoAddressAssumption DEF Rows, NoRow
    <3>2. user[v].address # user[w].address
      BY <3>1 DEF IndInv, AccountsAreUnique, Exists
    <3>3. CASE v # t.sub /\ w # t.sub
      BY <2>4, <3>1, <3>2, <3>3 DEF IndInv, AccountsAreUnique, Exists
    <3>4. CASE v = t.sub
      BY <2>3, <2>4, <3>2, <3>4
    <3>5. CASE w = t.sub
      BY <2>3, <2>4, <3>2, <3>5
    <3> QED
      BY <3>3, <3>4, <3>5
  <2>9. RolesAreCurrent' /\ SignersHoldTheirRole'
    BY <2>3, RolesKept
  <2> QED
    BY <2>5, <2>6, <2>7, <2>8, <2>9 DEF IndInv
<1>10. ASSUME NEW t \in access, updateAvatar(t) PROVE IndInv'
  <2>1. t.sub \in Users /\ Exists(t.sub)
    BY <1>0, NoAddressAssumption
       DEF IndInv, TypeOK, Tokens, TokensNameTheirAccount, Exists, NoRow
  <2>2. TypeOK'
    BY <1>0, <1>10, <2>1 DEF TypeOK, updateAvatar, Exists
  <2>3. SignersHoldTheirUser'
    BY <1>0, <1>10 DEF SignersHoldTheirUser, updateAvatar, At
  <2> QED
    BY <1>10, <2>2, <2>3, RowsKept, RolesKept DEF IndInv, updateAvatar
<1>11. ASSUME NEW u \in Users, NEW r \in Roles, SetRole(u, r) PROVE IndInv'
  <2>1. /\ UNCHANGED <<user, avatar, tokenVars, handler>>
        /\ role' = [role EXCEPT ![u] = r]
        /\ outdated' = outdated \cup {t \in access : t.sub = u}
        /\ late' = late \cup {h \in Handlers : handler[h].id = u}
    BY <1>11 DEF SetRole
  <2>2. TypeOK'
    BY <1>0, <2>1 DEF TypeOK, Exists
  <2>3. SignersHoldTheirUser'
    BY <1>0, <2>1 DEF SignersHoldTheirUser, At
  <2>4. SignersHoldTheirRole'
    <3> SUFFICES ASSUME NEW h \in Handlers, At(h, "sign"), h \notin late'
                 PROVE  handler[h].role = role'[handler[h].id]
      BY <2>1 DEF SignersHoldTheirRole, At
    <3>1. handler[h].id # u /\ h \notin late
      BY <2>1
    <3> QED
      BY <1>0, <2>1, <3>1 DEF IndInv, TypeOK, SignersHoldTheirUser, SignersHoldTheirRole
  <2>5. RolesAreCurrent'
    <3> SUFFICES ASSUME NEW t \in access, t \notin outdated'
                 PROVE  RolesGuard(t, {"Admin"}) <=> role'[t.sub] = "Admin"
      BY <2>1 DEF RolesAreCurrent, RolesGuard
    <3>1. t.sub \in Users \ {u} /\ t \notin outdated
      BY <1>0, <2>1 DEF TypeOK, Tokens
    <3>2. role'[t.sub] = role[t.sub]
      BY <1>0, <2>1, <3>1 DEF TypeOK
    <3> QED
      BY <3>1, <3>2 DEF IndInv, RolesAreCurrent
  <2> QED
    BY <2>1, <2>2, <2>3, <2>4, <2>5, RowsKept DEF IndInv
<1>12. ASSUME NEW t \in access, Expire(t) PROVE IndInv'
  <2>1. /\ UNCHANGED <<rowVars, refresh, handler, late>>
        /\ access' = access \ {t} /\ outdated' = outdated \ {t}
    BY <1>12 DEF Expire
  <2>2. TypeOK' /\ SignersHoldTheirUser'
    BY <1>0, <2>1 DEF TypeOK, SignersHoldTheirUser, At, Exists
  <2>3. SignersHoldTheirRole' /\ RolesAreCurrent'
    BY <2>1 DEF IndInv, SignersHoldTheirRole, RolesAreCurrent, RolesGuard, At
  <2>4. AccountsAreUnique' /\ TokensNameTheirAccount'
    BY <2>1 DEF IndInv, AccountsAreUnique, TokensNameTheirAccount, Exists
  <2> QED
    BY <2>2, <2>3, <2>4 DEF IndInv
<1>13. ASSUME NEW a \in refresh, ExpireRefresh(a) PROVE IndInv'
  <2>1. UNCHANGED <<rowVars, access, handler, history>> /\ refresh' = refresh \ {a}
    BY <1>13 DEF ExpireRefresh
  <2>2. TypeOK' /\ SignersHoldTheirUser'
    BY <1>0, <2>1 DEF TypeOK, SignersHoldTheirUser, At, Exists
  <2>3. SignersHoldTheirRole' /\ RolesAreCurrent'
    BY <2>1, RolesKept
  <2>4. AccountsAreUnique' /\ TokensNameTheirAccount'
    BY <2>1 DEF IndInv, AccountsAreUnique, TokensNameTheirAccount, Exists
  <2> QED
    BY <2>2, <2>3, <2>4 DEF IndInv
<1>14. CASE UNCHANGED vars
  BY <1>14 DEF vars, IndInv, TypeOK, AccountsAreUnique, TokensNameTheirAccount,
               RolesAreCurrent, SignersHoldTheirUser, SignersHoldTheirRole, Exists, At
<1>15. refresh \subseteq Addresses
  BY <1>0 DEF TypeOK
<1>16. CASE \/ \E t \in access : \/ \E n \in Names, picture \in BOOLEAN :
                                      updateUsername(t, n, picture)
                                 \/ updateAvatar(t) \/ Expire(t)
            \/ \E u \in Users, r \in Roles : SetRole(u, r)
            \/ \E a \in refresh : ExpireRefresh(a)
  BY <1>9, <1>10, <1>11, <1>12, <1>13, <1>16
<1> QED
  BY <1>1, <1>2, <1>4, <1>5, <1>6, <1>7, <1>8, <1>14, <1>15, <1>16 DEF Next

(* The inductive invariant, from which the theorems below follow.            *)
THEOREM Inductive == Spec => []IndInv
<1> QED
  BY InitIndInv, NextIndInv, PTL DEF Spec

(* Rows, tokens and requests hold values of their types.                     *)
THEOREM TypeCorrect == Spec => []TypeOK
<1>1. IndInv => TypeOK
  BY DEF IndInv
<1> QED
  BY <1>1, Inductive, PTL

(* An address never gets two accounts nor a username two owners, though any  *)
(* number of logins of a new address may find nobody and insert.             *)
THEOREM AccountsAlwaysUnique == Spec => []AccountsAreUnique
<1>1. IndInv => AccountsAreUnique
  BY DEF IndInv
<1> QED
  BY <1>1, Inductive, PTL

(* Whoever passes for an administrator is one, unless the token was read     *)
(* from the row before its role changed.                                     *)
THEOREM RolesAlwaysCurrent == Spec => []RolesAreCurrent
<1>1. IndInv => RolesAreCurrent
  BY DEF IndInv
<1> QED
  BY <1>1, Inductive, PTL

(* Every token names the one account of its address.             *)
THEOREM TokensAlwaysNameTheirAccount == Spec => []TokensNameTheirAccount
<1>1. IndInv => TokensNameTheirAccount
  BY DEF IndInv
<1> QED
  BY <1>1, Inductive, PTL

-----------------------------------------------------------------------------
(* Invitations.  The requests about to invite a user to a wager count with   *)
(* the invitations there are: a request that looks for an earlier one finds  *)
(* it.                                                                       *)
Creating(u, w) == {h \in Handlers : /\ request[h].pc = "create" /\ request[h].wager = w
                                    /\ request[h].name = username[u]}

Bounded == renames <= 1 =>
  \A u \in Users, w \in Wagers :
    /\ IsFiniteSet(InvitationsOf(u, w))
    /\ Cardinality(InvitationsOf(u, w)) + Cardinality(Creating(u, w)) <= Cardinality(Handlers)

(* Past the guard, the name is not the inviting user's, and somebody has it  *)
(* until a first rename.                                                     *)
NotTheirs == renames <= 1 =>
  \A h \in Handlers : request[h].pc \in {"findExisting", "create"} =>
    /\ request[h].by \notin Named(request[h].name)
    /\ renames = 0 => Named(request[h].name) # {}

(* A row has the name its user has now.                                      *)
FollowsUser == \A i \in InvitationRows :
                 invitation[i].invitedUsername = username[invitation[i].invited]

InvitationInv == /\ InvitationTypeOK
                 /\ NamesAreUnique(username)
                 /\ FollowsUser
                 /\ Bounded
                 /\ NotTheirs
                 /\ SelfInvitationTakesTwoRenames

LEMMA InvitationInitInv == InvitationInit => InvitationInv
  <1> SUFFICES ASSUME InvitationInit PROVE InvitationInv
    OBVIOUS
  <1>1. InvitationTypeOK
    BY RenamesAssumption DEF InvitationInit, InvitationTypeOK
  <1>2. InvitationRows = {} /\ \A h \in Handlers : request[h].pc = "free"
    BY DEF InvitationInit, InvitationRows, NoRequest
  <1>3. Bounded
    <2>1. \A u \in Users, w \in Wagers : InvitationsOf(u, w) = {} /\ Creating(u, w) = {}
      BY <1>2 DEF InvitationsOf, Creating
    <2>2. Cardinality(Handlers) \in Nat
      BY RequestsAssumption, FS_CardinalityType
    <2> QED
      BY <2>1, <2>2, FS_EmptySet DEF Bounded
  <1>4. NotTheirs /\ SelfInvitationTakesTwoRenames
    BY <1>2 DEF NotTheirs, SelfInvitationTakesTwoRenames
  <1>5. NamesAreUnique(username) /\ FollowsUser
    BY <1>2 DEF InvitationInit, FollowsUser
  <1> QED
    BY <1>1, <1>3, <1>4, <1>5 DEF InvitationInv

(* A step that neither renames nor invites, and brings no request to where   *)
(* it inserts, or only when the user it names has no invitation yet.         *)
LEMMA RequestsMove ==
  ASSUME InvitationInv, NEW h \in Handlers, NEW new,
         new \in Requests \cup {NoRequest},
         request' = [request EXCEPT ![h] = new],
         UNCHANGED <<username, wagers, invitation, renames>>,
         new.pc = "create" =>
           \A u \in Users : username[u] = new.name => InvitationsOf(u, new.wager) = {},
         new.pc \in {"findExisting", "create"} =>
           (renames <= 1 => /\ new.by \notin Named(new.name)
                            /\ renames = 0 => Named(new.name) # {})
  PROVE  InvitationInv'
  <1>1. /\ request'[h] = new
        /\ \A q \in Handlers \ {h} : request'[q] = request[q]
    BY DEF InvitationInv, InvitationTypeOK
  <1>2. InvitationTypeOK'
    BY DEF InvitationInv, InvitationTypeOK
  <1>3. Bounded'
    <2> SUFFICES ASSUME renames <= 1, NEW u \in Users, NEW w \in Wagers
                 PROVE  /\ IsFiniteSet(InvitationsOf(u, w))'
                        /\ (Cardinality(InvitationsOf(u, w)) + Cardinality(Creating(u, w))
                              <= Cardinality(Handlers))'
      BY DEF Bounded
    <2>1. InvitationsOf(u, w)' = InvitationsOf(u, w)
      BY DEF InvitationsOf, InvitationRows
    <2>2. /\ IsFiniteSet(InvitationsOf(u, w))
          /\ Cardinality(InvitationsOf(u, w)) + Cardinality(Creating(u, w)) <= Cardinality(Handlers)
      BY DEF InvitationInv, Bounded
    <2>3. /\ IsFiniteSet(Creating(u, w)) /\ IsFiniteSet(Creating(u, w)')
          /\ Cardinality(Creating(u, w)') <= Cardinality(Handlers)
      <3>1. Creating(u, w) \subseteq Handlers /\ Creating(u, w)' \subseteq Handlers
        BY DEF Creating
      <3> QED
        BY <3>1, RequestsAssumption, FS_Subset
    <2>4. CASE Creating(u, w)' \subseteq Creating(u, w)
      <3>1. Cardinality(Creating(u, w)') <= Cardinality(Creating(u, w))
        BY <2>3, <2>4, FS_Subset
      <3>2. /\ Cardinality(Creating(u, w)') \in Nat /\ Cardinality(Creating(u, w)) \in Nat
            /\ Cardinality(InvitationsOf(u, w)) \in Nat /\ Cardinality(Handlers) \in Nat
        BY <2>2, <2>3, RequestsAssumption, FS_CardinalityType
      <3> QED
        BY <2>1, <2>2, <3>1, <3>2
    <2>5. CASE ~(Creating(u, w)' \subseteq Creating(u, w))
      <3>1. new.pc = "create" /\ new.wager = w /\ new.name = username[u]
        BY <1>1, <2>5 DEF Creating
      <3>2. InvitationsOf(u, w) = {}
        BY <3>1
      <3>3. Cardinality(InvitationsOf(u, w)) = 0
        BY <3>2, FS_EmptySet
      <3>4. Cardinality(Creating(u, w)') \in Nat /\ Cardinality(Handlers) \in Nat
        BY <2>3, RequestsAssumption, FS_CardinalityType
      <3> QED
        BY <2>1, <2>2, <2>3, <3>3, <3>4
    <2> QED
      BY <2>4, <2>5
  <1>4. NotTheirs'
    BY <1>1 DEF InvitationInv, NotTheirs, Named
  <1>5. SelfInvitationTakesTwoRenames'
    BY DEF InvitationInv, SelfInvitationTakesTwoRenames, InvitationRows
  <1>6. NamesAreUnique(username)' /\ FollowsUser'
    BY DEF InvitationInv, NamesAreUnique, FollowsUser, InvitationRows
  <1> QED
    BY <1>2, <1>3, <1>4, <1>5, <1>6 DEF InvitationInv

(* A request that goes on, or ends, as the guard and the controller decide.  *)
LEMMA Decided ==
  ASSUME InvitationInv, NEW h \in Handlers, NEW pc, NEW condition \in BOOLEAN,
         pc \in {"findUser", "findExisting", "create"},
         request[h] # NoRequest, GoOnIf(h, condition, pc),
         UNCHANGED <<username, wagers, invitation, renames>>,
         condition /\ pc = "create" =>
           \A u \in Users : username[u] = request[h].name => InvitationsOf(u, request[h].wager) = {},
         condition /\ pc \in {"findExisting", "create"} =>
           (renames <= 1 => /\ request[h].by \notin Named(request[h].name)
                            /\ renames = 0 => Named(request[h].name) # {})
  PROVE  InvitationInv'
  <1>1. request \in [Handlers -> Requests \cup {NoRequest}] /\ request[h] \in Requests
    BY DEF InvitationInv, InvitationTypeOK
  <1>2. CASE condition
    <2> DEFINE new == [request[h] EXCEPT !.pc = pc]
    <2>1. request' = [request EXCEPT ![h] = new]
      BY <1>1, <1>2 DEF GoOnIf
    <2>2. /\ new \in Requests \cup {NoRequest} /\ new.pc = pc /\ new.by = request[h].by
          /\ new.wager = request[h].wager /\ new.name = request[h].name
      BY <1>1 DEF Requests
    <2> HIDE DEF new
    <2> QED
      BY <1>2, <2>1, <2>2, RequestsMove
  <1>3. CASE ~condition
    <2>1. request' = [request EXCEPT ![h] = NoRequest]
      BY <1>3 DEF GoOnIf, Leave
    <2>2. NoRequest.pc = "free"
      BY DEF NoRequest
    <2> QED
      BY <2>1, <2>2, RequestsMove
  <1> QED
    BY <1>2, <1>3

LEMMA CreateKeeps ==
  ASSUME InvitationInv, NEW h \in Handlers, createInvitation(h)
  PROVE  InvitationInv'
  <1>1. /\ request[h].pc = "create" /\ request[h] \in Requests
        /\ request' = [request EXCEPT ![h] = NoRequest]
        /\ UNCHANGED <<username, wagers, renames>>
    BY DEF createInvitation, Stands, Leave, InvitationInv, InvitationTypeOK, NoRequest
  <1>2. NoRequest.pc = "free"
    BY DEF NoRequest
  <1>3. CASE UNCHANGED invitation
    BY <1>1, <1>2, <1>3, RequestsMove
  <1>4. ASSUME NEW u \in Named(request[h].name), NEW i \in Ids \ InvitationRows,
               invitation' = [invitation EXCEPT ![i] = [wager |-> request[h].wager,
                                                        by |-> request[h].by,
                                                        invitedUsername |-> request[h].name,
                                                        invited |-> u]]
        PROVE  InvitationInv'
    <2> DEFINE row == [wager |-> request[h].wager, by |-> request[h].by,
                       invitedUsername |-> request[h].name, invited |-> u]
    <2>1. /\ row \in Invitations /\ row # NoInvitation /\ u \in Users
          /\ username[u] = request[h].name /\ request[h].wager \in Wagers
      BY <1>1, NoUserAssumption DEF Invitations, NoInvitation, Requests, Named
    <2>2. /\ invitation'[i] = row
          /\ \A j \in Ids \ {i} : invitation'[j] = invitation[j]
          /\ InvitationRows' = InvitationRows \cup {i}
      BY <1>4, <2>1 DEF InvitationInv, InvitationTypeOK, InvitationRows
    <2>3. /\ request'[h].pc = "free"
          /\ \A q \in Handlers \ {h} : request'[q] = request[q]
      BY <1>1, <1>2 DEF InvitationInv, InvitationTypeOK
    <2>4. InvitationTypeOK'
      BY <1>1, <1>4, <2>1 DEF InvitationInv, InvitationTypeOK
    <2>5. Bounded'
      <3> SUFFICES ASSUME renames <= 1, NEW v \in Users, NEW w \in Wagers
                   PROVE  /\ IsFiniteSet(InvitationsOf(v, w)')
                          /\ Cardinality(InvitationsOf(v, w)') + Cardinality(Creating(v, w)')
                                <= Cardinality(Handlers)
        BY <1>1 DEF Bounded
      <3>1. /\ IsFiniteSet(InvitationsOf(v, w))
            /\ Cardinality(InvitationsOf(v, w)) + Cardinality(Creating(v, w)) <= Cardinality(Handlers)
        BY DEF InvitationInv, Bounded
      <3>2. IsFiniteSet(Creating(v, w))
        <4>1. Creating(v, w) \subseteq Handlers
          BY DEF Creating
        <4> QED
          BY <4>1, RequestsAssumption, FS_Subset
      <3>3. Creating(v, w)' = Creating(v, w) \ {h}
        BY <1>1, <2>3 DEF Creating
      <3>4. /\ Cardinality(Creating(v, w)) \in Nat /\ Cardinality(InvitationsOf(v, w)) \in Nat
            /\ Cardinality(Handlers) \in Nat
        BY <3>1, <3>2, RequestsAssumption, FS_CardinalityType
      <3>5. CASE v = u /\ w = request[h].wager
        <4>1. InvitationsOf(v, w)' = InvitationsOf(v, w) \cup {i} /\ i \notin InvitationsOf(v, w)
          BY <2>2, <3>5 DEF InvitationsOf, InvitationRows
        <4>2. h \in Creating(v, w)
          BY <1>1, <2>1, <3>5 DEF Creating
        <4>3. /\ IsFiniteSet(InvitationsOf(v, w)')
              /\ Cardinality(InvitationsOf(v, w)') = Cardinality(InvitationsOf(v, w)) + 1
          BY <3>1, <4>1, FS_AddElement
        <4>4. Cardinality(Creating(v, w)') = Cardinality(Creating(v, w)) - 1
          BY <3>2, <3>3, <4>2, FS_RemoveElement
        <4> QED
          BY <3>1, <3>4, <4>3, <4>4
      <3>6. CASE ~(v = u /\ w = request[h].wager)
        <4>1. InvitationsOf(v, w)' = InvitationsOf(v, w)
          BY <2>2, <3>6 DEF InvitationsOf, InvitationRows
        <4>2. Cardinality(Creating(v, w)') <= Cardinality(Creating(v, w))
          BY <3>2, <3>3, FS_Subset
        <4>3. Cardinality(Creating(v, w)') \in Nat
          BY <3>2, <3>3, FS_Subset, FS_CardinalityType
        <4> QED
          BY <3>1, <3>4, <4>1, <4>2, <4>3
      <3> QED
        BY <3>5, <3>6
    <2>6. NotTheirs'
      BY <1>1, <2>3 DEF InvitationInv, NotTheirs, Named
    <2>7. SelfInvitationTakesTwoRenames'
      <3>1. renames <= 1 => request[h].by # u
        BY <1>1 DEF InvitationInv, NotTheirs
      <3>2. InvitationRows \subseteq Ids
        BY DEF InvitationRows
      <3> QED
        BY <1>1, <2>2, <3>1, <3>2 DEF InvitationInv, SelfInvitationTakesTwoRenames
    <2>8. NamesAreUnique(username)' /\ FollowsUser'
      <3>1. InvitationRows \subseteq Ids
        BY DEF InvitationRows
      <3> QED
        BY <1>1, <2>1, <2>2, <3>1 DEF InvitationInv, NamesAreUnique, FollowsUser
    <2> QED
      BY <2>4, <2>5, <2>6, <2>7, <2>8 DEF InvitationInv
  <1> QED
    BY <1>3, <1>4 DEF createInvitation

LEMMA RenameKeeps ==
  ASSUME InvitationInv, NEW u \in Users, NEW n \in Names, changeUsername(u, n)
  PROVE  InvitationInv'
  <1>1. /\ renames \in Nat /\ renames' = renames + 1 /\ username' = [username EXCEPT ![u] = n]
        /\ Named(n) \subseteq {u} /\ UNCHANGED <<wagers, request>>
        /\ username \in [Users -> Names \cup {NoName}]
        /\ invitation \in [Ids -> Invitations \cup {NoInvitation}]
    BY RenamesAssumption DEF changeUsername, InvitationInv, InvitationTypeOK
  <1>2. ASSUME NEW i \in Ids
        PROVE  /\ invitation'[i] \in Invitations \cup {NoInvitation}
               /\ i \in InvitationRows' <=> i \in InvitationRows
               /\ invitation'[i].wager = invitation[i].wager
               /\ invitation'[i].by = invitation[i].by
               /\ invitation'[i].invited = invitation[i].invited
               /\ i \in InvitationRows =>
                    invitation'[i].invitedUsername =
                      IF invitation[i].invitedUsername = username[u] THEN n
                      ELSE invitation[i].invitedUsername
    <2>1. invitation'[i] = Cascaded(invitation[i], u, n)
      BY DEF changeUsername
    <2>2. CASE invitation[i] = NoInvitation
      BY <2>1, <2>2 DEF Cascaded, InvitationRows
    <2>3. CASE invitation[i] # NoInvitation
      <3>1. invitation[i] \in Invitations
        BY <1>1, <2>3
      <3>2. /\ invitation'[i] \in Invitations
            /\ invitation'[i].wager = invitation[i].wager /\ invitation'[i].by = invitation[i].by
            /\ invitation'[i].invited = invitation[i].invited
            /\ invitation'[i].invitedUsername =
                 IF invitation[i].invitedUsername = username[u] THEN n
                 ELSE invitation[i].invitedUsername
        BY <2>1, <2>3, <3>1 DEF Cascaded, Invitations
      <3>3. invitation'[i] # NoInvitation
        BY <3>2, NoUserAssumption DEF Invitations, NoInvitation
      <3> QED
        BY <2>3, <3>2, <3>3 DEF InvitationRows
    <2> QED
      BY <2>2, <2>3
  <1>3. InvitationTypeOK'
    <2>1. invitation' \in [Ids -> Invitations \cup {NoInvitation}]
      BY <1>2 DEF changeUsername
    <2> QED
      BY <1>1, <2>1, RenamesAssumption DEF changeUsername, InvitationInv, InvitationTypeOK
  <1>4. NamesAreUnique(username)'
    BY <1>1 DEF InvitationInv, NamesAreUnique, Named
  <1>5. FollowsUser'
    <2> SUFFICES ASSUME NEW i \in InvitationRows'
                 PROVE  invitation'[i].invitedUsername = username'[invitation'[i].invited]
      BY DEF FollowsUser
    <2>1. i \in Ids
      BY DEF InvitationRows
    <2>2. i \in InvitationRows /\ invitation[i] \in Invitations
      BY <1>1, <1>2, <2>1 DEF InvitationRows
    <2>3. /\ invitation[i].invitedUsername = username[invitation[i].invited]
          /\ invitation[i].invitedUsername \in Names /\ invitation[i].invited \in Users
      BY <2>2 DEF InvitationInv, FollowsUser, Invitations
    <2>4. username[invitation[i].invited] = username[u] => invitation[i].invited = u
      BY <2>3, NoNameAssumption DEF InvitationInv, NamesAreUnique
    <2> QED
      BY <1>1, <1>2, <2>1, <2>2, <2>3, <2>4
  <1>6. Bounded'
    <2> SUFFICES ASSUME renames = 0, NEW v \in Users, NEW w \in Wagers
                 PROVE  /\ IsFiniteSet(InvitationsOf(v, w)')
                        /\ Cardinality(InvitationsOf(v, w)') + Cardinality(Creating(v, w)')
                              <= Cardinality(Handlers)
      BY <1>1 DEF Bounded
    <2>1. InvitationsOf(v, w)' = InvitationsOf(v, w)
      BY <1>2 DEF InvitationsOf, InvitationRows
    <2>2. /\ IsFiniteSet(InvitationsOf(v, w))
          /\ Cardinality(InvitationsOf(v, w)) + Cardinality(Creating(v, w)) <= Cardinality(Handlers)
      BY DEF InvitationInv, Bounded
    <2>3. Creating(v, w)' \subseteq Creating(v, w)
      <3>1. CASE v # u \/ username[u] = n
        BY <1>1, <3>1 DEF Creating
      <3>2. CASE v = u /\ username[u] # n
        <4>1. Named(n) = {}
          BY <1>1, <3>2 DEF Named
        <4>2. \A h \in Handlers : request[h].pc = "create" => request[h].name # n
          BY <4>1 DEF InvitationInv, NotTheirs
        <4> QED
          BY <1>1, <3>2, <4>2 DEF Creating
      <3> QED
        BY <3>1, <3>2
    <2>4. IsFiniteSet(Creating(v, w))
      <3>1. Creating(v, w) \subseteq Handlers
        BY DEF Creating
      <3> QED
        BY <3>1, RequestsAssumption, FS_Subset
    <2>5. /\ Cardinality(Creating(v, w)') <= Cardinality(Creating(v, w))
          /\ Cardinality(Creating(v, w)') \in Nat
      BY <2>3, <2>4, FS_Subset, FS_CardinalityType
    <2>6. /\ Cardinality(Creating(v, w)) \in Nat /\ Cardinality(InvitationsOf(v, w)) \in Nat
          /\ Cardinality(Handlers) \in Nat
      BY <2>2, <2>4, RequestsAssumption, FS_CardinalityType
    <2> QED
      BY <2>1, <2>2, <2>5, <2>6
  <1>7. NotTheirs'
    <2> SUFFICES ASSUME renames' <= 1, NEW h \in Handlers,
                        request'[h].pc \in {"findExisting", "create"}
                 PROVE  (request[h].by \notin Named(request[h].name))' /\ renames' # 0
      BY DEF NotTheirs
    <2>1. renames = 0
      BY <1>1
    <2>2. request[h].by \notin Named(request[h].name) /\ Named(request[h].name) # {}
      BY <1>1, <2>1 DEF InvitationInv, NotTheirs
    <2>3. request[h].by \in Users
      BY <1>1 DEF InvitationInv, InvitationTypeOK, Requests, NoRequest
    <2>4. ~(u = request[h].by /\ n = request[h].name)
      BY <1>1, <2>2
    <2>5. request[h].by \notin Named(request[h].name)'
      BY <1>1, <2>2, <2>3, <2>4 DEF Named, InvitationInv, InvitationTypeOK
    <2> QED
      BY <1>1, <2>5
  <1>8. SelfInvitationTakesTwoRenames'
    <2>1. InvitationRows' = InvitationRows /\ InvitationRows \subseteq Ids
      BY <1>2 DEF InvitationRows
    <2> QED
      BY <1>1, <1>2, <2>1 DEF InvitationInv, SelfInvitationTakesTwoRenames
  <1> QED
    BY <1>3, <1>7, <1>4, <1>5, <1>6, <1>8 DEF InvitationInv

LEMMA InvitationNextInv == InvitationInv /\ [InvitationNext]_invitationVars => InvitationInv'
  <1> SUFFICES ASSUME InvitationInv, [InvitationNext]_invitationVars PROVE InvitationInv'
    OBVIOUS
  <1>1. ASSUME NEW w \in Wagers, createWager(w) PROVE InvitationInv'
    BY <1>1 DEF createWager, InvitationInv, InvitationTypeOK, Bounded, NotTheirs, Named, Creating,
       SelfInvitationTakesTwoRenames, InvitationsOf, InvitationRows, FollowsUser
  <1>2. ASSUME NEW u \in Users, NEW n \in Names, changeUsername(u, n) PROVE InvitationInv'
    BY <1>2, RenameKeeps
  <1>3. ASSUME NEW h \in Handlers, NEW u \in Users, NEW w \in Wagers, NEW n \in Names,
               Invite(h, u, w, n)
        PROVE  InvitationInv'
    <2> DEFINE new == [pc |-> "findWager", by |-> u, wager |-> w, name |-> n]
    <2>1. new \in Requests /\ new.pc = "findWager"
      BY DEF Requests
    <2>2. request' = [request EXCEPT ![h] = new] /\ UNCHANGED <<username, wagers, invitation, renames>>
      BY <1>3 DEF Invite
    <2> HIDE DEF new
    <2> QED
      BY <2>1, <2>2, RequestsMove
  <1>4. ASSUME NEW h \in Handlers, FindWager(h) PROVE InvitationInv'
    <2>1. PICK condition \in BOOLEAN : GoOnIf(h, condition, "findUser")
      <3>1. GoOnIf(h, TRUE, "findUser") \/ GoOnIf(h, FALSE, "findUser")
        BY <1>4 DEF FindWager, GoOnIf
      <3> QED
        BY <3>1
    <2>2. request[h] # NoRequest /\ UNCHANGED <<username, wagers, invitation, renames>>
      BY <1>4 DEF FindWager, Stands, NoRequest
    <2> QED
      BY <2>1, <2>2, Decided
  <1>5. ASSUME NEW h \in Handlers, FindInvitedUser(h) PROVE InvitationInv'
    <2> DEFINE found == Named(request[h].name)
    <2>1. PICK condition \in BOOLEAN :
            /\ condition <=> found # {} /\ request[h].by \notin found
            /\ GoOnIf(h, condition, "findExisting")
      BY <1>5, Zenon DEF FindInvitedUser
    <2>2. request[h] # NoRequest /\ UNCHANGED <<username, wagers, invitation, renames>>
      BY <1>5 DEF FindInvitedUser, Stands, NoRequest
    <2> QED
      BY <2>1, <2>2, Decided
  <1>6. ASSUME NEW h \in Handlers, findExistingInvitation(h) PROVE InvitationInv'
    <2>1. PICK condition \in BOOLEAN :
            /\ condition <=> ~\E i \in InvitationRows :
                               /\ invitation[i].wager = request[h].wager
                               /\ invitation[i].invitedUsername = request[h].name
            /\ GoOnIf(h, condition, "create")
      BY <1>6, Zenon DEF findExistingInvitation
    <2>2. /\ request[h] # NoRequest /\ request[h].pc = "findExisting"
          /\ UNCHANGED <<username, wagers, invitation, renames>>
      BY <1>6 DEF findExistingInvitation, Stands, NoRequest
    <2>3. condition => \A u \in Users : username[u] = request[h].name =>
                         InvitationsOf(u, request[h].wager) = {}
      BY <2>1 DEF InvitationsOf, InvitationInv, FollowsUser
    <2>4. renames <= 1 => /\ request[h].by \notin Named(request[h].name)
                          /\ renames = 0 => Named(request[h].name) # {}
      BY <2>2 DEF InvitationInv, NotTheirs
    <2> QED
      BY <2>1, <2>2, <2>3, <2>4, Decided
  <1>7. ASSUME NEW h \in Handlers, createInvitation(h) PROVE InvitationInv'
    BY <1>7, CreateKeeps
  <1>8. CASE UNCHANGED invitationVars
    BY <1>8 DEF invitationVars, InvitationInv, InvitationTypeOK, Bounded, NotTheirs, Named, Creating,
       SelfInvitationTakesTwoRenames, InvitationsOf, InvitationRows, FollowsUser
  <1> QED
    BY <1>1, <1>2, <1>3, <1>4, <1>5, <1>6, <1>7, <1>8 DEF InvitationNext

LEMMA InvitationInductive == InvitationSpec => []InvitationInv
  BY InvitationInitInv, InvitationNextInv, PTL DEF InvitationSpec

(* Until a second rename, a user is never invited to a wager more often than *)
(* there are requests at once, under whatever name: the check for an earlier *)
(* invitation is evaded by requests that overlap, and by nothing else.       *)
THEOREM FewDuplicateInvitations == InvitationSpec => []DuplicatesOnlyByOverlap
  <1>1. InvitationInv => DuplicatesOnlyByOverlap
    <2> SUFFICES ASSUME InvitationInv, renames <= 1, NEW u \in Users, NEW w \in Wagers
                 PROVE  Cardinality(InvitationsOf(u, w)) <= Cardinality(Handlers)
      BY DEF DuplicatesOnlyByOverlap
    <2>1. /\ IsFiniteSet(InvitationsOf(u, w))
          /\ Cardinality(InvitationsOf(u, w)) + Cardinality(Creating(u, w)) <= Cardinality(Handlers)
      BY DEF InvitationInv, Bounded
    <2>2. Creating(u, w) \subseteq Handlers
      BY DEF Creating
    <2>3. /\ Cardinality(Creating(u, w)) \in Nat /\ Cardinality(InvitationsOf(u, w)) \in Nat
          /\ Cardinality(Handlers) \in Nat
      BY <2>1, <2>2, RequestsAssumption, FS_Subset, FS_CardinalityType
    <2> QED
      BY <2>1, <2>3
  <1> QED
    BY <1>1, InvitationInductive, PTL

(* A user who invites himself has changed names with another one, twice,     *)
(* after the guard compared the two.                                         *)
THEOREM SelfInvitationsTakeTwoRenames == InvitationSpec => []SelfInvitationTakesTwoRenames
  BY InvitationInductive, PTL DEF InvitationInv
=============================================================================
