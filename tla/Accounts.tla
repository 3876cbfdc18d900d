------------------------------ MODULE Accounts ------------------------------
(* The user accounts of the backend: AuthService logs a wallet address in,   *)
(* registering it the first time, and issues tokens; UsersService creates    *)
(* users and renames them.                                                   *)
(*                                                                           *)
(* createOrLogin looks the address up and inserts it some calls later, so    *)
(* two logins of one new address may both find nobody.  Its handlers         *)
(* interleave at every database call and at the awaited signature check.     *)
(* JWTs are stateless: what was issued is accepted until it expires, with    *)
(* the role its holder had.  Nothing in the repository changes a role: an    *)
(* operator does, in the database.  The database draws the id of a new user  *)
(* from those it never used.                                                 *)
(*                                                                           *)
(* createOrLogin and refreshTokens are the service's.  Over HTTP the field   *)
(* of RefreshTokenDto, which has no decorator, does not pass the validation  *)
(* pipe, so the endpoint refuses every token; here it is given its token.    *)
EXTENDS UserTable

CONSTANTS Addresses, NoAddress

ASSUME NoAddressAssumption == NoAddress \notin Addresses

VARIABLES user,       \* the users table: address and username,
          role,       \* roles,
          avatar,     \* and who has a picture
          access,     \* the access tokens that have not expired
          refresh,    \* the addresses of the refresh tokens that have not expired
          handler,
          outdated,   \* the tokens whose role was read before it changed,
          late        \* and the requests about to sign such a token

rowVars == <<user, role, avatar>>
tokenVars == <<access, refresh>>
history == <<outdated, late>>
vars == <<user, role, avatar, access, refresh, handler, outdated, late>>

Rows == [address : Addresses, username : Names \cup {NoName}]
NoRow == [address |-> NoAddress, username |-> NoName]

Roles == {"User", "Admin"}
Tokens == [sub : Users, address : Addresses, role : Roles]

Free == [pc |-> "free", address |-> NoAddress, username |-> NoName, id |-> NoUser,
         role |-> "User"]
Busy == [pc : {"verify", "find", "create", "sign", "refresh"}, address : Addresses,
         username : Names \cup {NoName}, id : Users \cup {NoUser}, role : Roles]

Exists(u) == user[u] # NoRow

TypeOK == /\ user \in [Users -> Rows \cup {NoRow}]
          /\ role \in [Users -> Roles]
          /\ avatar \subseteq {u \in Users : Exists(u)}
          /\ access \subseteq Tokens
          /\ refresh \subseteq Addresses
          /\ handler \in [Handlers -> Busy \cup {Free}]
          /\ outdated \subseteq Tokens
          /\ late \subseteq Handlers

Init == /\ user = [u \in Users |-> NoRow]
        /\ role = [u \in Users |-> "User"]
        /\ avatar = {}
        /\ access = {}
        /\ refresh = {}
        /\ handler = [h \in Handlers |-> Free]
        /\ outdated = {}
        /\ late = {}

-----------------------------------------------------------------------------
(* MUTANT: the index on users.address is not unique.                         *)
IndexesAllowNames(row) ==
  \A u \in Users : row.username # NoName => user[u].username # row.username

(* The unique indexes on users.address and users.username.                   *)
IndexesAllow(row) ==
  \A u \in Users : /\ user[u].address # row.address
                   /\ row.username # NoName => user[u].username # row.username

findOneByAddress(a) == {u \in Users : user[u].address = a}

Insert(u, row) == /\ ~Exists(u)
                  /\ IndexesAllow(row)
                  /\ user' = [user EXCEPT ![u] = row]

(* A token that verifies, and names a role the route wants if it wants one.  *)
AuthGuard(t) == t \in access
RolesGuard(t, required) == required = {} \/ t.role \in required

(* POST /users/create: any token will do.                                    *)
CreateUser(u, a, n) ==
  /\ \E t \in access : RolesGuard(t, {})
  /\ Insert(u, [address |-> a, username |-> n])
  /\ UNCHANGED <<role, avatar, tokenVars, handler, history>>

(* PATCH /users/update: the user the token names takes a free username, and  *)
(* a picture if one is given.                                                *)
updateUsername(t, n, picture) ==
  /\ AuthGuard(t)
  /\ \A u \in Users \ {t.sub} : user[u].username # n
  /\ user' = [user EXCEPT ![t.sub].username = n]
  /\ avatar' = IF picture THEN avatar \cup {t.sub} ELSE avatar
  /\ UNCHANGED <<role, tokenVars, handler, history>>

(* PATCH /users/avatar                                                       *)
updateAvatar(t) == /\ AuthGuard(t)
                   /\ avatar' = avatar \cup {t.sub}
                   /\ UNCHANGED <<user, role, tokenVars, handler, history>>

(* An operator promotes or demotes a user.                                   *)
SetRole(u, r) ==
  /\ Exists(u) /\ role[u] # r
  /\ role' = [role EXCEPT ![u] = r]
  /\ outdated' = outdated \cup {t \in access : t.sub = u}
  /\ late' = late \cup {h \in Handlers : handler[h].id = u}
  /\ UNCHANGED <<user, avatar, tokenVars, handler>>

(* JWT_ACCESS_EXPIRTY_TIME and JWT_REFRESH_EXPIRTY_TIME run out.             *)
Expire(t) == /\ access' = access \ {t} /\ outdated' = outdated \ {t}
             /\ UNCHANGED <<rowVars, refresh, handler, late>>
ExpireRefresh(a) == refresh' = refresh \ {a} /\ UNCHANGED <<rowVars, access, handler, history>>

-----------------------------------------------------------------------------
(* POST /auth/create-login and POST /auth/refresh-token                      *)
Arrive(h, pc, a, n) ==
  /\ handler[h] = Free
  /\ handler' = [handler EXCEPT ![h] = [pc |-> pc, address |-> a, username |-> n,
                                        id |-> NoUser, role |-> "User"]]
  /\ UNCHANGED <<rowVars, tokenVars, history>>

At(h, pc) == handler[h].pc = pc
Finish(h) == handler' = [handler EXCEPT ![h] = Free]

(* Without a signature there is nothing to check.  With one, the wallet's    *)
(* contract says whether it signed: of a string, all the DTO lets through,   *)
(* it cannot.                                                                *)
isValidSignature(h) ==
  /\ At(h, "verify")
  /\ \E signed \in BOOLEAN :
       IF ~signed THEN handler' = [handler EXCEPT ![h].pc = "find"] ELSE Finish(h)
  /\ UNCHANGED <<rowVars, tokenVars, history>>

(* The request goes on to sign tokens for the row it has read.               *)
SignFor(h, u) ==
  handler' = [handler EXCEPT ![h].pc = "sign", ![h].username = NoName,
                             ![h].id = u, ![h].role = role[u]]

FindExistingUser(h) ==
  /\ At(h, "find")
  /\ LET found == findOneByAddress(handler[h].address)
     IN  IF found = {} THEN handler' = [handler EXCEPT ![h].pc = "create"]
         ELSE \E u \in found : SignFor(h, u)
  /\ UNCHANGED <<rowVars, tokenVars, history>>

(* usersService.create: the insert throws on a taken address, username or    *)
(* e-mail address, of which the last is not kept here.                       *)
CreateNewUser(h) ==
  /\ At(h, "create")
  /\ LET row == [address |-> handler[h].address, username |-> handler[h].username]
     IN  \/ \E u \in Users : Insert(u, row) /\ SignFor(h, u)
         \/ Finish(h) /\ UNCHANGED user
  /\ UNCHANGED <<role, avatar, tokenVars, history>>

(* MUTANT: every token is signed with the default role.                      *)
TokenOfAUser(h) == [sub |-> handler[h].id, address |-> handler[h].address, role |-> "User"]

TokenOf(h) == [sub |-> handler[h].id, address |-> handler[h].address, role |-> handler[h].role]

signJwt(h) ==
  /\ At(h, "sign")
  /\ access' = access \cup {TokenOf(h)}
  /\ refresh' = refresh \cup {handler[h].address}
  /\ outdated' = IF h \in late THEN outdated \cup {TokenOf(h)} ELSE outdated \ {TokenOf(h)}
  /\ late' = late \ {h}
  /\ Finish(h)
  /\ UNCHANGED rowVars

(* refreshTokens: the token's address must still have a user.                *)
refreshTokens(h) ==
  /\ At(h, "refresh")
  /\ LET found == findOneByAddress(handler[h].address)
     IN  IF found = {} THEN Finish(h) ELSE \E u \in found : SignFor(h, u)
  /\ UNCHANGED <<rowVars, tokenVars, history>>

Next ==
  \/ \E h \in Handlers, a \in Addresses, n \in Names \cup {NoName} :
       Arrive(h, "verify", a, n)
  \/ \E h \in Handlers, a \in refresh : Arrive(h, "refresh", a, NoName)
  \/ \E h \in Handlers :
       isValidSignature(h) \/ FindExistingUser(h) \/ CreateNewUser(h)
       \/ signJwt(h) \/ refreshTokens(h)
  \/ \E u \in Users, a \in Addresses, n \in Names \cup {NoName} : CreateUser(u, a, n)
  \/ \E t \in access : \/ \E n \in Names, picture \in BOOLEAN : updateUsername(t, n, picture)
                       \/ updateAvatar(t) \/ Expire(t)
  \/ \E u \in Users, r \in Roles : SetRole(u, r)
  \/ \E a \in refresh : ExpireRefresh(a)

Spec == Init /\ [][Next]_vars

-----------------------------------------------------------------------------
(* An address has one account and a username one owner, however many logins  *)
(* of a new address ran at once.                                             *)
AccountsAreUnique ==
  \A u, v \in Users :
    u # v /\ Exists(u) /\ Exists(v) =>
      /\ user[u].address # user[v].address
      /\ user[u].username = user[v].username => user[u].username = NoName

(* A token names the account of the address it was issued to, and all tokens *)
(* of an address name one account: logins that raced, a refresh and a login  *)
(* before a rename are interchangeable.                                      *)
TokensNameTheirAccount ==
  /\ \A t \in access : user[t.sub].address = t.address
  /\ \A s, t \in access : s.address = t.address <=> s.sub = t.sub
  /\ \A a \in refresh : \E u \in Users : user[u].address = a

(* Whoever passes RolesGuard has the role now, and whoever has it passes,    *)
(* except with a token that a request read the role for before it changed: a *)
(* login or refresh that starts after the change sets it right.              *)
RolesAreCurrent ==
  \A t \in access :
    t \in outdated \/ (RolesGuard(t, {"Admin"}) <=> role[t.sub] = "Admin")
=============================================================================
