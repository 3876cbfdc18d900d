----------------------------- MODULE WagerClaim -----------------------------
(* The wager-claim service of the backend: a user claims to have won an      *)
(* active wager, and another user accepts the claim, which completes the     *)
(* wager, or rejects it.                                                     *)
(*                                                                           *)
(* Every handler is a sequence of awaited database calls with no transaction *)
(* around them, so handlers of several requests interleave between any two   *)
(* calls, and one may stop between two writes (a rejected call, a restart).  *)
(* A request is a slot of the server: its pc names the call it is about to   *)
(* make.  A claim row is identified by its wager, wagerId being unique in    *)
(* the schema and never rewritten.                                           *)
EXTENDS Naturals

CONSTANTS Users, Wagers, Requests,
          NoUser, NoWager,          \* values of a slot that serves nobody
          MaxFailures               \* bound on the requests that die half-way

ASSUME UsersAssumption == NoUser \notin Users
ASSUME WagersAssumption == NoWager \notin Wagers
ASSUME FailuresAssumption == MaxFailures \in Nat

VARIABLES status,    \* wagers.status, "none" while there is no such row
          claim,     \* the wager_claims row of a wager
          request,   \* the handlers running in the server
          failures   \* how many requests have died so far

vars == <<status, claim, request, failures>>

WagerStatus == {"pending", "active", "completed"}
WagerClaimStatus == {"pending", "accepted", "rejected"}

WagerClaims == [by : Users, status : WagerClaimStatus]
NoClaim == [by |-> NoUser, status |-> "none"]

CreateSteps == {"createWagerRead", "createClaimRead", "createInsert"}
AcceptSteps == {"acceptClaimRead", "acceptWagerRead", "acceptWagerUpdate", "acceptClaimUpdate"}
RejectSteps == {"rejectClaimRead", "rejectUpdate"}
Steps == CreateSteps \cup AcceptSteps \cup RejectSteps

Idle == [pc |-> "idle", user |-> NoUser, wager |-> NoWager]
Running == [pc : Steps, user : Users, wager : Wagers]

TypeOK == /\ status \in [Wagers -> WagerStatus \cup {"none"}]
          /\ claim \in [Wagers -> WagerClaims \cup {NoClaim}]
          /\ request \in [Requests -> Running \cup {Idle}]
          /\ failures \in 0..MaxFailures

Init == /\ status = [w \in Wagers |-> "none"]
        /\ claim = [w \in Wagers |-> NoClaim]
        /\ request = [r \in Requests |-> Idle]
        /\ failures = 0

Claimed(w) == claim[w] # NoClaim

-----------------------------------------------------------------------------
(* The creator chooses the status of a new wager: the DTO takes any.         *)
createWager(w, s) == /\ status[w] = "none"
                     /\ status' = [status EXCEPT ![w] = s]
                     /\ UNCHANGED <<claim, request, failures>>

(* A request arrives; the handler runs up to its first database call.        *)
Arrive(r, step, u, w) ==
  /\ request[r] = Idle
  /\ request' = [request EXCEPT ![r] = [pc |-> step, user |-> u, wager |-> w]]
  /\ UNCHANGED <<status, claim, failures>>

At(r, step) == request[r].pc = step

Goto(r, step) == request' = [request EXCEPT ![r].pc = step]

(* The handler returns or throws.                                            *)
Finish(r) == request' = [request EXCEPT ![r] = Idle]

GotoIf(r, condition, step) == IF condition THEN Goto(r, step) ELSE Finish(r)

-----------------------------------------------------------------------------
(* createClaim                                                               *)
(* MUTANT: the status of the wager is not looked at.                         *)
CreateWagerReadOnly(r) ==
  /\ At(r, "createWagerRead")
  /\ GotoIf(r, status[request[r].wager] # "none", "createClaimRead")
  /\ UNCHANGED <<status, claim, failures>>

CreateWagerRead(r) ==
  /\ At(r, "createWagerRead")
  /\ GotoIf(r, status[request[r].wager] = "active", "createClaimRead")
  /\ UNCHANGED <<status, claim, failures>>

CreateClaimRead(r) ==
  /\ At(r, "createClaimRead")
  /\ GotoIf(r, ~Claimed(request[r].wager), "createInsert")
  /\ UNCHANGED <<status, claim, failures>>

(* MUTANT: an upsert in place of the insert, or no unique index on wagerId.  *)
CreateUpsert(r) ==
  /\ At(r, "createInsert")
  /\ claim' = [claim EXCEPT ![request[r].wager] =
                              [by |-> request[r].user, status |-> "pending"]]
  /\ Finish(r)
  /\ UNCHANGED <<status, failures>>

(* The insert throws when the wager got a claim since it was looked up: the  *)
(* unique index is what keeps the first one.                                 *)
CreateInsert(r) ==
  /\ At(r, "createInsert")
  /\ claim' = IF Claimed(request[r].wager) THEN claim
              ELSE [claim EXCEPT ![request[r].wager] =
                                   [by |-> request[r].user, status |-> "pending"]]
  /\ Finish(r)
  /\ UNCHANGED <<status, failures>>

(* acceptClaim                                                               *)
AcceptClaimRead(r) ==
  /\ At(r, "acceptClaimRead")
  /\ LET c == claim[request[r].wager]
     IN  GotoIf(r, c # NoClaim /\ c.by # request[r].user, "acceptWagerRead")
  /\ UNCHANGED <<status, claim, failures>>

(* MUTANT: the claim is accepted without completing its wager.               *)
AcceptWagerReadOnly(r) ==
  /\ At(r, "acceptWagerRead")
  /\ GotoIf(r, status[request[r].wager] = "active", "acceptClaimUpdate")
  /\ UNCHANGED <<status, claim, failures>>

AcceptWagerRead(r) ==
  /\ At(r, "acceptWagerRead")
  /\ GotoIf(r, status[request[r].wager] = "active", "acceptWagerUpdate")
  /\ UNCHANGED <<status, claim, failures>>

(* MUTANT: the wager is completed and its claim forgotten.                   *)
AcceptWagerUpdateAlone(r) ==
  /\ At(r, "acceptWagerUpdate")
  /\ status' = [status EXCEPT ![request[r].wager] = "completed"]
  /\ Finish(r)
  /\ UNCHANGED <<claim, failures>>

AcceptWagerUpdate(r) ==
  /\ At(r, "acceptWagerUpdate")
  /\ status' = [status EXCEPT ![request[r].wager] = "completed"]
  /\ Goto(r, "acceptClaimUpdate")
  /\ UNCHANGED <<claim, failures>>

AcceptClaimUpdate(r) ==
  /\ At(r, "acceptClaimUpdate")
  /\ claim' = [claim EXCEPT ![request[r].wager].status = "accepted"]
  /\ Finish(r)
  /\ UNCHANGED <<status, failures>>

(* rejectClaim                                                               *)
RejectClaimRead(r) ==
  /\ At(r, "rejectClaimRead")
  /\ LET c == claim[request[r].wager]
     IN  GotoIf(r, /\ c # NoClaim
                   /\ c.by # request[r].user
                   /\ c.status = "pending", "rejectUpdate")
  /\ UNCHANGED <<status, claim, failures>>

RejectUpdate(r) ==
  /\ At(r, "rejectUpdate")
  /\ claim' = [claim EXCEPT ![request[r].wager].status = "rejected"]
  /\ Finish(r)
  /\ UNCHANGED <<status, failures>>

-----------------------------------------------------------------------------
(* An awaited call rejects, or the server restarts: the handler stops where  *)
(* it is, and what it wrote stays.                                           *)
Die(r) == /\ request[r] # Idle
          /\ failures < MaxFailures
          /\ failures' = failures + 1
          /\ Finish(r)
          /\ UNCHANGED <<status, claim>>

HandlerStep(r) == \/ CreateWagerRead(r) \/ CreateClaimRead(r) \/ CreateInsert(r)
                  \/ AcceptClaimRead(r) \/ AcceptWagerRead(r)
                  \/ AcceptWagerUpdate(r) \/ AcceptClaimUpdate(r)
                  \/ RejectClaimRead(r) \/ RejectUpdate(r)

Next == \/ \E w \in Wagers, s \in WagerStatus : createWager(w, s)
        \/ \E r \in Requests, u \in Users, w \in Wagers :
             \/ Arrive(r, "createWagerRead", u, w)
             \/ Arrive(r, "acceptClaimRead", u, w)
             \/ Arrive(r, "rejectClaimRead", u, w)
        \/ \E r \in Requests : HandlerStep(r) \/ Die(r)

Spec == Init /\ [][Next]_vars

(* The event loop serves every request whose database call has answered.     *)
FairSpec == Spec /\ \A r \in Requests : WF_vars(HandlerStep(r))

-----------------------------------------------------------------------------
(* A claim is accepted only on a wager that is completed, whatever handlers  *)
(* run at once and wherever one dies: acceptClaim writes the wager first.    *)
AcceptedMeansCompleted ==
  \A w \in Wagers : claim[w].status = "accepted" => status[w] = "completed"

(* While no request has died, a completed wager whose claim is still pending *)
(* is one that an acceptClaim is about to settle: the two updates are not in *)
(* a transaction, and the state between them lasts only as long as it runs.  *)
HalfAccepted(w) == status[w] = "completed" /\ claim[w].status = "pending"
HalfAcceptedIsInFlight ==
  failures = 0 =>
    \A w \in Wagers : HalfAccepted(w) =>
      \E r \in Requests : At(r, "acceptClaimUpdate") /\ request[r].wager = w

(* The first claim on a wager stands: no later createClaim replaces it or    *)
(* its claimant, though several may have seen the wager unclaimed.           *)
FirstClaimStands ==
  [][\A w \in Wagers : Claimed(w) => claim'[w].by = claim[w].by]_vars

(* The claimant never settles the claim: the user whose request changes its  *)
(* status is another one, although the check was made some calls earlier.    *)
NobodySettlesTheirOwn ==
  [][\A w \in Wagers :
       Claimed(w) /\ claim'[w].status # claim[w].status =>
         \E r \in Requests : /\ request[r].wager = w
                             /\ request[r].user # claim'[w].by
                             /\ request'[r] = Idle]_vars

(* A claim starts on an active wager: the status createClaim read two calls  *)
(* earlier still holds when its insert succeeds, because only the acceptance *)
(* of a claim completes a wager and the unique index then refuses a second.  *)
ClaimsStartOnActiveWagers ==
  [][\A w \in Wagers : ~Claimed(w) /\ Claimed(w)' => status[w] = "active"]_vars

(* A completed wager does not keep a pending claim unless a request died:    *)
(* it is accepted, or rejected by a handler that read it while it was        *)
(* pending.                                                                  *)
CompletedIsSettled ==
  \A w \in Wagers : HalfAccepted(w) ~> (~HalfAccepted(w) \/ failures > 0)

(* What rejectClaim says of itself: 'Only pending claims can be rejected'.   *)
OnlyPendingRejected ==
  [][\A w \in Wagers : claim'[w].status = "rejected" /\ claim[w].status # "rejected"
                         => claim[w].status = "pending"]_vars
=============================================================================
