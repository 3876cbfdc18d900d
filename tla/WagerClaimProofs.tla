-------------------------- MODULE WagerClaimProofs --------------------------
(* What holds of the wager-claim service for every set of users, wagers and  *)
(* concurrent requests, and any number of requests that die half-way.        *)
EXTENDS WagerClaim, TLAPS

(* What a handler h may still rely on of what it read some calls ago:        *)
(* - a createClaim past its first read: the wager is still active, or it got *)
(*   a claim meanwhile and the insert is going to be refused;                *)
(* - an acceptClaim or rejectClaim past its first read: the claim is still   *)
(*   there and was made by another user;                                     *)
(* - an acceptClaim past its first write: the wager is still completed.      *)
ReadsStillHold(h) ==
  /\ h.pc \in {"createClaimRead", "createInsert"} =>
       status[h.wager] = "active" \/ Claimed(h.wager)
  /\ h.pc \in {"acceptWagerRead", "acceptWagerUpdate", "acceptClaimUpdate", "rejectUpdate"} =>
       Claimed(h.wager) /\ claim[h.wager].by # h.user
  /\ h.pc = "acceptClaimUpdate" => status[h.wager] = "completed"

IndInv == /\ TypeOK
          /\ AcceptedMeansCompleted
          /\ \A r \in Requests : ReadsStillHold(request[r])

LEMMA InitEstablishes == Init => IndInv
  BY UsersAssumption, FailuresAssumption
     DEF Init, IndInv, TypeOK, AcceptedMeansCompleted, ReadsStillHold, NoClaim, Idle,
         WagerStatus

(* A handler that makes a database call serves a user about a wager.         *)
LEMMA Serving ==
  ASSUME TypeOK, NEW r \in Requests, NEW step \in Steps, At(r, step)
  PROVE  request[r] \in Running
  BY DEF TypeOK, At, Idle, Steps, CreateSteps, AcceptSteps, RejectSteps

LEMMA IdleReliesOnNothing == ReadsStillHold(Idle) /\ ReadsStillHold(Idle)'
  BY DEF ReadsStillHold, Idle

(* A step that only moves one handler keeps the invariant as long as that    *)
(* handler can rely on what it has read.                                     *)
LEMMA MoveKeeps ==
  ASSUME IndInv, NEW r \in Requests, NEW next \in Running \cup {Idle},
         request' = [request EXCEPT ![r] = next],
         status' = status, claim' = claim, failures' \in 0..MaxFailures,
         ReadsStillHold(next)
  PROVE  IndInv'
  <1>1. TypeOK'
    BY DEF IndInv, TypeOK
  <1>2. AcceptedMeansCompleted'
    BY DEF IndInv, AcceptedMeansCompleted
  <1>3. ASSUME NEW q \in Requests PROVE ReadsStillHold(request[q])'
    <2>1. ReadsStillHold(request'[q])
      BY DEF IndInv, TypeOK
    <2> QED BY <2>1 DEF ReadsStillHold, Claimed
  <1> QED BY <1>1, <1>2, <1>3 DEF IndInv

(* The same of a read that goes on to the next call only on a condition.     *)
LEMMA ReadKeeps ==
  ASSUME IndInv, NEW r \in Requests, request[r] \in Running,
         NEW condition \in BOOLEAN, NEW step \in Steps,
         GotoIf(r, condition, step), UNCHANGED <<status, claim, failures>>,
         condition => ReadsStillHold([request[r] EXCEPT !.pc = step])
  PROVE  IndInv'
  <1>1. failures' \in 0..MaxFailures
    BY DEF IndInv, TypeOK
  <1>2. CASE condition
    <2>1. request' = [request EXCEPT ![r] = [request[r] EXCEPT !.pc = step]]
      BY <1>2 DEF GotoIf, Goto, IndInv, TypeOK
    <2>2. [request[r] EXCEPT !.pc = step] \in Running
      BY DEF Running
    <2> QED BY <1>1, <1>2, <2>1, <2>2, MoveKeeps
  <1>3. CASE ~condition
    BY <1>1, <1>3, IdleReliesOnNothing, MoveKeeps DEF GotoIf, Finish
  <1> QED BY <1>2, <1>3

-----------------------------------------------------------------------------
(* One lemma per step of Next.                                               *)

LEMMA createWagerKeeps ==
  ASSUME IndInv, NEW w \in Wagers, NEW s \in WagerStatus, createWager(w, s)
  PROVE  IndInv'
  <1>1. TypeOK'
    BY DEF IndInv, TypeOK, createWager
  <1>2. AcceptedMeansCompleted'
    BY DEF IndInv, TypeOK, createWager, AcceptedMeansCompleted
  <1>3. ASSUME NEW r \in Requests PROVE ReadsStillHold(request[r])'
    <2>1. CASE request[r].wager = w
      BY <2>1 DEF IndInv, createWager, ReadsStillHold, Claimed
    <2>2. CASE request[r].wager # w
      <3>1. status'[request[r].wager] = status[request[r].wager]
        BY <2>2 DEF IndInv, TypeOK, createWager
      <3> QED BY <3>1 DEF IndInv, createWager, ReadsStillHold, Claimed
    <2> QED BY <2>1, <2>2
  <1> QED BY <1>1, <1>2, <1>3 DEF IndInv

LEMMA ArriveKeeps ==
  ASSUME IndInv, NEW r \in Requests, NEW u \in Users, NEW w \in Wagers,
         NEW step \in {"createWagerRead", "acceptClaimRead", "rejectClaimRead"},
         Arrive(r, step, u, w)
  PROVE  IndInv'
  <1> DEFINE next == [pc |-> step, user |-> u, wager |-> w]
  <1>1. next \in Running
    BY DEF Running, Steps, CreateSteps, AcceptSteps, RejectSteps
  <1>2. ReadsStillHold(next)
    BY DEF ReadsStillHold
  <1>3. failures' \in 0..MaxFailures
    BY DEF IndInv, TypeOK, Arrive
  <1> HIDE DEF next
  <1>4. request' = [request EXCEPT ![r] = next]
    BY DEF Arrive, next
  <1> QED BY <1>1, <1>2, <1>3, <1>4, MoveKeeps DEF Arrive

LEMMA DieKeeps ==
  ASSUME IndInv, NEW r \in Requests, Die(r)
  PROVE  IndInv'
  <1>1. failures' \in 0..MaxFailures
    BY FailuresAssumption DEF IndInv, TypeOK, Die
  <1> QED BY <1>1, IdleReliesOnNothing, MoveKeeps DEF Die, Finish

(* The reads: what each finds is what its handler goes on to rely on.        *)
LEMMA ReadsKeep ==
  ASSUME IndInv, NEW r \in Requests,
         \/ CreateWagerRead(r) \/ CreateClaimRead(r)
         \/ AcceptClaimRead(r) \/ AcceptWagerRead(r) \/ RejectClaimRead(r)
  PROVE  IndInv'
  <1> USE DEF At, Steps, CreateSteps, AcceptSteps, RejectSteps
  <1> DEFINE h == request[r]
  <1>1. TypeOK /\ ReadsStillHold(h)
    BY DEF IndInv
  <1>2. request[r] \in Running
    BY <1>1, Serving DEF CreateWagerRead, CreateClaimRead, AcceptClaimRead,
                         AcceptWagerRead, RejectClaimRead
  <1>3. \A step \in Steps : /\ [h EXCEPT !.pc = step].pc = step
                            /\ [h EXCEPT !.pc = step].user = h.user
                            /\ [h EXCEPT !.pc = step].wager = h.wager
    BY <1>2 DEF Running
  <1>4. CASE CreateWagerRead(r)
    <2>1. status[h.wager] = "active" => ReadsStillHold([h EXCEPT !.pc = "createClaimRead"])
      BY <1>3 DEF ReadsStillHold
    <2> QED BY <1>2, <1>4, <2>1, ReadKeeps DEF CreateWagerRead
  <1>5. CASE CreateClaimRead(r)
    <2>1. ~Claimed(h.wager) => ReadsStillHold([h EXCEPT !.pc = "createInsert"])
      BY <1>1, <1>3, <1>5 DEF ReadsStillHold, CreateClaimRead
    <2> QED BY <1>2, <1>5, <2>1, ReadKeeps DEF CreateClaimRead
  <1>6. CASE AcceptClaimRead(r)
    <2>1. claim[h.wager] # NoClaim /\ claim[h.wager].by # h.user
            => ReadsStillHold([h EXCEPT !.pc = "acceptWagerRead"])
      BY <1>3 DEF ReadsStillHold, Claimed
    <2> QED BY <1>2, <1>6, <2>1, ReadKeeps DEF AcceptClaimRead
  <1>7. CASE AcceptWagerRead(r)
    <2>1. ReadsStillHold([h EXCEPT !.pc = "acceptWagerUpdate"])
      BY <1>1, <1>3, <1>7 DEF ReadsStillHold, AcceptWagerRead
    <2> QED BY <1>2, <1>7, <2>1, ReadKeeps DEF AcceptWagerRead
  <1>8. CASE RejectClaimRead(r)
    <2>1. (/\ claim[h.wager] # NoClaim
           /\ claim[h.wager].by # h.user
           /\ claim[h.wager].status = "pending")
            => ReadsStillHold([h EXCEPT !.pc = "rejectUpdate"])
      BY <1>3 DEF ReadsStillHold, Claimed
    <2> QED BY <1>2, <1>8, <2>1, ReadKeeps DEF RejectClaimRead
  <1> QED BY <1>4, <1>5, <1>6, <1>7, <1>8

LEMMA CreateInsertKeeps ==
  ASSUME IndInv, NEW r \in Requests, CreateInsert(r)
  PROVE  IndInv'
  <1> DEFINE w == request[r].wager
  <1>1. request[r] \in Running
    BY Serving DEF IndInv, CreateInsert, Steps, CreateSteps
  <1>2. CASE Claimed(w)
    <2>1. claim' = claim /\ failures' \in 0..MaxFailures
      BY <1>2 DEF CreateInsert, IndInv, TypeOK
    <2> QED BY <2>1, IdleReliesOnNothing, MoveKeeps DEF CreateInsert, Finish
  <1>3. CASE ~Claimed(w)
    <2>1. claim' = [claim EXCEPT ![w] = [by |-> request[r].user, status |-> "pending"]]
      BY <1>3 DEF CreateInsert
    <2>2. TypeOK'
      BY <1>1, <2>1 DEF IndInv, TypeOK, CreateInsert, Finish, Running, WagerClaims,
                        WagerClaimStatus
    <2>3. AcceptedMeansCompleted'
      BY <1>1, <2>1 DEF IndInv, TypeOK, CreateInsert, AcceptedMeansCompleted, Running
    <2>4. ASSUME NEW q \in Requests PROVE ReadsStillHold(request[q])'
      <3>1. CASE q = r
        BY <3>1, IdleReliesOnNothing DEF IndInv, TypeOK, CreateInsert, Finish
      <3>2. CASE q # r
        <4>1. request'[q] = request[q] /\ ReadsStillHold(request[q])
          BY <3>2 DEF IndInv, TypeOK, CreateInsert, Finish
        <4>2. CASE request[q].wager = w
          <5>1. claim'[w] # NoClaim
            BY <1>1, <2>1, UsersAssumption
               DEF IndInv, TypeOK, NoClaim, Running
          <5> QED BY <1>3, <4>1, <4>2, <5>1 DEF ReadsStillHold, CreateInsert, Claimed
        <4>3. CASE request[q].wager # w
          <5>1. claim'[request[q].wager] = claim[request[q].wager]
            BY <2>1, <4>3 DEF IndInv, TypeOK
          <5> QED BY <4>1, <5>1 DEF ReadsStillHold, CreateInsert, Claimed
        <4> QED BY <4>2, <4>3
      <3> QED BY <3>1, <3>2
    <2> QED BY <2>2, <2>3, <2>4 DEF IndInv
  <1> QED BY <1>2, <1>3

LEMMA AcceptWagerUpdateKeeps ==
  ASSUME IndInv, NEW r \in Requests, AcceptWagerUpdate(r)
  PROVE  IndInv'
  <1> DEFINE h == request[r]
             next == [request[r] EXCEPT !.pc = "acceptClaimUpdate"]
  <1>1. h \in Running
    BY Serving DEF IndInv, AcceptWagerUpdate, Steps, AcceptSteps
  <1>2. /\ next \in Running /\ next.pc = "acceptClaimUpdate"
        /\ next.wager = h.wager /\ next.user = h.user
    BY <1>1 DEF Running, Steps, AcceptSteps
  <1>3. request' = [request EXCEPT ![r] = next]
    BY DEF AcceptWagerUpdate, Goto, IndInv, TypeOK
  <1>4. status' = [status EXCEPT ![h.wager] = "completed"] /\ claim' = claim
    BY DEF AcceptWagerUpdate
  <1>5. h.wager \in Wagers /\ Claimed(h.wager) /\ claim[h.wager].by # h.user
    BY <1>1 DEF Running, IndInv, ReadsStillHold, AcceptWagerUpdate, At
  <1> HIDE DEF next
  <1>6. TypeOK'
    BY <1>2, <1>3, <1>4 DEF IndInv, TypeOK, AcceptWagerUpdate, WagerStatus
  <1>7. AcceptedMeansCompleted'
    BY <1>4 DEF IndInv, TypeOK, AcceptedMeansCompleted
  <1>8. ASSUME NEW q \in Requests PROVE ReadsStillHold(request[q])'
    <2>1. CASE q = r
      <3>1. request'[q] = next
        BY <1>3, <2>1 DEF IndInv, TypeOK
      <3>2. status'[h.wager] = "completed"
        BY <1>4, <1>5 DEF IndInv, TypeOK
      <3> QED BY <1>2, <1>4, <1>5, <3>1, <3>2 DEF ReadsStillHold, Claimed
    <2>2. CASE q # r
      <3>1. request'[q] = request[q] /\ ReadsStillHold(request[q])
        BY <1>3, <2>2 DEF IndInv, TypeOK
      <3>2. CASE request[q].wager = h.wager
        <4>1. status'[request[q].wager] = "completed" /\ Claimed(request[q].wager)
          BY <1>4, <1>5, <3>2 DEF IndInv, TypeOK
        <4> QED BY <1>4, <3>1, <4>1 DEF ReadsStillHold, Claimed
      <3>3. CASE request[q].wager # h.wager
        <4>1. status'[request[q].wager] = status[request[q].wager]
          BY <1>4, <3>3 DEF IndInv, TypeOK
        <4> QED BY <1>4, <3>1, <4>1 DEF ReadsStillHold, Claimed
      <3> QED BY <3>2, <3>3
    <2> QED BY <2>1, <2>2
  <1> QED BY <1>6, <1>7, <1>8 DEF IndInv

(* The two writes that settle a claim change nothing of it but its status.   *)
LEMMA SettlingKeeps ==
  ASSUME IndInv, NEW r \in Requests, AcceptClaimUpdate(r) \/ RejectUpdate(r)
  PROVE  /\ IndInv'
         /\ \A w \in Wagers : /\ claim'[w].by = claim[w].by
                              /\ Claimed(w)' <=> Claimed(w)
  <1> DEFINE h == request[r]
  <1>1. h \in Running
    BY Serving DEF IndInv, AcceptClaimUpdate, RejectUpdate, Steps, AcceptSteps, RejectSteps
  <1>2. h.wager \in Wagers /\ claim[h.wager] \in WagerClaims
    BY <1>1 DEF Running, IndInv, TypeOK, ReadsStillHold, AcceptClaimUpdate, RejectUpdate,
                At, Claimed
  <1>3. PICK s \in {"accepted", "rejected"} :
          /\ claim' = [claim EXCEPT ![h.wager].status = s]
          /\ s = "accepted" => status[h.wager] = "completed"
    BY DEF AcceptClaimUpdate, RejectUpdate, At, IndInv, ReadsStillHold
  <1>4. status' = status /\ failures' = failures /\ request' = [request EXCEPT ![r] = Idle]
    BY DEF AcceptClaimUpdate, RejectUpdate, Finish
  <1>5. ASSUME NEW w \in Wagers
        PROVE  /\ claim'[w] \in WagerClaims \cup {NoClaim}
               /\ claim'[w].by = claim[w].by
               /\ claim'[w] # NoClaim <=> claim[w] # NoClaim
               /\ w # h.wager => claim'[w] = claim[w]
               /\ w = h.wager => claim'[w].status = s
    <2>1. CASE w = h.wager
      <3>1. claim'[w] = [claim[w] EXCEPT !.status = s]
        BY <1>3, <2>1 DEF IndInv, TypeOK
      <3> QED BY <1>2, <2>1, <3>1, UsersAssumption DEF WagerClaims, WagerClaimStatus, NoClaim
    <2>2. CASE w # h.wager
      BY <1>3, <2>2 DEF IndInv, TypeOK
    <2> QED BY <2>1, <2>2
  <1>6. TypeOK'
    <2>1. claim' \in [Wagers -> WagerClaims \cup {NoClaim}]
      BY <1>3, <1>5 DEF IndInv, TypeOK
    <2> QED BY <1>4, <2>1 DEF IndInv, TypeOK
  <1>7. AcceptedMeansCompleted'
    BY <1>3, <1>4, <1>5 DEF IndInv, AcceptedMeansCompleted
  <1>8. ASSUME NEW q \in Requests PROVE ReadsStillHold(request[q])'
    <2>1. CASE q = r
      BY <1>4, <2>1, IdleReliesOnNothing DEF IndInv, TypeOK
    <2>2. CASE q # r
      <3>1. request'[q] = request[q] /\ ReadsStillHold(request[q])
        BY <1>4, <2>2 DEF IndInv, TypeOK
      <3>2. CASE request[q] = Idle
        BY <3>1, <3>2 DEF ReadsStillHold, Idle
      <3>3. CASE request[q] \in Running
        <4>1. request[q].wager \in Wagers
          BY <3>3 DEF Running
        <4> QED BY <1>4, <1>5, <3>1, <4>1 DEF ReadsStillHold, Claimed
      <3> QED BY <3>2, <3>3 DEF IndInv, TypeOK
    <2> QED BY <2>1, <2>2
  <1> QED BY <1>5, <1>6, <1>7, <1>8 DEF IndInv, Claimed

LEMMA NextKeeps == IndInv /\ [Next]_vars => IndInv'
  <1> SUFFICES ASSUME IndInv, [Next]_vars PROVE IndInv'
    OBVIOUS
  <1>1. ASSUME NEW w \in Wagers, NEW s \in WagerStatus, createWager(w, s) PROVE IndInv'
    BY <1>1, createWagerKeeps
  <1>2. ASSUME NEW r \in Requests, NEW u \in Users, NEW w \in Wagers,
               \/ Arrive(r, "createWagerRead", u, w)
               \/ Arrive(r, "acceptClaimRead", u, w)
               \/ Arrive(r, "rejectClaimRead", u, w)
        PROVE  IndInv'
    BY <1>2, ArriveKeeps
  <1>3. ASSUME NEW r \in Requests, HandlerStep(r) PROVE IndInv'
    BY <1>3, ReadsKeep, CreateInsertKeeps, AcceptWagerUpdateKeeps, SettlingKeeps
       DEF HandlerStep
  <1>4. ASSUME NEW r \in Requests, Die(r) PROVE IndInv'
    BY <1>4, DieKeeps
  <1>5. CASE UNCHANGED vars
    BY <1>5 DEF vars, IndInv, TypeOK, AcceptedMeansCompleted, ReadsStillHold, Claimed
  <1> QED BY <1>1, <1>2, <1>3, <1>4, <1>5 DEF Next

(* Every reachable state has its type and keeps what handlers rely on.       *)
THEOREM Inductive == Spec => []IndInv
  BY InitEstablishes, NextKeeps, PTL DEF Spec

(* The tables and the slots of the server keep their types.                  *)
THEOREM TypeCorrect == Spec => []TypeOK
  <1>1. IndInv => TypeOK
    BY DEF IndInv
  <1> QED BY <1>1, Inductive, PTL

(* A claim is accepted only on a wager that acceptClaim has completed.       *)
THEOREM AcceptedAlwaysMeansCompleted == Spec => []AcceptedMeansCompleted
  <1>1. IndInv => AcceptedMeansCompleted
    BY DEF IndInv
  <1> QED BY <1>1, Inductive, PTL

-----------------------------------------------------------------------------
(* What one step may do to a claim: a wager without one gets it while it is  *)
(* active; a claim is otherwise left alone, but for the status that another  *)
(* user's handler settles in its last call.                                  *)
ClaimChange(w) ==
  \/ claim'[w] = claim[w]
  \/ ~Claimed(w) /\ status[w] = "active"
  \/ /\ claim'[w].by = claim[w].by
     /\ \E r \in Requests : /\ request[r].wager = w
                            /\ request[r].user # claim'[w].by
                            /\ request'[r] = Idle

LEMMA ClaimChanges ==
  IndInv /\ [Next]_vars => \A w \in Wagers : ClaimChange(w)
  <1> SUFFICES ASSUME IndInv, [Next]_vars, NEW w \in Wagers PROVE ClaimChange(w)
    OBVIOUS
  <1>1. CASE claim' = claim
    BY <1>1 DEF ClaimChange
  <1>2. ASSUME NEW r \in Requests, CreateInsert(r) PROVE ClaimChange(w)
    <2>1. CASE request[r].wager = w /\ ~Claimed(w)
      <3>1. status[w] = "active"
        BY <1>2, <2>1 DEF IndInv, ReadsStillHold, CreateInsert, At
      <3> QED BY <2>1, <3>1 DEF ClaimChange
    <2>2. CASE ~(request[r].wager = w /\ ~Claimed(w))
      <3>1. claim'[w] = claim[w]
        BY <1>2, <2>2 DEF IndInv, TypeOK, CreateInsert
      <3> QED BY <3>1 DEF ClaimChange
    <2> QED BY <2>1, <2>2
  <1>3. ASSUME NEW r \in Requests, AcceptClaimUpdate(r) \/ RejectUpdate(r)
        PROVE  ClaimChange(w)
    <2>1. claim'[w].by = claim[w].by
      BY <1>3, SettlingKeeps
    <2>2. CASE request[r].wager # w
      <3>1. claim'[w] = claim[w]
        BY <1>3, <2>2 DEF IndInv, TypeOK, AcceptClaimUpdate, RejectUpdate
      <3> QED BY <3>1 DEF ClaimChange
    <2>3. CASE request[r].wager = w
      <3>1. request[r].user # claim[w].by
        BY <1>3, <2>3 DEF IndInv, ReadsStillHold, AcceptClaimUpdate, RejectUpdate, At
      <3>2. request'[r] = Idle
        BY <1>3 DEF IndInv, TypeOK, AcceptClaimUpdate, RejectUpdate, Finish
      <3> QED BY <2>1, <2>3, <3>1, <3>2 DEF ClaimChange
    <2> QED BY <2>2, <2>3
  <1> QED
    BY <1>1, <1>2, <1>3
       DEF Next, vars, createWager, Arrive, HandlerStep, Die, CreateWagerRead, CreateClaimRead,
           AcceptClaimRead, AcceptWagerRead, AcceptWagerUpdate, RejectClaimRead

(* No createClaim replaces a claim or its claimant, however many handlers    *)
(* had seen the wager unclaimed.                                             *)
THEOREM FirstClaimAlwaysStands == Spec => FirstClaimStands
  <1>1. IndInv /\ [Next]_vars =>
          [\A w \in Wagers : Claimed(w) => claim'[w].by = claim[w].by]_vars
    BY ClaimChanges DEF ClaimChange
  <1> QED BY <1>1, Inductive, PTL DEF Spec, FirstClaimStands

(* The claimant of a wager is never the one who accepts or rejects it.       *)
THEOREM NobodyEverSettlesTheirOwn == Spec => NobodySettlesTheirOwn
  <1>1. IndInv /\ [Next]_vars =>
          [\A w \in Wagers :
             Claimed(w) /\ claim'[w].status # claim[w].status =>
               \E r \in Requests : /\ request[r].wager = w
                                   /\ request[r].user # claim'[w].by
                                   /\ request'[r] = Idle]_vars
    BY ClaimChanges DEF ClaimChange
  <1> QED BY <1>1, Inductive, PTL DEF Spec, NobodySettlesTheirOwn

(* The wager a claim is inserted for is still active when it is.             *)
THEOREM ClaimsAlwaysStartOnActiveWagers == Spec => ClaimsStartOnActiveWagers
  <1>1. IndInv /\ [Next]_vars =>
          [\A w \in Wagers : ~Claimed(w) /\ Claimed(w)' => status[w] = "active"]_vars
    <2> SUFFICES ASSUME IndInv, [Next]_vars, NEW w \in Wagers, ~Claimed(w), Claimed(w)'
                 PROVE  status[w] = "active"
      OBVIOUS
    <2>1. ClaimChange(w) /\ claim'[w] # claim[w]
      BY ClaimChanges DEF Claimed
    <2>2. CASE \E r \in Requests : AcceptClaimUpdate(r) \/ RejectUpdate(r)
      BY <2>2, SettlingKeeps
    <2>3. CASE \E r \in Requests : CreateInsert(r)
      BY <2>1, <2>3 DEF IndInv, TypeOK, ReadsStillHold, CreateInsert, At
    <2> QED
      BY <2>1, <2>2, <2>3
         DEF Next, vars, createWager, Arrive, HandlerStep, Die, CreateWagerRead,
             CreateClaimRead, AcceptClaimRead, AcceptWagerRead, AcceptWagerUpdate,
             RejectClaimRead
  <1> QED BY <1>1, Inductive, PTL DEF Spec, ClaimsStartOnActiveWagers

-----------------------------------------------------------------------------
(* A half-accepted claim is about to be settled: it takes its wager to have  *)
(* been there before its claim.                                              *)
ClaimsHaveWagers == \A w \in Wagers : Claimed(w) => status[w] # "none"

FlightInv == IndInv /\ ClaimsHaveWagers /\ HalfAcceptedIsInFlight

LEMMA FlightInit == Init => FlightInv
  <1>1. Init => ClaimsHaveWagers /\ HalfAcceptedIsInFlight
    BY DEF Init, ClaimsHaveWagers, HalfAcceptedIsInFlight, HalfAccepted, Claimed
  <1> QED BY <1>1, InitEstablishes DEF FlightInv

LEMMA ClaimsHaveWagersKept ==
  ASSUME IndInv, ClaimsHaveWagers, [Next]_vars
  PROVE  ClaimsHaveWagers'
  <1> SUFFICES ASSUME NEW w \in Wagers, Claimed(w)' PROVE status'[w] # "none"
    BY DEF ClaimsHaveWagers
  <1>1. status[w] # "none" => status'[w] # "none"
    BY DEF Next, vars, createWager, Arrive, HandlerStep, Die, CreateWagerRead, CreateClaimRead,
           CreateInsert, AcceptClaimRead, AcceptWagerRead, AcceptWagerUpdate,
           AcceptClaimUpdate, RejectClaimRead, RejectUpdate, IndInv, TypeOK
  <1>2. Claimed(w) => status[w] # "none"
    BY DEF ClaimsHaveWagers
  <1>3. ~Claimed(w) => status[w] # "none"
    <2> SUFFICES ASSUME ~Claimed(w) PROVE status[w] # "none"
      OBVIOUS
    <2>1. CASE \E r \in Requests : AcceptClaimUpdate(r) \/ RejectUpdate(r)
      BY <2>1, SettlingKeeps
    <2>2. CASE \E r \in Requests : CreateInsert(r)
      BY <2>2 DEF IndInv, TypeOK, ReadsStillHold, CreateInsert, At, Claimed
    <2> QED
      BY <2>1, <2>2
         DEF Next, vars, createWager, Arrive, HandlerStep, Die, CreateWagerRead,
             CreateClaimRead, AcceptClaimRead, AcceptWagerRead, AcceptWagerUpdate,
             RejectClaimRead, Claimed
  <1> QED BY <1>1, <1>2, <1>3

(* A handler in front of its last update stays there when another one moves. *)
Settles(q, w) == At(q, "acceptClaimUpdate") /\ request[q].wager = w

LEMMA OthersStay ==
  ASSUME TypeOK, NEW w \in Wagers, NEW r \in Requests, NEW next,
         request' = [request EXCEPT ![r] = next],
         ~Settles(r, w), \E q \in Requests : Settles(q, w)
  PROVE  \E q \in Requests : Settles(q, w)'
  BY DEF TypeOK, Settles, At

LEMMA FlightKept ==
  ASSUME FlightInv, [Next]_vars, failures' = 0, NEW w \in Wagers, HalfAccepted(w)'
  PROVE  \E q \in Requests : Settles(q, w)'
  <1>1. TypeOK /\ IndInv
    BY DEF FlightInv, IndInv
  <1>2. HalfAccepted(w) /\ failures = 0 => \E q \in Requests : Settles(q, w)
    BY DEF FlightInv, HalfAcceptedIsInFlight, Settles
  <1>3. ASSUME NEW v \in Wagers, NEW s \in WagerStatus, createWager(v, s)
        PROVE  \E q \in Requests : Settles(q, w)'
    <2>1. CASE v = w
      BY <1>1, <1>3, <2>1
         DEF FlightInv, ClaimsHaveWagers, createWager, HalfAccepted, Claimed, NoClaim
    <2>2. CASE v # w
      <3>1. HalfAccepted(w) /\ failures = 0 /\ request' = request
        BY <1>1, <1>3, <2>2 DEF createWager, HalfAccepted, TypeOK
      <3> QED BY <1>2, <3>1 DEF Settles, At
    <2> QED BY <2>1, <2>2
  <1>4. ASSUME NEW r \in Requests,
               \/ \E u \in Users, v \in Wagers :
                    \E step \in {"createWagerRead", "acceptClaimRead", "rejectClaimRead"} :
                      Arrive(r, step, u, v)
               \/ CreateWagerRead(r) \/ CreateClaimRead(r)
               \/ AcceptClaimRead(r) \/ AcceptWagerRead(r) \/ RejectClaimRead(r)
        PROVE  \E q \in Requests : Settles(q, w)'
    <2>1. HalfAccepted(w) /\ failures = 0
      BY <1>4 DEF Arrive, CreateWagerRead, CreateClaimRead, AcceptClaimRead, AcceptWagerRead,
                  RejectClaimRead, HalfAccepted
    <2>2. request[r].pc # "acceptClaimUpdate"
      <3>1. CASE request[r] = Idle
        BY <3>1 DEF Idle
      <3>2. CASE ~(request[r] = Idle)
        BY <1>4, <3>2 DEF Arrive, CreateWagerRead, CreateClaimRead, AcceptClaimRead,
                          AcceptWagerRead, RejectClaimRead, At
      <3> QED BY <3>1, <3>2
    <2>3. \E next : request' = [request EXCEPT ![r] = next]
      BY <1>4 DEF Arrive, CreateWagerRead, CreateClaimRead, AcceptClaimRead, AcceptWagerRead,
                  RejectClaimRead, GotoIf, Goto, Finish
    <2> QED BY <1>1, <1>2, <2>1, <2>2, <2>3, OthersStay DEF Settles, At
  <1>5. ASSUME NEW r \in Requests, CreateInsert(r)
        PROVE  \E q \in Requests : Settles(q, w)'
    <2>1. ~Settles(r, w) /\ failures = 0 /\ request' = [request EXCEPT ![r] = Idle]
      BY <1>5 DEF CreateInsert, Settles, At, Finish
    <2>2. status' = status /\ status[w] = "completed"
      BY <1>5 DEF CreateInsert, HalfAccepted
    <2>3. claim'[w] = claim[w]
      BY <1>1, <1>5, <2>2 DEF CreateInsert, IndInv, TypeOK, ReadsStillHold, At
    <2>4. HalfAccepted(w)
      BY <2>2, <2>3 DEF HalfAccepted
    <2> QED BY <1>1, <1>2, <2>1, <2>4, OthersStay
  <1>6. ASSUME NEW r \in Requests, AcceptWagerUpdate(r)
        PROVE  \E q \in Requests : Settles(q, w)'
    <2> DEFINE next == [request[r] EXCEPT !.pc = "acceptClaimUpdate"]
    <2>1. request[r] \in Running
      BY <1>1, <1>6, Serving DEF AcceptWagerUpdate, Steps, AcceptSteps
    <2>2. next.pc = "acceptClaimUpdate" /\ next.wager = request[r].wager
      BY <2>1 DEF Running
    <2>3. request' = [request EXCEPT ![r] = next] /\ failures = 0 /\ ~Settles(r, w)
      BY <1>1, <1>6 DEF AcceptWagerUpdate, Goto, TypeOK, Settles, At
    <2> HIDE DEF next
    <2>4. CASE request[r].wager = w
      <3>1. request'[r] = next
        BY <1>1, <2>3 DEF TypeOK
      <3> QED BY <2>2, <2>4, <3>1 DEF Settles, At
    <2>5. CASE request[r].wager # w
      <3>1. HalfAccepted(w)
        BY <1>1, <1>6, <2>5 DEF AcceptWagerUpdate, HalfAccepted, TypeOK
      <3> QED BY <1>1, <1>2, <2>3, <3>1, OthersStay
    <2> QED BY <2>4, <2>5
  <1>7. ASSUME NEW r \in Requests, AcceptClaimUpdate(r) \/ RejectUpdate(r)
        PROVE  \E q \in Requests : Settles(q, w)'
    <2>1. request[r] \in Running
      BY <1>1, <1>7, Serving DEF AcceptClaimUpdate, RejectUpdate, Steps, AcceptSteps, RejectSteps
    <2>2. /\ request' = [request EXCEPT ![r] = Idle]
          /\ failures = 0 /\ status' = status
      BY <1>7 DEF AcceptClaimUpdate, RejectUpdate, Finish
    <2>3. PICK s \in {"accepted", "rejected"} :
            claim' = [claim EXCEPT ![request[r].wager].status = s]
      BY <1>7 DEF AcceptClaimUpdate, RejectUpdate
    <2>4. request[r].wager \in Wagers /\ claim[request[r].wager] \in WagerClaims
      BY <1>1, <1>7, <2>1
         DEF Running, IndInv, TypeOK, ReadsStillHold, AcceptClaimUpdate, RejectUpdate,
             At, Claimed
    <2>5. CASE request[r].wager = w
      <3>1. claim'[w] = [claim[w] EXCEPT !.status = s]
        BY <1>1, <2>3, <2>5 DEF TypeOK
      <3>2. claim'[w].status = s
        BY <2>4, <2>5, <3>1 DEF WagerClaims
      <3> QED BY <3>2 DEF HalfAccepted
    <2>6. CASE request[r].wager # w
      <3>1. HalfAccepted(w)
        BY <1>1, <2>2, <2>3, <2>6 DEF HalfAccepted, TypeOK
      <3>2. ~Settles(r, w)
        BY <2>6 DEF Settles
      <3> QED BY <1>1, <1>2, <2>2, <3>1, <3>2, OthersStay
    <2> QED BY <2>5, <2>6
  <1>8. ASSUME NEW r \in Requests, Die(r) PROVE FALSE
    <2>1. failures \in Nat /\ failures + 1 = 0
      BY <1>1, <1>8, FailuresAssumption DEF Die, TypeOK
    <2> QED BY <2>1
  <1>9. CASE UNCHANGED vars
    <2>1. HalfAccepted(w) /\ failures = 0 /\ request' = request
      BY <1>9 DEF vars, HalfAccepted
    <2> QED BY <1>2, <2>1 DEF Settles, At
  <1> QED BY <1>3, <1>4, <1>5, <1>6, <1>7, <1>8, <1>9 DEF Next, HandlerStep

(* While nothing fails, the state between the two updates of acceptClaim is  *)
(* left by the handler that made it, whatever else runs.                     *)
THEOREM HalfAcceptedAlwaysInFlight == Spec => []HalfAcceptedIsInFlight
  <1>1. FlightInv /\ [Next]_vars => FlightInv'
    <2> SUFFICES ASSUME FlightInv, [Next]_vars PROVE FlightInv'
      OBVIOUS
    <2>1. IndInv' /\ ClaimsHaveWagers'
      BY NextKeeps, ClaimsHaveWagersKept DEF FlightInv
    <2>2. HalfAcceptedIsInFlight'
      BY FlightKept DEF HalfAcceptedIsInFlight, Settles
    <2> QED BY <2>1, <2>2 DEF FlightInv
  <1>2. FlightInv => HalfAcceptedIsInFlight
    BY DEF FlightInv
  <1> QED BY <1>1, <1>2, FlightInit, PTL DEF Spec
=============================================================================
