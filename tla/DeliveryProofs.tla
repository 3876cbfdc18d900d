--------------------------- MODULE DeliveryProofs ---------------------------
(* What holds of Delivery for every number of mails, attempts, stalls,       *)
(* restarts, sockets and rooms.                                              *)
EXTENDS Delivery, TLAPS

(* Whoever awaits SendGrid for the mail is its call, or the worker that has  *)
(* its job; a processor's job is with SendGrid as long as it is active, and  *)
(* was never filed as failed by the processor.                               *)
Awaited(m) ==
  /\ call[m] # "none" => job[m].state = "none"
  /\ call[m] = "asked" => sending[m] # "no"
  /\ job[m].state = "none" => job[m].name = "other" /\ job[m].attemptsMade = 0
  /\ sending[m] # "no" => \/ call[m] = "asked"
                          \/ job[m].state = "active" /\ job[m].name \in Processors
  /\ job[m].name \in Processors =>
       /\ job[m].state = "active" => sending[m] # "no"
       /\ job[m].state # "delayed" /\ job[m].attemptsMade = 0

(* Every copy but the last was paid for by a stall.                          *)
Paid(m) ==
  /\ sending[m] = "accepted" => mailed[m] > 0
  /\ job[m].state = "none" /\ call[m] = "none" => mailed[m] = 0
  /\ job[m].name \in Processors =>
       /\ mailed[m] <= 1 + job[m].stalledCount
       /\ job[m].state = "waiting" \/ sending[m] = "asked" => mailed[m] <= job[m].stalledCount

EmailInv == /\ EmailTypeOK
            /\ \A m \in Mails : Awaited(m) /\ Paid(m)
            /\ SuccessIsDelivered

(* A socket is in the rooms it was told of, and in the room of its own id    *)
(* unless it gave that up.                                                   *)
Roomed(c) == /\ rooms[c] = told[c] \cup ({c} \ gaveUp)
             /\ c \in gaveUp => c \notin told[c]

(* The service's map is the namespace.                                       *)
SocketInv == /\ SocketTypeOK
             /\ connectedClients = Open
             /\ \A c \in Open : Roomed(c)
             /\ HearsTheOthers /\ RoomTraffic

IndInv == EmailInv /\ SocketInv

-----------------------------------------------------------------------------
LEMMA EmailInitially == EmailInit => EmailInv
  BY LimitsAssumption
  DEF EmailInit, EmailInv, EmailTypeOK, Records, Names, States, Filings, Awaited, Paid,
      SuccessIsDelivered, Processors

(* What a step does to one mail is all that can break the invariant.         *)
LEMMA OneMail ==
  ASSUME EmailInv, NEW m \in Mails, NEW r \in Records,
         NEW c \in {"none", "asked", "true", "false", "lost"},
         NEW s \in {"no", "asked", "accepted"}, NEW n \in Nat,
         job' = [job EXCEPT ![m] = r], call' = [call EXCEPT ![m] = c],
         sending' = [sending EXCEPT ![m] = s], mailed' = [mailed EXCEPT ![m] = n],
         restarts' = restarts,
         Awaited(m)', Paid(m)', r.returnvalue = "success" \/ c = "true" => n > 0
  PROVE  EmailInv'
<1>1. EmailTypeOK'
  BY DEF EmailInv, EmailTypeOK
<1>2. \A q \in Mails \ {m} : Awaited(q)' /\ Paid(q)'
  BY DEF EmailInv, EmailTypeOK, Awaited, Paid
<1>3. SuccessIsDelivered'
  BY DEF EmailInv, EmailTypeOK, SuccessIsDelivered
<1> QED BY <1>1, <1>2, <1>3 DEF EmailInv

LEMMA EmailStepKeeps ==
  ASSUME EmailInv, EmailStep
  PROVE  EmailInv'
<1> PICK m \in Mails : \/ \E name \in Names : Enqueue(m, name)
                       \/ sendOnboardingEmail(m) \/ Accept(m) \/ Resolve(m)
                       \/ Take(m) \/ Reject(m) \/ Promote(m) \/ CheckStalled(m)
  BY DEF EmailStep
<1>0. /\ job \in [Mails -> Records] /\ job[m] \in Records
      /\ call \in [Mails -> {"none", "asked", "true", "false", "lost"}]
      /\ sending \in [Mails -> {"no", "asked", "accepted"}]
      /\ mailed \in [Mails -> Nat] /\ mailed[m] \in Nat
      /\ job[m].attemptsMade \in Nat /\ job[m].stalledCount \in Nat
      /\ job[m].returnvalue = "success" \/ call[m] = "true" => mailed[m] > 0
      /\ Awaited(m) /\ Paid(m)
  BY DEF EmailInv, EmailTypeOK, SuccessIsDelivered, Records
<1>1. /\ job = [job EXCEPT ![m] = @] /\ call = [call EXCEPT ![m] = @]
      /\ sending = [sending EXCEPT ![m] = @] /\ mailed = [mailed EXCEPT ![m] = @]
  BY <1>0
<1>2. ASSUME NEW name \in Names, Enqueue(m, name) PROVE EmailInv'
  <2> DEFINE next == [job[m] EXCEPT !.name = name, !.state = "waiting"]
  <2>1. next \in Records
    BY <1>0, <1>2 DEF Records, Names, States, Filings
  <2>2. /\ job' = [job EXCEPT ![m] = next]
        /\ call' = [call EXCEPT ![m] = call[m]]
        /\ sending' = [sending EXCEPT ![m] = sending[m]]
        /\ mailed' = [mailed EXCEPT ![m] = mailed[m]]
        /\ restarts' = restarts
    BY <1>0, <1>1, <1>2 DEF Enqueue, Unused
  <2>3. /\ job'[m] = next /\ call'[m] = call[m]
        /\ sending'[m] = sending[m]
        /\ mailed'[m] = mailed[m]
    BY <1>0, <2>2
  <2>4. Awaited(m)' /\ Paid(m)'
    <3>1. /\ call[m] = "none" /\ sending[m] = "no" /\ mailed[m] = 0
          /\ job[m].attemptsMade = 0
      BY <1>0, <1>2 DEF Enqueue, Unused, Awaited, Paid
    <3>2. /\ next.name = name /\ next.state = "waiting" /\ next.attemptsMade = 0
          /\ next.stalledCount \in Nat
      BY <1>0, <3>1 DEF Records
    <3> HIDE DEF next
    <3> QED BY <2>3, <3>1, <3>2 DEF Awaited, Paid
  <2>5. next.returnvalue = job[m].returnvalue
    BY <1>0 DEF Records
  <2> HIDE DEF next
  <2> QED BY <1>0, <2>1, <2>2, <2>4, <2>5, OneMail
<1>3. ASSUME sendOnboardingEmail(m) PROVE EmailInv'
  <2> DEFINE next == job[m]
  <2>1. next \in Records
    BY <1>0, <1>3 DEF Records, Names, States, Filings
  <2>2. /\ job' = [job EXCEPT ![m] = next]
        /\ call' = [call EXCEPT ![m] = "asked"]
        /\ sending' = [sending EXCEPT ![m] = "asked"]
        /\ mailed' = [mailed EXCEPT ![m] = mailed[m]]
        /\ restarts' = restarts
    BY <1>0, <1>1, <1>3 DEF sendOnboardingEmail, Unused, Ask
  <2>3. /\ job'[m] = next /\ call'[m] = "asked"
        /\ sending'[m] = "asked"
        /\ mailed'[m] = mailed[m]
    BY <1>0, <2>2
  <2>4. Awaited(m)' /\ Paid(m)'
    BY <1>0, <1>3, <2>3 DEF sendOnboardingEmail, Unused, Ask, Awaited, Paid, Records, Processors
  <2>5. next.returnvalue = job[m].returnvalue
    BY <1>0 DEF Records
  <2> HIDE DEF next
  <2> QED BY <1>0, <2>1, <2>2, <2>4, <2>5, OneMail
<1>4. ASSUME Accept(m) PROVE EmailInv'
  <2> DEFINE next == job[m]
  <2>1. next \in Records
    BY <1>0, <1>4 DEF Records, Names, States, Filings
  <2>2. /\ job' = [job EXCEPT ![m] = next]
        /\ call' = [call EXCEPT ![m] = call[m]]
        /\ sending' = [sending EXCEPT ![m] = "accepted"]
        /\ mailed' = [mailed EXCEPT ![m] = mailed[m] + 1]
        /\ restarts' = restarts
    BY <1>0, <1>1, <1>4 DEF Accept
  <2>3. /\ job'[m] = next /\ call'[m] = call[m]
        /\ sending'[m] = "accepted"
        /\ mailed'[m] = mailed[m] + 1
    BY <1>0, <2>2
  <2>4. Awaited(m)' /\ Paid(m)'
    BY <1>0, <1>4, <2>3 DEF Accept, Awaited, Paid, Records, Processors
  <2>5. next.returnvalue = job[m].returnvalue
    BY <1>0 DEF Records
  <2> HIDE DEF next
  <2>6. mailed[m] + 1 \in Nat /\ mailed[m] + 1 > 0
    BY <1>0
  <2> QED BY <1>0, <2>1, <2>2, <2>4, <2>5, <2>6, OneMail
<1>5. ASSUME Resolve(m) PROVE EmailInv'
  <2>1. PICK ok \in BOOLEAN :
          /\ ok => sending[m] = "accepted"
          /\ \/ /\ call[m] = "asked" /\ UNCHANGED job
                /\ call' = [call EXCEPT ![m] =
                              IF ResultOf(ok) = "success" THEN "true" ELSE "false"]
             \/ /\ call[m] # "asked" /\ UNCHANGED call
                /\ job' = [job EXCEPT ![m] = Processed(@, ResultOf(ok))]
    BY <1>5 DEF Resolve
  <2> DEFINE result == ResultOf(ok)
             next == Processed(job[m], result)
             answer == IF result = "success" THEN "true" ELSE "false"
  <2>2. /\ result \in {"success", "error"} /\ answer \in {"true", "false"}
        /\ result = "success" => mailed[m] > 0
    BY <1>0, <2>1 DEF ResultOf, Paid
  <2>3. /\ sending' = [sending EXCEPT ![m] = "no"] /\ mailed' = [mailed EXCEPT ![m] = mailed[m]]
        /\ restarts' = restarts /\ sending'[m] = "no" /\ mailed'[m] = mailed[m]
    BY <1>0, <1>1, <1>5 DEF Resolve
  <2>4. CASE call[m] = "asked"
    <3>1. /\ call' = [call EXCEPT ![m] = answer] /\ job' = [job EXCEPT ![m] = job[m]]
          /\ call'[m] = answer /\ job'[m] = job[m]
      BY <1>0, <1>1, <2>1, <2>4
    <3> HIDE DEF answer, result
    <3>2. Awaited(m)' /\ Paid(m)'
      BY <1>0, <1>5, <2>2, <2>3, <2>4, <3>1 DEF Resolve, Awaited, Paid, Records, Processors
    <3>3. answer = "true" => mailed[m] > 0
      BY <2>2 DEF answer
    <3> QED BY <1>0, <2>2, <2>3, <3>1, <3>2, <3>3, OneMail
  <2>5. CASE call[m] # "asked"
    <3>1. /\ job' = [job EXCEPT ![m] = next] /\ call' = [call EXCEPT ![m] = call[m]]
          /\ job'[m] = next /\ call'[m] = call[m]
      BY <1>0, <1>1, <2>1, <2>5
    <3> HIDE DEF answer, result
    <3>2. next \in Records /\ next.returnvalue = result
      BY <1>0, <2>2 DEF Processed, Records, States, Filings
    <3>3. Awaited(m)' /\ Paid(m)'
      BY <1>0, <1>5, <2>3, <2>5, <3>1 DEF Resolve, Awaited, Paid, Records, Processors, Processed
    <3> HIDE DEF next
    <3> QED BY <1>0, <2>2, <2>3, <3>1, <3>2, <3>3, OneMail
  <2> QED BY <2>4, <2>5
<1>6. ASSUME Take(m) PROVE EmailInv'
  <2> DEFINE next == [job[m] EXCEPT !.state = "active"]
  <2>1. next \in Records
    BY <1>0, <1>6 DEF Records, Names, States, Filings
  <2>2. /\ job' = [job EXCEPT ![m] = next]
        /\ call' = [call EXCEPT ![m] = call[m]]
        /\ sending' = [sending EXCEPT ![m] = IF job[m].name \in Processors THEN "asked" ELSE sending[m]]
        /\ mailed' = [mailed EXCEPT ![m] = mailed[m]]
        /\ restarts' = restarts
    BY <1>0, <1>1, <1>6 DEF Take, Move, Ask
  <2>3. /\ job'[m] = next /\ call'[m] = call[m]
        /\ sending'[m] = IF job[m].name \in Processors THEN "asked" ELSE sending[m]
        /\ mailed'[m] = mailed[m]
    BY <1>0, <2>2
  <2>4. Awaited(m)' /\ Paid(m)'
    BY <1>0, <1>6, <2>3 DEF Take, Move, Ask, Awaited, Paid, Records, Processors
  <2>5. next.returnvalue = job[m].returnvalue
    BY <1>0 DEF Records
  <2> HIDE DEF next
  <2> QED BY <1>0, <2>1, <2>2, <2>4, <2>5, OneMail
<1>7. ASSUME Reject(m) PROVE EmailInv'
  <2> DEFINE next == MoveToFailed(job[m])
  <2>1. next \in Records
    <3> DEFINE state == next.state
    <3>1. next = [job[m] EXCEPT !.attemptsMade = job[m].attemptsMade + 1, !.state = state]
      BY <1>0 DEF Records, MoveToFailed
    <3>2. state \in States /\ job[m].attemptsMade + 1 \in Nat
      BY <1>0 DEF Records, States, MoveToFailed
    <3> HIDE DEF next, state
    <3> QED BY <1>0, <3>1, <3>2 DEF Records
  <2>2. /\ job' = [job EXCEPT ![m] = next]
        /\ call' = [call EXCEPT ![m] = call[m]]
        /\ sending' = [sending EXCEPT ![m] = sending[m]]
        /\ mailed' = [mailed EXCEPT ![m] = mailed[m]]
        /\ restarts' = restarts
    BY <1>0, <1>1, <1>7 DEF Reject
  <2>3. /\ job'[m] = next /\ call'[m] = call[m]
        /\ sending'[m] = sending[m]
        /\ mailed'[m] = mailed[m]
    BY <1>0, <2>2
  <2>4. Awaited(m)' /\ Paid(m)'
    BY <1>0, <1>7, <2>3 DEF Reject, Awaited, Paid, Records, Processors, MoveToFailed
  <2>5. next.returnvalue = job[m].returnvalue
    BY <1>0 DEF Records, MoveToFailed
  <2> HIDE DEF next
  <2> QED BY <1>0, <2>1, <2>2, <2>4, <2>5, OneMail
<1>8. ASSUME Promote(m) PROVE EmailInv'
  <2> DEFINE next == [job[m] EXCEPT !.state = "waiting"]
  <2>1. next \in Records
    BY <1>0, <1>8 DEF Records, Names, States, Filings
  <2>2. /\ job' = [job EXCEPT ![m] = next]
        /\ call' = [call EXCEPT ![m] = call[m]]
        /\ sending' = [sending EXCEPT ![m] = sending[m]]
        /\ mailed' = [mailed EXCEPT ![m] = mailed[m]]
        /\ restarts' = restarts
    BY <1>0, <1>1, <1>8 DEF Promote, Move
  <2>3. /\ job'[m] = next /\ call'[m] = call[m]
        /\ sending'[m] = sending[m]
        /\ mailed'[m] = mailed[m]
    BY <1>0, <2>2
  <2>4. Awaited(m)' /\ Paid(m)'
    BY <1>0, <1>8, <2>3 DEF Promote, Move, Awaited, Paid, Records, Processors
  <2>5. next.returnvalue = job[m].returnvalue
    BY <1>0 DEF Records
  <2> HIDE DEF next
  <2> QED BY <1>0, <2>1, <2>2, <2>4, <2>5, OneMail
<1>9. ASSUME CheckStalled(m) PROVE EmailInv'
  <2> DEFINE next == MoveStalled(job[m])
  <2>1. next \in Records
    <3> DEFINE state == next.state
    <3>1. next = [job[m] EXCEPT !.stalledCount = job[m].stalledCount + 1, !.state = state]
      BY <1>0 DEF Records, MoveStalled
    <3>2. state \in States /\ job[m].stalledCount + 1 \in Nat
      BY <1>0 DEF Records, States, MoveStalled
    <3> HIDE DEF next, state
    <3> QED BY <1>0, <3>1, <3>2 DEF Records
  <2>2. /\ job' = [job EXCEPT ![m] = next]
        /\ call' = [call EXCEPT ![m] = call[m]]
        /\ sending' = [sending EXCEPT ![m] = sending[m]]
        /\ mailed' = [mailed EXCEPT ![m] = mailed[m]]
        /\ restarts' = restarts
    BY <1>0, <1>1, <1>9 DEF CheckStalled
  <2>3. /\ job'[m] = next /\ call'[m] = call[m]
        /\ sending'[m] = sending[m]
        /\ mailed'[m] = mailed[m]
    BY <1>0, <2>2
  <2>4. Awaited(m)' /\ Paid(m)'
    BY <1>0, <1>9, <2>3 DEF CheckStalled, Awaited, Paid, Records, Processors, MoveStalled
  <2>5. next.returnvalue = job[m].returnvalue
    BY <1>0 DEF Records, MoveStalled
  <2> HIDE DEF next
  <2> QED BY <1>0, <2>1, <2>2, <2>4, <2>5, OneMail
<1> QED BY <1>2, <1>3, <1>4, <1>5, <1>6, <1>7, <1>8, <1>9

LEMMA EmailRestartKeeps ==
  ASSUME EmailInv, EmailRestart
  PROVE  EmailInv'
<1>1. \A m \in Mails :
        /\ job'[m] = IF job[m].state = "active" THEN [job[m] EXCEPT !.state = "stalled"]
                     ELSE job[m]
        /\ call'[m] = IF call[m] = "asked" THEN "lost" ELSE call[m]
        /\ sending'[m] = "no" /\ mailed'[m] = mailed[m]
  BY DEF EmailRestart
<1>2. EmailTypeOK'
  BY <1>1, LimitsAssumption
  DEF EmailInv, EmailTypeOK, EmailRestart, Records, States
<1>3. ASSUME NEW m \in Mails PROVE Awaited(m)' /\ Paid(m)'
  <2>1. /\ job[m] \in Records /\ Awaited(m) /\ Paid(m)
    BY DEF EmailInv, EmailTypeOK
  <2>2. /\ job'[m].name = job[m].name /\ job'[m].attemptsMade = job[m].attemptsMade
        /\ job'[m].stalledCount = job[m].stalledCount
        /\ job'[m].state = IF job[m].state = "active" THEN "stalled" ELSE job[m].state
    BY <1>1, <2>1 DEF Records
  <2> QED BY <1>1, <2>1, <2>2 DEF Awaited, Paid, Records
<1>4. SuccessIsDelivered'
  BY <1>1 DEF EmailInv, EmailTypeOK, Records, SuccessIsDelivered
<1> QED BY <1>2, <1>3, <1>4 DEF EmailInv

LEMMA EmailStutters ==
  ASSUME EmailInv, UNCHANGED emailVars
  PROVE  EmailInv'
BY DEF emailVars, EmailInv, EmailTypeOK, Awaited, Paid, SuccessIsDelivered

-----------------------------------------------------------------------------
LEMMA SocketInitially == SocketInit => SocketInv
<1> SUFFICES ASSUME SocketInit PROVE SocketInv
  OBVIOUS
<1>1. Open = {} /\ rooms \in [{} -> SUBSET RoomNames] /\ told \in [{} -> SUBSET RoomNames]
  BY DEF SocketInit, Open
<1> QED
  BY <1>1 DEF SocketInit, SocketInv, SocketTypeOK, Silence, HearsTheOthers, RoomTraffic

LEMMA SocketStepKeeps ==
  ASSUME SocketInv, SocketStep
  PROVE  SocketInv'
<1>0. SocketTypeOK /\ connectedClients = Open
  BY DEF SocketInv
<1> USE DEF Open, RoomNames
<1>1. ASSUME NEW s \in Sockets, handleConnection(s) PROVE SocketInv'
  BY <1>0, <1>1, RoomsAssumption
  DEF handleConnection, SocketInv, SocketTypeOK, Roomed, Silence, HearsTheOthers, RoomTraffic
<1>2. ASSUME NEW s \in Sockets, Disconnect(s) PROVE SocketInv'
  BY <1>0, <1>2
  DEF Disconnect, handleDisconnect, SocketInv, SocketTypeOK, Roomed, Silence, HearsTheOthers, RoomTraffic
<1>3. ASSUME NEW s \in Sockets, NEW room \in RoomNames, handleJoinRoom(s, room)
      PROVE  SocketInv'
  <2>1. /\ rooms' = [rooms EXCEPT ![s] = @ \cup {room}] /\ rooms \in [Open -> SUBSET RoomNames]
        /\ told' = [told EXCEPT ![s] = @ \cup {room}] /\ told \in [Open -> SUBSET RoomNames]
    BY <1>0, <1>3 DEF handleJoinRoom, SocketTypeOK
  <2>2. rooms' \in [Open -> SUBSET RoomNames] /\ told' \in [Open -> SUBSET RoomNames]
    BY <2>1
  <2>3. Open' = Open
    BY <2>2
  <2>4. SocketTypeOK' /\ connectedClients' = Open'
    BY <1>0, <1>3, <2>2, <2>3 DEF handleJoinRoom, SocketTypeOK, Silence
  <2>5. ASSUME NEW c \in Open PROVE Roomed(c)'
    <3>1. Roomed(c) /\ gaveUp' = gaveUp \ ({s} \cap {room})
      BY <1>3 DEF SocketInv, handleJoinRoom
    <3>2. CASE c = s
      <4>1. rooms'[c] = rooms[c] \cup {room} /\ told'[c] = told[c] \cup {room}
        BY <2>1, <3>2
      <4> QED BY <3>1, <3>2, <4>1 DEF Roomed
    <3>3. CASE c # s
      <4>1. rooms'[c] = rooms[c] /\ told'[c] = told[c]
        BY <2>1, <3>3
      <4> QED BY <3>1, <3>3, <4>1 DEF Roomed
    <3> QED BY <3>2, <3>3
  <2>6. HearsTheOthers' /\ RoomTraffic'
    BY <1>3 DEF handleJoinRoom, Silence, HearsTheOthers, RoomTraffic
  <2> QED BY <2>3, <2>4, <2>5, <2>6 DEF SocketInv
<1>4. ASSUME NEW s \in Sockets, NEW room \in RoomNames, handleLeaveRoom(s, room)
      PROVE  SocketInv'
  <2>1. /\ rooms' = [rooms EXCEPT ![s] = @ \ {room}] /\ rooms \in [Open -> SUBSET RoomNames]
        /\ told' = [told EXCEPT ![s] = @ \ {room}] /\ told \in [Open -> SUBSET RoomNames]
    BY <1>0, <1>4 DEF handleLeaveRoom, SocketTypeOK
  <2>2. rooms' \in [Open -> SUBSET RoomNames] /\ told' \in [Open -> SUBSET RoomNames]
    BY <2>1
  <2>3. Open' = Open
    BY <2>2
  <2>4. SocketTypeOK' /\ connectedClients' = Open'
    BY <1>0, <1>4, <2>2, <2>3 DEF handleLeaveRoom, SocketTypeOK, Silence
  <2>5. ASSUME NEW c \in Open PROVE Roomed(c)'
    <3>1. Roomed(c) /\ gaveUp' = gaveUp \cup ({s} \cap {room})
      BY <1>4 DEF SocketInv, handleLeaveRoom
    <3>2. CASE c = s
      <4>1. rooms'[c] = rooms[c] \ {room} /\ told'[c] = told[c] \ {room}
        BY <2>1, <3>2
      <4> QED BY <3>1, <3>2, <4>1 DEF Roomed
    <3>3. CASE c # s
      <4>1. rooms'[c] = rooms[c] /\ told'[c] = told[c]
        BY <2>1, <3>3
      <4> QED BY <3>1, <3>3, <4>1 DEF Roomed
    <3> QED BY <3>2, <3>3
  <2>6. HearsTheOthers' /\ RoomTraffic'
    BY <1>4 DEF handleLeaveRoom, Silence, HearsTheOthers, RoomTraffic
  <2> QED BY <2>3, <2>4, <2>5, <2>6 DEF SocketInv
<1>5. ASSUME NEW event \in {"message", "all", "room"}, NEW of \in RoomNames \cup {"nobody"},
             NEW to \in SUBSET Open, Emit(event, of, to),
             event = "message" =>
               to = {c \in connectedClients \ {of} : of \notin told[c]} \cup (gaveUp \cap {of}),
             event = "all" => to = Open,
             event = "room" => to = {c \in Open : of \in told[c] \/ (of = c /\ c \notin gaveUp)}
      PROVE  SocketInv'
  BY <1>0, <1>5 DEF Emit, SocketInv, SocketTypeOK, Roomed, HearsTheOthers, RoomTraffic
<1>6. ASSUME NEW s \in Sockets, handleMessage(s) PROVE SocketInv'
  <2> DEFINE to == {c \in Open : s \notin rooms[c]}
  <2>1. to = {c \in connectedClients \ {s} : s \notin told[c]} \cup (gaveUp \cap {s})
    BY <1>0, <1>6 DEF handleMessage, SocketInv, SocketTypeOK, Roomed
  <2> QED BY <1>5, <1>6, <2>1 DEF handleMessage
<1>7. ASSUME broadcastToAll PROVE SocketInv'
  BY <1>0, <1>5, <1>7 DEF broadcastToAll
<1>8. ASSUME NEW room \in RoomNames, broadcastToRoom(room) PROVE SocketInv'
  <2> DEFINE to == {c \in connectedClients \cap Open : room \in rooms[c]}
  <2>1. to = {c \in Open : room \in told[c] \/ (room = c /\ c \notin gaveUp)}
    BY <1>0 DEF SocketInv, Roomed
  <2> QED BY <1>5, <1>8, <2>1 DEF broadcastToRoom
<1> QED BY <1>1, <1>2, <1>3, <1>4, <1>6, <1>7, <1>8 DEF SocketStep

LEMMA SocketRestartKeeps ==
  ASSUME SocketInv, SocketRestart
  PROVE  SocketInv'
BY DEF SocketRestart, SocketInv, SocketTypeOK, Roomed, Open, Silence, HearsTheOthers, RoomTraffic, RoomNames

LEMMA SocketStutters ==
  ASSUME SocketInv, UNCHANGED socketVars
  PROVE  SocketInv'
BY DEF socketVars, SocketInv, SocketTypeOK, Roomed, Open, HearsTheOthers, RoomTraffic

-----------------------------------------------------------------------------
(* Mails, sockets and what ties them together, on every step.                *)
THEOREM Inductive == Spec => []IndInv
<1>1. Init => IndInv
  BY EmailInitially, SocketInitially DEF Init, IndInv
<1>2. IndInv /\ [Next]_vars => IndInv'
  BY EmailStepKeeps, EmailRestartKeeps, EmailStutters,
     SocketStepKeeps, SocketRestartKeeps, SocketStutters
  DEF IndInv, Next, vars, Restart
<1> QED BY <1>1, <1>2, PTL DEF Spec

(* However many restarts, attempts and stalls: a mail goes out again only    *)
(* for a stall, and never because SendGrid or its client refused it.         *)
THEOREM CopiesTakeAStallAlways == Spec => []CopiesTakeAStall
<1>1. EmailInv => CopiesTakeAStall
  BY DEF EmailInv, Awaited, Paid, CopiesTakeAStall
<1> QED BY <1>1, Inductive, PTL DEF IndInv

(* Nothing is reported as sent that SendGrid has not accepted.               *)
THEOREM SuccessIsDeliveredAlways == Spec => []SuccessIsDelivered
<1>1. IndInv => SuccessIsDelivered
  BY DEF IndInv, EmailInv
<1> QED BY <1>1, Inductive, PTL

(* A message reaches every client but its sender and those told that they    *)
(* are in the sender's own room, for any number of sockets and rooms, across *)
(* restarts, and comes back only to a sender that has left that room.        *)
THEOREM HearsTheOthersAlways == Spec => []HearsTheOthers
<1>1. IndInv => HearsTheOthers
  BY DEF IndInv, SocketInv
<1> QED BY <1>1, Inductive, PTL

(* The service's broadcasts reach whom the clients think they reach, a       *)
(* broadcast to the id of a socket included.                                 *)
THEOREM RoomTrafficAlways == Spec => []RoomTraffic
<1>1. IndInv => RoomTraffic
  BY DEF IndInv, SocketInv
<1> QED BY <1>1, Inductive, PTL
=============================================================================
