---------------------------- MODULE IndexerProofs ----------------------------
(* What holds of the indexer service for every number of batches, events,    *)
(* concurrent requests and faults.                                           *)
EXTENDS Indexer, FiniteSetTheorems, TLAPS

(* What a request has stored so far is stored, and the sink waits only for a *)
(* request about the batch it is at.                                         *)
Progressed(h) ==
  IF At(h, "event")
  THEN /\ messages[handler[h].batch] > 0
       /\ \A i \in 1..Events : i < handler[h].next => events[handler[h].batch][i] > 0
  ELSE handler[h].next = 1

WaitsForIts == sink.waiting # Nobody =>
  handler[sink.waiting] # Free /\ handler[sink.waiting].batch = sink.batch

IndInv == /\ TypeOK
          /\ PassedIsStored
          /\ WaitsForIts
          /\ \A h \in Handlers : Progressed(h)

LEMMA InitEstablishes == Init => IndInv
  <1> SUFFICES ASSUME Init PROVE IndInv
    OBVIOUS
  <1>1. TypeOK
    <2>1. 1 \in 1..(LastBatch + 1) /\ 0 \in 0..MaxFaults
      BY LastBatchAssumption, FaultsAssumption
    <2>2. /\ messages \in [Batches -> Nat] /\ posts \in [Batches -> Nat]
          /\ events \in [Batches -> [1..Events -> Nat]]
          /\ handler \in [Handlers -> Busy \cup {Free}]
      BY DEF Init
    <2> QED BY <2>1, <2>2 DEF Init, TypeOK
  <1>2. PassedIsStored
    BY LastBatchAssumption DEF Init, PassedIsStored, Batches
  <1>3. WaitsForIts
    BY DEF Init, WaitsForIts
  <1>4. \A h \in Handlers : Progressed(h)
    BY DEF Init, Progressed, At, Free
  <1> QED BY <1>1, <1>2, <1>3, <1>4 DEF IndInv

LEMMA BusyHandlers ==
  ASSUME TypeOK, NEW h \in Handlers, NEW pc \in {"look", "save", "event"}, At(h, pc)
  PROVE  handler[h] \in Busy /\ handler[h] # Free
  BY DEF TypeOK, At, Free

(* A step that stores no less than before keeps every request's progress, if *)
(* it keeps its own.                                                         *)
LEMMA ProgressKept ==
  ASSUME IndInv, NEW h \in Handlers, NEW next \in Busy \cup {Free},
         handler' = [handler EXCEPT ![h] = next],
         messages' \in [Batches -> Nat], events' \in [Batches -> [1..Events -> Nat]],
         \A b \in Batches : /\ messages'[b] >= messages[b]
                            /\ \A i \in 1..Events : events'[b][i] >= events[b][i],
         IF next.pc = "event"
         THEN /\ messages'[next.batch] > 0
              /\ \A i \in 1..Events : i < next.next => events'[next.batch][i] > 0
         ELSE next.next = 1
  PROVE  \A q \in Handlers : Progressed(q)'
  <1> SUFFICES ASSUME NEW q \in Handlers PROVE Progressed(q)'
    OBVIOUS
  <1>1. CASE q = h
    BY <1>1 DEF IndInv, TypeOK, Progressed, At
  <1>2. CASE q # h
    <2>1. handler'[q] = handler[q] /\ Progressed(q)
      BY <1>2 DEF IndInv, TypeOK
    <2>2. CASE At(q, "event")
      <3>1. handler[q].batch \in Batches
        BY <2>2, BusyHandlers DEF IndInv, Busy
      <3>2. messages[handler[q].batch] \in Nat /\ messages'[handler[q].batch] \in Nat
        BY <3>1 DEF IndInv, TypeOK
      <3>3. \A i \in 1..Events : /\ events[handler[q].batch][i] \in Nat
                                 /\ events'[handler[q].batch][i] \in Nat
        BY <3>1 DEF IndInv, TypeOK
      <3> QED BY <2>1, <2>2, <3>1, <3>2, <3>3 DEF Progressed, At
    <2>3. CASE ~At(q, "event")
      BY <2>1, <2>3 DEF Progressed, At
    <2> QED BY <2>2, <2>3
  <1> QED BY <1>1, <1>2

(* What was stored stays so.                                                 *)
LEMMA StoredKept ==
  ASSUME IndInv,
         messages' \in [Batches -> Nat], events' \in [Batches -> [1..Events -> Nat]],
         \A b \in Batches : /\ messages'[b] >= messages[b]
                            /\ \A i \in 1..Events : events'[b][i] >= events[b][i]
  PROVE  \A b \in Batches : Stored(b) => Stored(b)'
  <1> SUFFICES ASSUME NEW b \in Batches, Stored(b) PROVE Stored(b)'
    OBVIOUS
  <1>1. messages[b] \in Nat /\ messages'[b] \in Nat
    BY DEF IndInv, TypeOK
  <1>2. \A i \in 1..Events : events[b][i] \in Nat /\ events'[b][i] \in Nat
    BY DEF IndInv, TypeOK
  <1> QED BY <1>1, <1>2 DEF Stored
-----------------------------------------------------------------------------
(* The steps of the sink                                                     *)

(* The guard answers a post without a token, and nothing has happened.       *)
LEMMA RefusedPost ==
  ASSUME NEW h \in Handlers, Post(h), ~AuthGuard
  PROVE  UNCHANGED vars
  BY DEF Post, vars

(* The sink's token comes and goes, and nothing else changes.                *)
LEMMA OnlyTheToken ==
  ASSUME Authorize \/ Expire
  PROVE  /\ bearer' \in BOOLEAN
         /\ UNCHANGED <<uniqueKey, cursors, messages, events, handler, sink, posts, faults>>
  BY DEF Authorize, Expire

LEMMA PostKeeps ==
  ASSUME IndInv, NEW h \in Handlers, Post(h), AuthGuard
  PROVE  IndInv'
  <1> DEFINE next == Request(sink.batch)
  <1>1. /\ next \in Busy /\ next # Free /\ next.pc = "look" /\ next.batch = sink.batch
        /\ next.next = 1
        /\ handler' = [handler EXCEPT ![h] = next]
    <2>1. sink.batch \in Batches /\ {} \in SUBSET OrderKeys /\ 1 \in 1..(Events + 1)
      BY EventsAssumption DEF Post
    <2>2. next \in Busy
      BY <2>1 DEF Busy, Request
    <2>3. handler' = [handler EXCEPT ![h] = next]
      BY DEF Post
    <2> QED BY <2>2, <2>3 DEF Free, Request
  <1> HIDE DEF next
  <1>2. TypeOK'
    <2>1. posts' \in [Batches -> Nat]
      <3>1. sink.batch \in Batches /\ posts' = [posts EXCEPT ![sink.batch] = @ + 1]
        BY DEF Post
      <3> QED BY <3>1 DEF IndInv, TypeOK
    <2>2. sink' \in [batch : 1..(LastBatch + 1), waiting : Handlers \cup {Nobody}]
      BY DEF IndInv, TypeOK, Post
    <2>3. handler' \in [Handlers -> Busy \cup {Free}]
      BY <1>1 DEF IndInv, TypeOK
    <2> QED BY <2>1, <2>2, <2>3 DEF IndInv, TypeOK, Post
  <1>3. PassedIsStored'
    BY DEF IndInv, TypeOK, PassedIsStored, Stored, Post
  <1>4. WaitsForIts'
    BY <1>1, NobodyAssumption DEF IndInv, TypeOK, WaitsForIts, Post
  <1>5. ASSUME NEW q \in Handlers PROVE Progressed(q)'
    <2>1. CASE q = h
      BY <1>1, <2>1 DEF IndInv, TypeOK, Progressed, At
    <2>2. CASE q # h
      <3>1. handler'[q] = handler[q]
        BY <1>1, <2>2 DEF IndInv, TypeOK
      <3> QED BY <3>1 DEF IndInv, Progressed, At, Post
    <2> QED BY <2>1, <2>2
  <1> QED BY <1>2, <1>3, <1>4, <1>5 DEF IndInv

LEMMA GiveUpKeeps ==
  ASSUME IndInv, Timeout \/ Restart
  PROVE  IndInv'
  <1>1. PICK b \in 1..sink.batch : sink' = [batch |-> b, waiting |-> Nobody]
    BY DEF Timeout, Restart, IndInv, TypeOK
  <1>2. /\ b \in 1..(LastBatch + 1) /\ sink'.batch = b /\ b <= sink.batch
        /\ sink' \in [batch : 1..(LastBatch + 1), waiting : Handlers \cup {Nobody}]
    BY <1>1, LastBatchAssumption DEF IndInv, TypeOK
  <1>3. TypeOK'
    <2>1. faults' \in 0..MaxFaults
      BY FaultsAssumption DEF IndInv, TypeOK, Timeout, Restart, Fault
    <2> QED BY <1>2, <2>1 DEF IndInv, TypeOK, Timeout, Restart
  <1>4. PassedIsStored'
    <2> SUFFICES ASSUME NEW c \in Batches, c < b PROVE Stored(c)
      BY <1>2 DEF PassedIsStored, Stored, Timeout, Restart
    <2>1. c < sink.batch
      BY <1>2, LastBatchAssumption DEF IndInv, TypeOK, Batches
    <2> QED BY <2>1 DEF IndInv, PassedIsStored
  <1>5. WaitsForIts'
    BY <1>1 DEF WaitsForIts
  <1>6. \A q \in Handlers : Progressed(q)'
    BY DEF IndInv, Progressed, At, Timeout, Restart
  <1> QED BY <1>3, <1>4, <1>5, <1>6 DEF IndInv

(* A response, which moves the sink on only when its batch is stored.        *)
LEMMA RespondKeeps ==
  ASSUME IndInv, NEW h \in Handlers, handler[h] \in Busy, NEW ok \in BOOLEAN,
         Respond(h, ok), ok => Stored(handler[h].batch),
         UNCHANGED <<uniqueKey, bearer, cursors, messages, events, posts>>,
         faults' \in 0..MaxFaults
  PROVE  IndInv'
  <1>1. /\ sink'.batch \in 1..(LastBatch + 1)
        /\ sink' \in [batch : 1..(LastBatch + 1), waiting : Handlers \cup {Nobody}]
        /\ sink' = sink \/ sink'.waiting = Nobody
        /\ \/ sink'.batch = sink.batch
           \/ sink'.batch = sink.batch + 1 /\ sink.waiting = h /\ ok
    <2>1. CASE sink.waiting # h
      BY <2>1 DEF Respond, IndInv, TypeOK
    <2>2. CASE sink.waiting = h
      <3>1. handler[h].batch = sink.batch /\ sink.batch \in 1..LastBatch
        BY <2>2, NobodyAssumption DEF IndInv, WaitsForIts, Busy, Batches
      <3> QED BY <2>2, <3>1, LastBatchAssumption DEF Respond, IndInv, TypeOK
    <2> QED BY <2>1, <2>2
  <1>2. TypeOK'
    BY <1>1 DEF IndInv, TypeOK, Respond
  <1>3. PassedIsStored'
    <2> SUFFICES ASSUME NEW b \in Batches, b < sink'.batch PROVE Stored(b)
      BY DEF PassedIsStored, Stored
    <2>1. CASE b < sink.batch
      BY <2>1 DEF IndInv, PassedIsStored
    <2>2. CASE ~(b < sink.batch)
      <3>1. sink.waiting = h /\ ok /\ b = sink.batch
        BY <1>1, <2>2 DEF IndInv, TypeOK, Batches
      <3>2. handler[h].batch = sink.batch
        BY <3>1, NobodyAssumption DEF IndInv, WaitsForIts
      <3> QED BY <3>1, <3>2
    <2> QED BY <2>1, <2>2
  <1>4. WaitsForIts'
    <2> SUFFICES ASSUME sink'.waiting # Nobody
                 PROVE  handler'[sink'.waiting] # Free /\
                        handler'[sink'.waiting].batch = sink'.batch
      BY DEF WaitsForIts
    <2>1. sink' = sink /\ sink.waiting # h /\ sink.waiting \in Handlers
      BY <1>1 DEF Respond, IndInv, TypeOK
    <2>2. handler'[sink.waiting] = handler[sink.waiting]
      BY <2>1 DEF Respond, IndInv, TypeOK
    <2> QED BY <2>1, <2>2 DEF IndInv, WaitsForIts
  <1>5. \A q \in Handlers : Progressed(q)'
    BY DEF IndInv, TypeOK, Progressed, At, Respond, Free
  <1> QED BY <1>2, <1>3, <1>4, <1>5 DEF IndInv

-----------------------------------------------------------------------------
(* The steps of the webhook                                                  *)

(* A step of a handler that does not answer yet and stores no less.          *)
LEMMA WorkKeeps ==
  ASSUME IndInv, NEW h \in Handlers, NEW next \in Busy,
         handler[h] \in Busy, next.batch = handler[h].batch, next.pc # "free",
         handler' = [handler EXCEPT ![h] = next],
         cursors' \subseteq OrderKeys,
         messages' \in [Batches -> Nat], events' \in [Batches -> [1..Events -> Nat]],
         \A b \in Batches : /\ messages'[b] >= messages[b]
                            /\ \A i \in 1..Events : events'[b][i] >= events[b][i],
         IF next.pc = "event"
         THEN /\ messages'[next.batch] > 0
              /\ \A i \in 1..Events : i < next.next => events'[next.batch][i] > 0
         ELSE next.next = 1,
         UNCHANGED <<uniqueKey, bearer, sink, posts, faults>>
  PROVE  IndInv'
  <1>1. TypeOK'
    BY DEF IndInv, TypeOK
  <1>2. PassedIsStored'
    BY StoredKept DEF IndInv, PassedIsStored
  <1>3. WaitsForIts'
    BY DEF IndInv, TypeOK, WaitsForIts, Free
  <1>4. \A q \in Handlers : Progressed(q)'
    BY ProgressKept
  <1> QED BY <1>1, <1>2, <1>3, <1>4 DEF IndInv

LEMMA LookUpKeeps ==
  ASSUME IndInv, NEW h \in Handlers, LookUpCursors(h)
  PROVE  IndInv'
  <1> DEFINE next == [handler[h] EXCEPT !.pc = "save",
                                        !.missing = Cursors(handler[h].batch) \ cursors]
  <1>1. handler[h] \in Busy
    BY BusyHandlers DEF IndInv, LookUpCursors
  <1>2. Cursors(handler[h].batch) \ cursors \subseteq OrderKeys
    BY <1>1, LastBatchAssumption DEF Busy, Cursors, OrderKeys, Batches
  <1>3. /\ next \in Busy /\ next.pc = "save" /\ next.batch = handler[h].batch
        /\ next.next = 1 /\ handler' = [handler EXCEPT ![h] = next]
    BY <1>1, <1>2 DEF LookUpCursors, IndInv, TypeOK, Busy, Progressed, At
  <1>4. \A b \in Batches : /\ messages[b] \in Nat
                           /\ \A i \in 1..Events : events[b][i] \in Nat
    BY DEF IndInv, TypeOK
  <1> HIDE DEF next
  <1>5. /\ cursors' \subseteq OrderKeys
        /\ messages' \in [Batches -> Nat] /\ events' \in [Batches -> [1..Events -> Nat]]
        /\ \A b \in Batches : /\ messages'[b] >= messages[b]
                              /\ \A i \in 1..Events : events'[b][i] >= events[b][i]
    BY <1>4 DEF IndInv, TypeOK, LookUpCursors
  <1> QED BY <1>1, <1>3, <1>5, WorkKeeps DEF LookUpCursors

LEMMA CreateMessageKeeps ==
  ASSUME IndInv, NEW h \in Handlers, CreateMessage(h)
  PROVE  IndInv'
  <1> DEFINE b == handler[h].batch
             next == [handler[h] EXCEPT !.pc = "event", !.missing = {}]
  <1>1. handler[h] \in Busy
    BY BusyHandlers DEF IndInv, CreateMessage
  <1>2. CASE ~IndexesAllow(handler[h].missing)
    <2>1. /\ faults' \in 0..MaxFaults
          /\ UNCHANGED <<uniqueKey, bearer, cursors, messages, events, posts>>
      BY <1>2 DEF IndInv, TypeOK, CreateMessage
    <2>2. Respond(h, FALSE)
      BY <1>2 DEF CreateMessage
    <2> QED BY <1>1, <2>1, <2>2, RespondKeeps
  <1>3. CASE IndexesAllow(handler[h].missing)
    <2>1. /\ cursors' = cursors \cup handler[h].missing
          /\ messages' = [messages EXCEPT ![b] = @ + 1]
          /\ UNCHANGED <<uniqueKey, bearer, events, sink, posts, faults>>
      BY <1>3 DEF CreateMessage
    <2>2. /\ next \in Busy /\ next.pc = "event" /\ next.batch = b /\ next.next = handler[h].next
          /\ handler' = [handler EXCEPT ![h] = next]
      BY <1>1, <1>3 DEF CreateMessage, IndInv, TypeOK, Busy
    <2>3. handler[h].next = 1 /\ b \in Batches
      BY <1>1 DEF IndInv, Progressed, CreateMessage, At, Busy
    <2>4. /\ cursors' \subseteq OrderKeys
          /\ messages' \in [Batches -> Nat] /\ events' \in [Batches -> [1..Events -> Nat]]
          /\ messages'[b] > 0
          /\ \A c \in Batches : /\ messages'[c] >= messages[c]
                                /\ \A i \in 1..Events : events'[c][i] >= events[c][i]
      <3>1. cursors' \subseteq OrderKeys
        BY <1>1, <2>1 DEF IndInv, TypeOK, Busy
      <3>2. messages' \in [Batches -> Nat] /\ messages[b] \in Nat /\ messages'[b] = messages[b] + 1
        BY <2>1, <2>3 DEF IndInv, TypeOK
      <3>3. \A c \in Batches : messages'[c] >= messages[c]
        BY <2>1, <2>3 DEF IndInv, TypeOK
      <3>4. \A c \in Batches : \A i \in 1..Events : events[c][i] \in Nat
        BY DEF IndInv, TypeOK
      <3> QED BY <2>1, <3>1, <3>2, <3>3, <3>4 DEF IndInv, TypeOK
    <2>5. \A i \in 1..Events : ~(i < next.next)
      BY <2>2, <2>3
    <2>6. next.batch = handler[h].batch
      BY <2>2
    <2> HIDE DEF next
    <2> QED BY <1>1, <2>1, <2>2, <2>4, <2>5, <2>6, WorkKeeps
  <1> QED BY <1>2, <1>3

LEMMA processEventKeeps ==
  ASSUME IndInv, NEW h \in Handlers, processEvent(h)
  PROVE  IndInv'
  <1> DEFINE b == handler[h].batch
             k == handler[h].next
             next == [handler[h] EXCEPT !.next = @ + 1]
  <1>1. handler[h] \in Busy
    BY BusyHandlers DEF IndInv, processEvent
  <1>2. b \in Batches /\ k \in 1..Events
    BY <1>1 DEF Busy, processEvent
  <1>3. next \in Busy /\ next.pc = "event" /\ next.batch = handler[h].batch /\ next.next = k + 1
    BY <1>1, <1>2, EventsAssumption DEF Busy, processEvent, At
  <1>4. handler' = [handler EXCEPT ![h] = next]
    BY DEF processEvent, IndInv, TypeOK
  <1>5. events' = [events EXCEPT ![b] = [events[b] EXCEPT ![k] = @ + 1]] /\ messages' = messages
    BY DEF processEvent
  <1>6. \A c \in Batches : messages[c] \in Nat /\ \A i \in 1..Events : events[c][i] \in Nat
    BY DEF IndInv, TypeOK
  <1> DEFINE row == [events[b] EXCEPT ![k] = @ + 1]
  <1>7. /\ row \in [1..Events -> Nat] /\ row[k] = events[b][k] + 1
         /\ \A i \in 1..Events : i # k => row[i] = events[b][i]
    <2>1. events[b] \in [1..Events -> Nat]
      BY <1>2 DEF IndInv, TypeOK
    <2>2. events[b][k] + 1 \in Nat
      BY <1>2, <1>6
    <2> QED BY <1>2, <2>1, <2>2
  <1>8. events' = [events EXCEPT ![b] = row]
    BY <1>5
  <1> HIDE DEF row
  <1>9. events'[b] = row /\ \A c \in Batches : c # b => events'[c] = events[c]
    BY <1>2, <1>8 DEF IndInv, TypeOK
  <1>10. \A c \in Batches : /\ messages'[c] >= messages[c]
                           /\ \A i \in 1..Events : events'[c][i] >= events[c][i]
    BY <1>2, <1>5, <1>6, <1>7, <1>9
  <1>11. events' \in [Batches -> [1..Events -> Nat]] /\ messages' \in [Batches -> Nat]
    <2>1. row \in [1..Events -> Nat]
      BY <1>7
    <2>2. events \in [Batches -> [1..Events -> Nat]] /\ messages \in [Batches -> Nat]
      BY DEF IndInv, TypeOK
    <2> HIDE DEF b
    <2> QED BY <1>5, <1>8, <2>1, <2>2
  <1>12. messages'[b] > 0 /\ \A i \in 1..Events : i < k + 1 => events'[b][i] > 0
    <2>1. messages[b] > 0 /\ \A i \in 1..Events : i < k => events[b][i] > 0
      BY DEF IndInv, Progressed, processEvent
    <2>2. events'[b][k] > 0
      BY <1>2, <1>6, <1>7, <1>9
    <2>3. ASSUME NEW i \in 1..Events, i < k + 1, i # k PROVE events'[b][i] > 0
      <3>1. events'[b][i] = events[b][i] /\ i < k
        BY <1>2, <1>7, <1>9, <2>3
      <3> QED BY <2>1, <3>1
    <2> QED BY <1>5, <2>1, <2>2, <2>3
  <1>13. cursors' \subseteq OrderKeys /\ UNCHANGED <<uniqueKey, bearer, sink, posts, faults>>
    BY DEF processEvent, IndInv, TypeOK
  <1> HIDE DEF next
  <1> QED BY <1>1, <1>3, <1>4, <1>10, <1>11, <1>12, <1>13, WorkKeeps

LEMMA ProcessedKeeps ==
  ASSUME IndInv, NEW h \in Handlers, MessageProcessed(h)
  PROVE  IndInv'
  <1>1. handler[h] \in Busy
    BY BusyHandlers DEF IndInv, MessageProcessed
  <1>2. Stored(handler[h].batch)
    BY <1>1, EventsAssumption DEF IndInv, Progressed, MessageProcessed, Stored, Busy
  <1>3. /\ Respond(h, TRUE) /\ faults' \in 0..MaxFaults
        /\ UNCHANGED <<uniqueKey, bearer, cursors, messages, events, posts>>
    BY DEF MessageProcessed, IndInv, TypeOK
  <1> QED BY <1>1, <1>2, <1>3, RespondKeeps

LEMMA CallFailsKeeps ==
  ASSUME IndInv, NEW h \in Handlers, CallFails(h)
  PROVE  IndInv'
  <1>1. handler[h] \in Busy
    BY BusyHandlers DEF IndInv, CallFails
  <1>2. faults' \in 0..MaxFaults
    BY FaultsAssumption DEF IndInv, TypeOK, CallFails, Fault
  <1>3. Respond(h, FALSE) /\ UNCHANGED <<uniqueKey, bearer, cursors, messages, events, posts>>
    BY DEF CallFails
  <1> QED BY <1>1, <1>2, <1>3, RespondKeeps

LEMMA NextKeeps == IndInv /\ [Next]_vars => IndInv'
  <1> SUFFICES ASSUME IndInv, [Next]_vars PROVE IndInv'
    OBVIOUS
  <1>1. CASE Timeout \/ Restart
    BY <1>1, GiveUpKeeps
  <1>2. ASSUME NEW h \in Handlers, Post(h), AuthGuard PROVE IndInv'
    BY <1>2, PostKeeps
  <1>3. ASSUME NEW h \in Handlers, consumeIndexerMsg(h) PROVE IndInv'
    BY <1>3, LookUpKeeps, CreateMessageKeeps, processEventKeeps, ProcessedKeeps
       DEF consumeIndexerMsg
  <1>4. ASSUME NEW h \in Handlers, CallFails(h) PROVE IndInv'
    BY <1>4, CallFailsKeeps
  <1>5. ASSUME bearer' \in BOOLEAN,
               UNCHANGED <<uniqueKey, cursors, messages, events, handler, sink, posts, faults>>
        PROVE  IndInv'
    BY <1>5 DEF IndInv, TypeOK, PassedIsStored, Stored, WaitsForIts, Progressed, At
  <1>6. CASE UNCHANGED vars
    BY <1>5, <1>6 DEF vars, IndInv, TypeOK
  <1>7. CASE Authorize \/ Expire
    BY <1>5, <1>7, OnlyTheToken
  <1>8. ASSUME NEW h \in Handlers, Post(h) PROVE IndInv'
    BY <1>2, <1>6, <1>8, RefusedPost
  <1> QED BY <1>1, <1>3, <1>4, <1>6, <1>7, <1>8 DEF Next

(* The tables, the requests and the sink keep their types.                   *)
THEOREM TypeCorrect == Spec => []TypeOK
  <1>1. IndInv => TypeOK
    BY DEF IndInv
  <1> QED BY <1>1, InitEstablishes, NextKeeps, PTL DEF Spec

(* Whatever fails, times out or is posted again, a batch the sink has moved  *)
(* past is stored with all its events.                                       *)
THEOREM PassedAlwaysStored == Spec => []PassedIsStored
  <1>1. IndInv => PassedIsStored
    BY DEF IndInv
  <1> QED BY <1>1, InitEstablishes, NextKeeps, PTL DEF Spec

-----------------------------------------------------------------------------
(* What has been stored against what the open requests have still to store.  *)

IsAt(call, b, i) == call.pc = "event" /\ call.batch = b /\ call.next = i
Owes(call, b, i) == call.pc # "free" /\ call.batch = b /\ (call.pc = "event" => call.next <= i)

AboutTo(b, i) == {h \in Handlers : IsAt(handler[h], b, i)}
YetTo(b, i)   == {h \in Handlers : Owes(handler[h], b, i)}

(* What the i-th event of a batch is stored after.                           *)
Before(b, i) == IF i = 1 THEN messages[b] ELSE events[b][i - 1]

(* A request that is about to store an event has stored the one before it,   *)
(* so the rows of the one before outnumber the rows of the event itself by   *)
(* at least those requests.                                                  *)
Prefixes == \A b \in Batches : \A i \in 1..Events :
              events[b][i] + Cardinality(AboutTo(b, i)) <= Before(b, i)

(* Each post of a batch has stored an event, will store it yet, or failed.   *)
Posted == \A b \in Batches : \A i \in 1..Events :
            events[b][i] + Cardinality(YetTo(b, i)) <= posts[b]

(* The cursors a request has found missing are all that its batch lacks.     *)
CursorsFound == /\ \A b \in Batches : messages[b] > 0 => Cursors(b) \subseteq cursors
                /\ \A h \in Handlers : At(h, "save") =>
                     Cursors(handler[h].batch) \subseteq cursors \cup handler[h].missing

CountInv == IndInv /\ Prefixes /\ Posted /\ CursorsFound

One(p) == IF p THEN 1 ELSE 0
AtOne(call, b, i)   == IF IsAt(call, b, i) THEN 1 ELSE 0
OwesOne(call, b, i) == IF Owes(call, b, i) THEN 1 ELSE 0

(* Two sets of requests that differ in one request at most.                  *)
LEMMA OneMoves ==
  ASSUME NEW S \in SUBSET Handlers, NEW T \in SUBSET Handlers, NEW h \in Handlers,
         \A q \in Handlers : q # h => (q \in S <=> q \in T)
  PROVE  /\ Cardinality(S) \in Nat /\ Cardinality(T) \in Nat
         /\ Cardinality(T) + One(h \in S) = Cardinality(S) + One(h \in T)
  <1>1. /\ IsFiniteSet(S) /\ IsFiniteSet(T)
        /\ Cardinality(S) \in Nat /\ Cardinality(T) \in Nat
    BY HandlersAssumption, FS_Subset, FS_CardinalityType
  <1>2. CASE h \in S <=> h \in T
    <2>1. S = T
      BY <1>2
    <2> QED BY <1>1, <2>1 DEF One
  <1>3. CASE h \in S /\ h \notin T
    <2>1. T = S \ {h}
      BY <1>3
    <2>2. Cardinality(T) = Cardinality(S) - 1
      BY <1>1, <1>3, <2>1, FS_RemoveElement
    <2> QED BY <1>1, <1>3, <2>2 DEF One
  <1>4. CASE h \notin S /\ h \in T
    <2>1. S = T \ {h}
      BY <1>4
    <2>2. Cardinality(S) = Cardinality(T) - 1
      BY <1>1, <1>4, <2>1, FS_RemoveElement
    <2> QED BY <1>1, <1>4, <2>2 DEF One
  <1> QED BY <1>2, <1>3, <1>4

(* What a step must do to the rows for what its request is about to do.      *)
LEMMA CountsKept ==
  ASSUME CountInv, IndInv', NEW h \in Handlers, NEW next, handler' = [handler EXCEPT ![h] = next],
         \A b \in Batches : \A i \in 1..Events :
           /\ events'[b][i] + AtOne(next, b, i) + Before(b, i)
                <= events[b][i] + AtOne(handler[h], b, i) + Before(b, i)'
           /\ events'[b][i] + OwesOne(next, b, i) + posts[b]
                <= events[b][i] + OwesOne(handler[h], b, i) + posts'[b]
  PROVE  Prefixes' /\ Posted'
  <1> SUFFICES ASSUME NEW b \in Batches, NEW i \in 1..Events
               PROVE  /\ events'[b][i] + Cardinality(AboutTo(b, i)') <= Before(b, i)'
                      /\ events'[b][i] + Cardinality(YetTo(b, i)') <= posts'[b]
    BY DEF Prefixes, Posted
  <1>1. /\ events[b][i] \in Nat /\ events'[b][i] \in Nat
        /\ posts[b] \in Nat /\ posts'[b] \in Nat
        /\ Before(b, i) \in Nat /\ Before(b, i)' \in Nat
    <2>1. /\ events \in [Batches -> [1..Events -> Nat]] /\ messages \in [Batches -> Nat]
          /\ events' \in [Batches -> [1..Events -> Nat]] /\ messages' \in [Batches -> Nat]
          /\ posts \in [Batches -> Nat] /\ posts' \in [Batches -> Nat]
      BY DEF CountInv, IndInv, TypeOK
    <2>2. i # 1 => i - 1 \in 1..Events
      BY EventsAssumption
    <2>3. /\ events[b][i] \in Nat /\ events'[b][i] \in Nat
          /\ posts[b] \in Nat /\ posts'[b] \in Nat
          /\ messages[b] \in Nat /\ messages'[b] \in Nat
          /\ i # 1 => events[b][i - 1] \in Nat /\ events'[b][i - 1] \in Nat
      BY <2>1, <2>2
    <2> QED BY <2>3 DEF Before
  <1>2. /\ events[b][i] + Cardinality(AboutTo(b, i)) <= Before(b, i)
        /\ events[b][i] + Cardinality(YetTo(b, i)) <= posts[b]
    BY DEF CountInv, Prefixes, Posted
  <1>3. /\ handler'[h] = next
        /\ \A q \in Handlers : q # h => handler'[q] = handler[q]
    BY DEF CountInv, IndInv, TypeOK
  <1>6. PICK S, T : S = AboutTo(b, i) /\ T = AboutTo(b, i)'
    OBVIOUS
  <1>7. /\ S \in SUBSET Handlers /\ T \in SUBSET Handlers
        /\ \A q \in Handlers : q # h => (q \in S <=> q \in T)
        /\ (h \in S <=> IsAt(handler[h], b, i)) /\ (h \in T <=> IsAt(next, b, i))
    BY <1>3, <1>6 DEF AboutTo, IsAt
  <1>8. PICK U, V : U = YetTo(b, i) /\ V = YetTo(b, i)'
    OBVIOUS
  <1>9. /\ U \in SUBSET Handlers /\ V \in SUBSET Handlers
        /\ \A q \in Handlers : q # h => (q \in U <=> q \in V)
        /\ (h \in U <=> Owes(handler[h], b, i)) /\ (h \in V <=> Owes(next, b, i))
    BY <1>3, <1>8 DEF YetTo, Owes
  <1>10. /\ Cardinality(S) \in Nat /\ Cardinality(T) \in Nat
         /\ Cardinality(T) + AtOne(handler[h], b, i) = Cardinality(S) + AtOne(next, b, i)
    <2>1. /\ Cardinality(S) \in Nat /\ Cardinality(T) \in Nat
          /\ Cardinality(T) + One(h \in S) = Cardinality(S) + One(h \in T)
      BY <1>7, OneMoves
    <2> QED BY <1>7, <2>1 DEF One, AtOne
  <1>11. /\ Cardinality(U) \in Nat /\ Cardinality(V) \in Nat
         /\ Cardinality(V) + OwesOne(handler[h], b, i) = Cardinality(U) + OwesOne(next, b, i)
    <2>1. /\ Cardinality(U) \in Nat /\ Cardinality(V) \in Nat
          /\ Cardinality(V) + One(h \in U) = Cardinality(U) + One(h \in V)
      BY <1>9, OneMoves
    <2> QED BY <1>9, <2>1 DEF One, OwesOne
  <1>4. /\ events'[b][i] + AtOne(next, b, i) + Before(b, i)
             <= events[b][i] + AtOne(handler[h], b, i) + Before(b, i)'
        /\ events'[b][i] + OwesOne(next, b, i) + posts[b]
             <= events[b][i] + OwesOne(handler[h], b, i) + posts'[b]
    OBVIOUS
  <1>5. /\ AtOne(next, b, i) \in Nat /\ AtOne(handler[h], b, i) \in Nat
        /\ OwesOne(next, b, i) \in Nat /\ OwesOne(handler[h], b, i) \in Nat
    BY DEF AtOne, OwesOne
  <1>12. events[b][i] + Cardinality(S) <= Before(b, i) /\ events[b][i] + Cardinality(U) <= posts[b]
    BY <1>2, <1>6, <1>8
  <1>13. events'[b][i] + Cardinality(T) <= Before(b, i)'
    BY <1>1, <1>4, <1>5, <1>10, <1>12
  <1>14. events'[b][i] + Cardinality(V) <= posts'[b]
    BY <1>1, <1>4, <1>5, <1>11, <1>12
  <1> QED BY <1>6, <1>8, <1>13, <1>14

LEMMA CountPost ==
  ASSUME CountInv, IndInv', NEW h \in Handlers, Post(h), AuthGuard
  PROVE  Prefixes' /\ Posted'
  <1>1. PICK next : next = Request(sink.batch) /\ handler' = [handler EXCEPT ![h] = next]
    BY DEF Post
  <1>2. /\ handler[h].pc = "free" /\ next.pc = "look" /\ next.batch = sink.batch
        /\ UNCHANGED <<messages, events>>
        /\ posts' = [posts EXCEPT ![sink.batch] = @ + 1]
    BY <1>1 DEF Post, Free, Request
  <1> SUFFICES ASSUME NEW b \in Batches, NEW i \in 1..Events
               PROVE  /\ events'[b][i] + AtOne(next, b, i) + Before(b, i)
                           <= events[b][i] + AtOne(handler[h], b, i) + Before(b, i)'
                      /\ events'[b][i] + OwesOne(next, b, i) + posts[b]
                           <= events[b][i] + OwesOne(handler[h], b, i) + posts'[b]
    BY <1>1, CountsKept
  <1>3. /\ events[b][i] \in Nat /\ posts[b] \in Nat /\ Before(b, i) \in Nat
        /\ Before(b, i)' = Before(b, i) /\ events' = events
        /\ posts'[b] = IF b = sink.batch THEN posts[b] + 1 ELSE posts[b]
    BY <1>2, EventsAssumption DEF CountInv, IndInv, TypeOK, Before
  <1> QED BY <1>2, <1>3 DEF AtOne, OwesOne, IsAt, Owes

(* A request that is answered has nothing more to store.                     *)
LEMMA CountRespond ==
  ASSUME CountInv, IndInv', NEW h \in Handlers, NEW ok, Respond(h, ok),
         UNCHANGED <<messages, events, posts>>
  PROVE  Prefixes' /\ Posted'
  <1>1. handler' = [handler EXCEPT ![h] = Free]
    BY DEF Respond
  <1> SUFFICES ASSUME NEW b \in Batches, NEW i \in 1..Events
               PROVE  /\ events'[b][i] + AtOne(Free, b, i) + Before(b, i)
                           <= events[b][i] + AtOne(handler[h], b, i) + Before(b, i)'
                      /\ events'[b][i] + OwesOne(Free, b, i) + posts[b]
                           <= events[b][i] + OwesOne(handler[h], b, i) + posts'[b]
    BY <1>1, CountsKept
  <1>3. /\ events[b][i] \in Nat /\ posts[b] \in Nat /\ Before(b, i) \in Nat
        /\ Before(b, i)' = Before(b, i) /\ events' = events /\ posts' = posts
    BY EventsAssumption DEF CountInv, IndInv, TypeOK, Before
  <1>4. ~IsAt(Free, b, i) /\ ~Owes(Free, b, i)
    BY DEF Free, IsAt, Owes
  <1> QED BY <1>3, <1>4 DEF AtOne, OwesOne

LEMMA CountLookUp ==
  ASSUME CountInv, IndInv', NEW h \in Handlers, LookUpCursors(h)
  PROVE  Prefixes' /\ Posted'
  <1>1. handler[h] \in Busy
    BY BusyHandlers DEF CountInv, IndInv, LookUpCursors
  <1>2. PICK next : /\ handler' = [handler EXCEPT ![h] = next]
                    /\ next.pc = "save" /\ next.batch = handler[h].batch
    <2> DEFINE n == [handler[h] EXCEPT !.pc = "save",
                                       !.missing = Cursors(handler[h].batch) \ cursors]
    <2>1. handler' = [handler EXCEPT ![h] = n] /\ n.pc = "save" /\ n.batch = handler[h].batch
      BY <1>1 DEF LookUpCursors, CountInv, IndInv, TypeOK, Busy
    <2> QED BY <2>1
  <1> SUFFICES ASSUME NEW b \in Batches, NEW i \in 1..Events
               PROVE  /\ events'[b][i] + AtOne(next, b, i) + Before(b, i)
                           <= events[b][i] + AtOne(handler[h], b, i) + Before(b, i)'
                      /\ events'[b][i] + OwesOne(next, b, i) + posts[b]
                           <= events[b][i] + OwesOne(handler[h], b, i) + posts'[b]
    BY <1>2, CountsKept
  <1>3. /\ events[b][i] \in Nat /\ posts[b] \in Nat /\ Before(b, i) \in Nat
        /\ Before(b, i)' = Before(b, i) /\ events' = events /\ posts' = posts
        /\ handler[h].pc = "look"
    <2>1. UNCHANGED <<messages, events, posts>> /\ handler[h].pc = "look"
      BY DEF LookUpCursors, At
    <2>2. /\ events[b][i] \in Nat /\ posts[b] \in Nat /\ Before(b, i) \in Nat
      BY EventsAssumption DEF CountInv, IndInv, TypeOK, Before
    <2> QED BY <2>1, <2>2 DEF Before
  <1> QED BY <1>2, <1>3 DEF AtOne, OwesOne, IsAt, Owes

LEMMA CountCreateMessage ==
  ASSUME CountInv, IndInv', NEW h \in Handlers, CreateMessage(h)
  PROVE  Prefixes' /\ Posted'
  <1>1. handler[h] \in Busy /\ handler[h].next = 1 /\ handler[h].pc = "save"
    BY BusyHandlers DEF CountInv, IndInv, CreateMessage, At, Progressed
  <1>2. CASE Respond(h, FALSE) /\ UNCHANGED messages
    BY <1>2, CountRespond DEF CreateMessage
  <1>3. CASE /\ messages' = [messages EXCEPT ![handler[h].batch] = @ + 1]
             /\ handler' = [handler EXCEPT ![h].pc = "event", ![h].missing = {}]
    <2>1. PICK next : /\ handler' = [handler EXCEPT ![h] = next]
                      /\ next.pc = "event" /\ next.batch = handler[h].batch /\ next.next = 1
      <3> DEFINE n == [handler[h] EXCEPT !.pc = "event", !.missing = {}]
      <3>1. /\ handler' = [handler EXCEPT ![h] = n]
            /\ n.pc = "event" /\ n.batch = handler[h].batch /\ n.next = 1
        BY <1>1, <1>3 DEF CountInv, IndInv, TypeOK, Busy
      <3> QED BY <3>1
    <2> SUFFICES ASSUME NEW b \in Batches, NEW i \in 1..Events
                 PROVE  /\ events'[b][i] + AtOne(next, b, i) + Before(b, i)
                             <= events[b][i] + AtOne(handler[h], b, i) + Before(b, i)'
                        /\ events'[b][i] + OwesOne(next, b, i) + posts[b]
                             <= events[b][i] + OwesOne(handler[h], b, i) + posts'[b]
      BY <2>1, CountsKept
    <2>2. /\ events[b][i] \in Nat /\ posts[b] \in Nat /\ messages[b] \in Nat
          /\ Before(b, i) \in Nat /\ i \in Nat /\ i >= 1
      BY EventsAssumption DEF CountInv, IndInv, TypeOK, Before
    <2>3. /\ events' = events /\ posts' = posts
          /\ messages'[b] = IF b = handler[h].batch THEN messages[b] + 1 ELSE messages[b]
      BY <1>3 DEF CreateMessage, CountInv, IndInv, TypeOK
    <2>4. Before(b, i)' =
            IF i = 1 /\ b = handler[h].batch THEN Before(b, i) + 1 ELSE Before(b, i)
      BY <2>3 DEF Before
    <2> QED BY <1>1, <2>1, <2>2, <2>3, <2>4 DEF AtOne, OwesOne, IsAt, Owes
  <1> QED BY <1>2, <1>3 DEF CreateMessage

LEMMA CountEvent ==
  ASSUME CountInv, IndInv', NEW h \in Handlers, processEvent(h)
  PROVE  Prefixes' /\ Posted'
  <1>1. /\ handler[h] \in Busy /\ handler[h].pc = "event"
        /\ handler[h].batch \in Batches /\ handler[h].next \in 1..Events
    <2>1. handler[h] \in Busy /\ handler[h].pc = "event"
      BY BusyHandlers DEF CountInv, IndInv, processEvent, At
    <2> QED BY <2>1, EventsAssumption DEF Busy, processEvent
  <1>2. PICK c \in Batches, k \in 1..Events : c = handler[h].batch /\ k = handler[h].next
    BY <1>1
  <1>3. PICK next : /\ handler' = [handler EXCEPT ![h] = next]
                    /\ next.pc = "event" /\ next.batch = c /\ next.next = k + 1
    <2> DEFINE n == [handler[h] EXCEPT !.next = @ + 1]
    <2>1. /\ handler' = [handler EXCEPT ![h] = n]
          /\ n.pc = "event" /\ n.batch = c /\ n.next = k + 1
      BY <1>1, <1>2 DEF processEvent, CountInv, IndInv, TypeOK, Busy
    <2> QED BY <2>1
  <1> SUFFICES ASSUME NEW b \in Batches, NEW i \in 1..Events
               PROVE  /\ events'[b][i] + AtOne(next, b, i) + Before(b, i)
                           <= events[b][i] + AtOne(handler[h], b, i) + Before(b, i)'
                      /\ events'[b][i] + OwesOne(next, b, i) + posts[b]
                           <= events[b][i] + OwesOne(handler[h], b, i) + posts'[b]
    BY <1>3, CountsKept
  <1>4. /\ events[b][i] \in Nat /\ posts[b] \in Nat /\ messages[b] \in Nat
        /\ Before(b, i) \in Nat /\ i \in Nat /\ i >= 1 /\ k \in Nat /\ k >= 1
    BY EventsAssumption DEF CountInv, IndInv, TypeOK, Before
  <1>5. /\ messages' = messages /\ posts' = posts
        /\ events' = [events EXCEPT ![c][k] = @ + 1]
    BY <1>2 DEF processEvent
  <1>6. ASSUME NEW j \in 1..Events
        PROVE  events'[b][j] = IF b = c /\ j = k THEN events[b][j] + 1 ELSE events[b][j]
    BY <1>5 DEF CountInv, IndInv, TypeOK
  <1>7. i # 1 => i - 1 \in 1..Events
    BY EventsAssumption
  <1>8. Before(b, i)' =
          IF b = c /\ i = k + 1 THEN Before(b, i) + 1 ELSE Before(b, i)
    <2>1. CASE i = 1
      BY <1>4, <1>5, <2>1 DEF Before
    <2>2. CASE i # 1
      BY <1>4, <1>6, <1>7, <2>2 DEF Before
    <2> QED BY <2>1, <2>2
  <1>9. events'[b][i] = IF b = c /\ i = k THEN events[b][i] + 1 ELSE events[b][i]
    BY <1>6
  <1>10. /\ IsAt(next, b, i) <=> b = c /\ i = k + 1
         /\ IsAt(handler[h], b, i) <=> b = c /\ i = k
         /\ Owes(next, b, i) <=> b = c /\ k + 1 <= i
         /\ Owes(handler[h], b, i) <=> b = c /\ k <= i
    BY <1>1, <1>2, <1>3 DEF IsAt, Owes
  <1> QED BY <1>4, <1>5, <1>8, <1>9, <1>10 DEF AtOne, OwesOne

LEMMA CountStep ==
  ASSUME CountInv, IndInv', [Next]_vars
  PROVE  Prefixes' /\ Posted'
  <1>1. CASE UNCHANGED <<messages, events, handler, posts>>
    BY <1>1 DEF CountInv, Prefixes, Posted, AboutTo, YetTo, Before
  <1>2. Timeout \/ Restart \/ Authorize \/ Expire \/ UNCHANGED vars
          => UNCHANGED <<messages, events, handler, posts>>
    BY OnlyTheToken DEF Timeout, Restart, vars
  <1>3. ASSUME NEW h \in Handlers, MessageProcessed(h) \/ CallFails(h)
        PROVE  Prefixes' /\ Posted'
    BY <1>3, CountRespond DEF MessageProcessed, CallFails
  <1>4. ASSUME NEW h \in Handlers, Post(h)
        PROVE  Prefixes' /\ Posted'
    BY <1>1, <1>2, <1>4, CountPost, RefusedPost
  <1> QED BY <1>1, <1>2, <1>3, <1>4, CountLookUp, CountCreateMessage, CountEvent
          DEF Next, consumeIndexerMsg

LEMMA CursorsStep ==
  ASSUME CountInv, IndInv', [Next]_vars
  PROVE  CursorsFound'
  <1> USE DEF CountInv
  <1>1. CASE /\ cursors \subseteq cursors' /\ messages' = messages
             /\ \A q \in Handlers : handler'[q].pc = "save" => handler'[q] = handler[q]
    BY <1>1 DEF CursorsFound, At
  <1>2. Timeout \/ Restart \/ Authorize \/ Expire \/ UNCHANGED vars
          => UNCHANGED <<cursors, messages, handler>>
    BY OnlyTheToken DEF Timeout, Restart, vars
  <1>3. ASSUME NEW h \in Handlers, Post(h)
        PROVE  /\ cursors' = cursors /\ messages' = messages
               /\ \A q \in Handlers : handler'[q].pc = "save" => handler'[q] = handler[q]
    BY <1>3 DEF Post, Request, IndInv, TypeOK
  <1>4. ASSUME NEW h \in Handlers, NEW ok, Respond(h, ok)
        PROVE  \A q \in Handlers : handler'[q].pc = "save" => handler'[q] = handler[q]
    BY <1>4 DEF Respond, Free, IndInv, TypeOK
  <1>5. ASSUME NEW h \in Handlers, MessageProcessed(h) \/ CallFails(h)
        PROVE  CursorsFound'
    <2>1. Respond(h, TRUE) \/ Respond(h, FALSE)
      BY <1>5 DEF MessageProcessed, CallFails
    <2>2. cursors' = cursors /\ messages' = messages
      BY <1>5 DEF MessageProcessed, CallFails
    <2> QED BY <1>1, <1>4, <2>1, <2>2
  <1>6. ASSUME NEW h \in Handlers, processEvent(h)
        PROVE  CursorsFound'
    BY <1>1, <1>6 DEF processEvent, At, IndInv, TypeOK, Busy, Free
  <1>7. ASSUME NEW h \in Handlers, LookUpCursors(h)
        PROVE  CursorsFound'
    <2>1. handler[h] \in Busy
      BY <1>7, BusyHandlers DEF IndInv, LookUpCursors
    <2>2. /\ handler'[h].missing = Cursors(handler[h].batch) \ cursors
          /\ handler'[h].batch = handler[h].batch
          /\ \A q \in Handlers : q # h => handler'[q] = handler[q]
          /\ cursors' = cursors /\ messages' = messages
      BY <1>7, <2>1 DEF LookUpCursors, IndInv, TypeOK, Busy
    <2> QED BY <2>2 DEF CursorsFound, At
  <1>8. ASSUME NEW h \in Handlers, CreateMessage(h)
        PROVE  CursorsFound'
    <2>1. CASE ~IndexesAllow(handler[h].missing)
      BY <1>1, <1>4, <1>8, <2>1 DEF CreateMessage
    <2>2. CASE IndexesAllow(handler[h].missing)
      <3>1. handler[h] \in Busy /\ At(h, "save")
        BY <1>8, BusyHandlers DEF IndInv, CreateMessage
      <3>2. /\ cursors' = cursors \cup handler[h].missing
            /\ handler'[h].pc = "event"
            /\ \A q \in Handlers : q # h => handler'[q] = handler[q]
            /\ \A b \in Batches : b # handler[h].batch => messages'[b] = messages[b]
        BY <1>8, <2>2, <3>1 DEF CreateMessage, IndInv, TypeOK, Busy
      <3>3. Cursors(handler[h].batch) \subseteq cursors'
        BY <3>1, <3>2 DEF CursorsFound
      <3>4. ASSUME NEW b \in Batches, messages'[b] > 0 PROVE Cursors(b) \subseteq cursors'
        BY <3>2, <3>3, <3>4 DEF CursorsFound
      <3>5. ASSUME NEW q \in Handlers, At(q, "save")'
            PROVE  Cursors(handler'[q].batch) \subseteq cursors' \cup handler'[q].missing
        BY <3>2, <3>5 DEF CursorsFound, At
      <3> QED BY <3>4, <3>5 DEF CursorsFound
    <2> QED BY <2>1, <2>2
  <1>9. ASSUME NEW h \in Handlers, Post(h)
        PROVE  CursorsFound'
    BY <1>1, <1>3, <1>9
  <1>10. CASE Timeout \/ Restart \/ Authorize \/ Expire \/ UNCHANGED vars
    BY <1>1, <1>2, <1>10
  <1> QED BY <1>5, <1>6, <1>7, <1>8, <1>9, <1>10 DEF Next, consumeIndexerMsg

LEMMA CountInitially == Init => CountInv
  <1> SUFFICES ASSUME Init PROVE CountInv
    OBVIOUS
  <1>1. IndInv
    BY InitEstablishes
  <1>2. \A b, i : AboutTo(b, i) = {} /\ YetTo(b, i) = {}
    BY DEF Init, AboutTo, YetTo, IsAt, Owes, Free
  <1>3. \A b \in Batches : messages[b] = 0 /\ posts[b] = 0 /\ \A i \in 1..Events : events[b][i] = 0
    BY DEF Init
  <1>4. \A b \in Batches : \A i \in 1..Events : Before(b, i) = 0
    BY <1>3, EventsAssumption DEF Before
  <1>5. Cardinality({}) = 0
    BY FS_EmptySet
  <1>6. Prefixes /\ Posted
    BY <1>2, <1>3, <1>4, <1>5 DEF Prefixes, Posted
  <1>7. CursorsFound
    BY <1>3 DEF CursorsFound, Init, At, Free
  <1> QED BY <1>1, <1>6, <1>7 DEF CountInv

LEMMA Counted == Spec => []CountInv
  <1>1. CountInv /\ [Next]_vars => CountInv'
    <2> SUFFICES ASSUME CountInv, [Next]_vars PROVE CountInv'
      OBVIOUS
    <2>1. IndInv'
      BY NextKeeps DEF CountInv
    <2> QED BY <2>1, CountStep, CursorsStep DEF CountInv
  <1> QED BY <1>1, CountInitially, PTL DEF Spec

LEMMA NoMoreThan ==
  ASSUME TypeOK, NEW b, NEW i
  PROVE  Cardinality(AboutTo(b, i)) \in Nat /\ Cardinality(YetTo(b, i)) \in Nat
  BY HandlersAssumption, FS_Subset, FS_CardinalityType DEF AboutTo, YetTo

(* However the posts of a batch fail, time out or overlap, no event of it    *)
(* has more rows than the one before it, and no message lacks its cursors.   *)
THEOREM NeverAHole == Spec => []NoHoles
  <1>1. CountInv => NoHoles
    <2> SUFFICES ASSUME CountInv, NEW b \in Batches
                 PROVE  /\ messages[b] > 0 => Cursors(b) \subseteq cursors
                        /\ \A i \in 1..Events : events[b][i] <= Before(b, i)
      BY DEF NoHoles, Before
    <2>1. ASSUME NEW i \in 1..Events PROVE events[b][i] <= Before(b, i)
      <3>1. events[b][i] + Cardinality(AboutTo(b, i)) <= Before(b, i)
        BY DEF CountInv, Prefixes
      <3>2. events[b][i] \in Nat /\ Before(b, i) \in Nat /\ Cardinality(AboutTo(b, i)) \in Nat
        BY NoMoreThan, EventsAssumption DEF CountInv, IndInv, TypeOK, Before
      <3> QED BY <3>1, <3>2
    <2> QED BY <2>1 DEF CountInv, CursorsFound
  <1> QED BY <1>1, Counted, PTL

(* No post stores an event twice, though requests about a batch overlap.     *)
THEOREM RowsWithinPosts == Spec => []OneRowPerPost
  <1>1. CountInv => OneRowPerPost
    <2> SUFFICES ASSUME CountInv, NEW b \in Batches, NEW i \in 1..Events
                 PROVE  events[b][i] <= posts[b]
      BY DEF OneRowPerPost
    <2>1. events[b][i] + Cardinality(YetTo(b, i)) <= posts[b]
      BY DEF CountInv, Posted
    <2>2. events[b][i] \in Nat /\ posts[b] \in Nat /\ Cardinality(YetTo(b, i)) \in Nat
      BY NoMoreThan DEF CountInv, IndInv, TypeOK
    <2> QED BY <2>1, <2>2
  <1> QED BY <1>1, Counted, PTL
=============================================================================
