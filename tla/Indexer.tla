------------------------------- MODULE Indexer -------------------------------
(* The indexer service of the backend: the webhook that stores the batches   *)
(* of chain events an Apibara sink posts to it.                              *)
(*                                                                           *)
(* consumeIndexerMsg stores the message, which is one nested write and so    *)
(* one transaction, then its events one by one with no transaction around    *)
(* them; an error anywhere is a 500 response.  The sink is external: it      *)
(* posts batches in order, the next one after a 2xx response, and posts      *)
(* again after a refusal, after waiting too long, or when it restarts from   *)
(* an earlier batch.  Batch b runs from the cursor of b - 1 to that of b.    *)
(*                                                                           *)
(* AuthGuard is global and the controller is not public, so a post has to    *)
(* carry an access token.  The sink's configuration names none: as it stands *)
(* in the repository every post is answered 401, and an operator has to give *)
(* the sink a token, and another one whenever it expires.                    *)
EXTENDS Naturals, FiniteSets

CONSTANTS LastBatch,    \* the chain the sink reads has batches 1..LastBatch
          Events,       \* the number of events in batch[0] of each
          Handlers,     \* requests the server handles at a time
          Nobody,       \* the sink waits for no request
          KeysOfChain,  \* the uniqueKeys the cursors of a chain may have, by orderKey
          MaxPosts,     \* bound on the posts of a batch: one refused for good repeats
          MaxFaults     \* bound on failed calls, timeouts and sink restarts

ASSUME LastBatchAssumption == LastBatch \in Nat \ {0}
ASSUME EventsAssumption == Events \in Nat
ASSUME NobodyAssumption == Nobody \notin Handlers
ASSUME HandlersAssumption == IsFiniteSet(Handlers)
ASSUME FaultsAssumption == MaxFaults \in Nat

Batches == 1..LastBatch
OrderKeys == 0..LastBatch

VARIABLES uniqueKey,  \* of each cursor of the chain, by its orderKey
          bearer,     \* does the sink have a token that verifies?
          cursors,    \* the orderKeys of the IndexerCursor rows
          messages,   \* how many IndexerMessage rows a batch has
          events,     \* how many IndexerEvent rows the i-th event of a batch has
          handler,    \* the requests the server is handling
          sink,       \* the batch the sink is at and the request it waits for
          posts,      \* how often a post of a batch got past the guard
          faults

vars == <<uniqueKey, bearer, cursors, messages, events, handler, sink, posts, faults>>

Free == [pc |-> "free", batch |-> 1, missing |-> {}, next |-> 1]
Busy == [pc : {"look", "save", "event"}, batch : Batches, missing : SUBSET OrderKeys,
         next : 1..(Events + 1)]

TypeOK == /\ uniqueKey \in KeysOfChain
          /\ bearer \in BOOLEAN
          /\ cursors \subseteq OrderKeys
          /\ messages \in [Batches -> Nat]
          /\ events \in [Batches -> [1..Events -> Nat]]
          /\ handler \in [Handlers -> Busy \cup {Free}]
          /\ sink \in [batch : 1..(LastBatch + 1), waiting : Handlers \cup {Nobody}]
          /\ posts \in [Batches -> Nat]
          /\ faults \in 0..MaxFaults

Init == /\ uniqueKey \in KeysOfChain
        /\ bearer = FALSE
        /\ cursors = {}
        /\ messages = [b \in Batches |-> 0]
        /\ events = [b \in Batches |-> [i \in 1..Events |-> 0]]
        /\ handler = [h \in Handlers |-> Free]
        /\ sink = [batch |-> 1, waiting |-> Nobody]
        /\ posts = [b \in Batches |-> 0]
        /\ faults = 0

Cursors(b) == {b - 1, b}

-----------------------------------------------------------------------------
(* The sink                                                                  *)
Request(b) == [pc |-> "look", batch |-> b, missing |-> {}, next |-> 1]

(* The guard reads the header and its own secret, and nothing that changes:  *)
(* it is part of the arrival.                                                *)
AuthGuard == bearer

Post(h) ==
  /\ sink.waiting = Nobody
  /\ sink.batch \in Batches
  /\ handler[h] = Free
  /\ posts[sink.batch] < MaxPosts
  /\ \/ /\ AuthGuard
        /\ handler' = [handler EXCEPT ![h] = Request(sink.batch)]
        /\ sink' = [sink EXCEPT !.waiting = h]
        /\ posts' = [posts EXCEPT ![sink.batch] = @ + 1]
     \/ /\ ~AuthGuard   \* 401: the sink stays where it is
        /\ UNCHANGED <<handler, sink, posts>>
  /\ UNCHANGED <<uniqueKey, bearer, cursors, messages, events, faults>>

Authorize == /\ ~bearer /\ bearer' = TRUE
             /\ UNCHANGED <<uniqueKey, cursors, messages, events, handler, sink, posts, faults>>
Expire == /\ bearer /\ bearer' = FALSE
          /\ UNCHANGED <<uniqueKey, cursors, messages, events, handler, sink, posts, faults>>

Fault == faults < MaxFaults /\ faults' = faults + 1

(* The sink gives up on a request that the server may go on handling.        *)
Timeout == /\ Fault
           /\ sink.waiting # Nobody
           /\ sink' = [sink EXCEPT !.waiting = Nobody]
           /\ UNCHANGED <<uniqueKey, bearer, cursors, messages, events, handler, posts>>

Restart == /\ Fault
           /\ \E b \in 1..sink.batch : sink' = [batch |-> b, waiting |-> Nobody]
           /\ UNCHANGED <<uniqueKey, bearer, cursors, messages, events, handler, posts>>

-----------------------------------------------------------------------------
(* The webhook: a response reaches the sink if it still waits for it.        *)
Respond(h, ok) ==
  /\ handler' = [handler EXCEPT ![h] = Free]
  /\ sink' = IF sink.waiting # h THEN sink
             ELSE [batch |-> IF ok THEN sink.batch + 1 ELSE sink.batch,
                   waiting |-> Nobody]

At(h, pc) == handler[h].pc = pc

(* connectOrCreate looks both cursors up ...                                 *)
LookUpCursors(h) ==
  /\ At(h, "look")
  /\ handler' = [handler EXCEPT ![h].pc = "save",
                                ![h].missing = Cursors(handler[h].batch) \ cursors]
  /\ UNCHANGED <<uniqueKey, bearer, cursors, messages, events, sink, posts, faults>>

(* orderKey and uniqueKey are unique, each by an index of its own.           *)
IndexesAllow(new) ==
  /\ new \cap cursors = {}
  /\ \A k \in new, j \in new \cup cursors : uniqueKey[j] = uniqueKey[k] => j = k

(* MUTANT: an error of the transaction is swallowed and never answered.      *)
CreateMessageUnanswered(h) ==
  /\ At(h, "save")
  /\ LET b == handler[h].batch
     IN  IF ~IndexesAllow(handler[h].missing)
         THEN /\ handler' = [handler EXCEPT ![h] = Free]
              /\ UNCHANGED <<sink, cursors, messages>>
         ELSE /\ cursors' = cursors \cup handler[h].missing
              /\ messages' = [messages EXCEPT ![b] = @ + 1]
              /\ handler' = [handler EXCEPT ![h].pc = "event", ![h].missing = {}]
              /\ UNCHANGED sink
  /\ UNCHANGED <<uniqueKey, bearer, events, posts, faults>>

(* ... and creates the missing ones with the message; the transaction fails  *)
(* when another one has created them meanwhile.                              *)
CreateMessage(h) ==
  /\ At(h, "save")
  /\ LET b == handler[h].batch
     IN  IF ~IndexesAllow(handler[h].missing)
         THEN Respond(h, FALSE) /\ UNCHANGED <<uniqueKey, bearer, cursors, messages>>
         ELSE /\ cursors' = cursors \cup handler[h].missing
              /\ messages' = [messages EXCEPT ![b] = @ + 1]
              /\ handler' = [handler EXCEPT ![h].pc = "event", ![h].missing = {}]
              /\ UNCHANGED sink
  /\ UNCHANGED <<uniqueKey, bearer, events, posts, faults>>

processEvent(h) ==
  /\ At(h, "event")
  /\ handler[h].next <= Events
  /\ events' = [events EXCEPT ![handler[h].batch][handler[h].next] = @ + 1]
  /\ handler' = [handler EXCEPT ![h].next = @ + 1]
  /\ UNCHANGED <<uniqueKey, bearer, cursors, messages, sink, posts, faults>>

MessageProcessed(h) ==
  /\ At(h, "event")
  /\ handler[h].next > Events
  /\ Respond(h, TRUE)
  /\ UNCHANGED <<uniqueKey, bearer, cursors, messages, events, posts, faults>>

(* MUTANT: the failure of an event is logged and the next one processed.     *)
CallFailsLogged(h) ==
  /\ Fault
  /\ At(h, "event") /\ handler[h].next <= Events
  /\ handler' = [handler EXCEPT ![h].next = @ + 1]
  /\ UNCHANGED <<uniqueKey, bearer, cursors, messages, events, posts, sink>>

(* MUTANT: the server processes the events again from the first one itself.  *)
CallFailsRetried(h) ==
  /\ Fault
  /\ At(h, "event") /\ handler[h].next <= Events
  /\ handler' = [handler EXCEPT ![h].next = 1]
  /\ UNCHANGED <<uniqueKey, bearer, cursors, messages, events, posts, sink>>

(* A database call rejects: the handler throws and what it stored remains.   *)
CallFails(h) ==
  /\ Fault
  /\ At(h, "look") \/ At(h, "save") \/ (At(h, "event") /\ handler[h].next <= Events)
  /\ Respond(h, FALSE)
  /\ UNCHANGED <<uniqueKey, bearer, cursors, messages, events, posts>>

consumeIndexerMsg(h) == \/ LookUpCursors(h) \/ CreateMessage(h)
                        \/ processEvent(h) \/ MessageProcessed(h)

Next == \/ Timeout \/ Restart \/ Authorize \/ Expire
        \/ \E h \in Handlers : Post(h) \/ consumeIndexerMsg(h) \/ CallFails(h)

Spec == Init /\ [][Next]_vars

(* The sink keeps posting, and the server goes on with every request whose   *)
(* database call has answered.  That the sink gets a token is not assumed.   *)
FairSpec == /\ Spec
            /\ WF_vars(\E h \in Handlers : Post(h))
            /\ \A h \in Handlers : WF_vars(consumeIndexerMsg(h))

-----------------------------------------------------------------------------
(* A batch the sink has moved past is stored, message and every event, even  *)
(* when an earlier post of it failed half-way or was answered too late.      *)
Stored(b) == messages[b] > 0 /\ \A i \in 1..Events : events[b][i] > 0
PassedIsStored == \A b \in Batches : b < sink.batch => Stored(b)

(* No event without its message, and no event without the ones before it in  *)
(* its batch: every post of a batch stores a prefix of it, so what a failed  *)
(* post leaves behind is never a batch with a hole.                          *)
NoHoles ==
  \A b \in Batches :
    /\ messages[b] > 0 => Cursors(b) \subseteq cursors
    /\ \A i \in 1..Events : events[b][i] <= (IF i = 1 THEN messages[b] ELSE events[b][i - 1])

(* One post stores an event at most once: an event has at most as many rows  *)
(* as its batch had posts.  Nothing stops a post from storing it again.      *)
OneRowPerPost ==
  \A b \in Batches : \A i \in 1..Events : events[b][i] <= posts[b]

(* Once faults stop and the sink has a token for good, every batch is        *)
(* accepted: one whose cursors or events an earlier post has already stored  *)
(* is not refused.  A chain with one uniqueKey for two cursors would be.     *)
KeysDiffer == \A j, k \in OrderKeys : uniqueKey[j] = uniqueKey[k] => j = k
EveryBatchPasses == KeysDiffer /\ <>[]bearer => <>[](sink.batch = LastBatch + 1)
=============================================================================
