------------------------ MODULE NotificationsProofs ------------------------
(* Type correctness of Notifications, and that it implements NotificationBox *)
(* for any number of rows, users and handlers.                               *)
EXTENDS Notifications, FiniteSetTheorems, TLAPS

LEMMA ListedIsFinite ==
  ASSUME NEW rows, NEW u, NEW filter
  PROVE  IsFiniteSet(Listed(rows, u, filter))
<1>1. IsFiniteSet(Box!Ids)
  BY MaxRowsAssumption, FS_Interval DEF Box!Ids
<1>2. Listed(rows, u, filter) \subseteq Box!Ids
  BY DEF Listed
<1> QED BY <1>1, <1>2, FS_Subset

(* The request a handler serves, without what only the handler knows.        *)
LEMMA CallOfHandler ==
  ASSUME TypeOK, NEW h \in Handlers
  PROVE  /\ call[h].op = handler[h].op
         /\ call[h].id = handler[h].id
         /\ call[h].by = handler[h].by
  BY DEF call

(* A handler that answers is seen to answer.                                 *)
LEMMA AnswerOfHandler ==
  ASSUME TypeOK, NEW h \in Handlers, NEW status,
         handler' = [handler EXCEPT ![h] = Free(status)]
  PROVE  call' = [call EXCEPT ![h] = Box!Free(status)]
<1>1. handler'[h] = Free(status) /\ \A q \in Handlers : q # h => handler'[q] = handler[q]
  BY DEF TypeOK
<1>2. call'[h] = Box!Free(status)
  BY <1>1 DEF call, Free, Box!Free
<1>3. \A q \in Handlers : q # h => call'[q] = call[q]
  BY <1>1 DEF call
<1> QED BY <1>2, <1>3 DEF call

-----------------------------------------------------------------------------
LEMMA TypeInit == Init => TypeOK
<1> SUFFICES ASSUME Init PROVE TypeOK
  OBVIOUS
<1>1. walk \in Walks
  BY DEF Init, Ended, NewWalk, Walks, Listed
<1>2. handler \in [Handlers -> Busy \cup {Free(status) : status \in {0, 200, 404}}]
  BY DEF Init
<1> QED BY <1>1, <1>2 DEF Init, TypeOK

(* Whatever the table becomes, its watcher stays in type.                    *)
LEMMA WatchType ==
  ASSUME TypeOK, NEW rows, Watch(rows)
  PROVE  walk' \in Walks
  BY DEF TypeOK, Watch, Walks

(* A page shown keeps the walk in type.                                      *)
LEMMA NextPageType ==
  ASSUME TypeOK, NEW rows \in SUBSET Box!Ids
  PROVE  [walk EXCEPT !.at = "count", !.page = @ + 1, !.total = 0,
                      !.seen = @ \cup rows, !.unseen = @ \ rows,
                      !.repeated = @ \/ rows \cap walk.seen # {}] \in Walks
<1> DEFINE repeated == walk.repeated \/ rows \cap walk.seen # {}
           seen == walk.seen \cup rows
           unseen == walk.unseen \ rows
           next == [walk EXCEPT !.at = "count", !.page = walk.page + 1, !.total = 0,
                                !.seen = seen, !.unseen = unseen, !.repeated = repeated]
<1>1. walk \in Walks /\ repeated \in BOOLEAN
  BY DEF TypeOK, Walks
<1>2. seen \in SUBSET Box!Ids /\ unseen \in SUBSET Box!Ids /\ walk.page + 1 \in Nat
  BY <1>1 DEF Walks
<1>3. next \in Walks
  <2> HIDE DEF repeated, seen, unseen
  <2> QED BY <1>1, <1>2 DEF Walks
<1> QED BY <1>3

LEMMA TypeNext == TypeOK /\ [Next]_vars => TypeOK'
<1> SUFFICES ASSUME TypeOK, [Next]_vars PROVE TypeOK'
  OBVIOUS
<1>1. ASSUME NEW u \in Users, NEW isRead \in BOOLEAN, createNotification(u, isRead)
      PROVE  TypeOK'
  <2>1. walk' \in Walks
    BY <1>1, WatchType DEF createNotification
  <2> QED BY <1>1, <2>1 DEF createNotification, TypeOK, Box!Rows
<1>2. ASSUME NEW h \in Handlers, NEW op \in Box!Ops, NEW i \in Box!Ids,
             NEW u \in Users \cup {NoUser}, Arrive(h, op, i, u)
      PROVE  TypeOK'
  BY <1>2 DEF Arrive, TypeOK, Busy
<1>3. ASSUME NEW h \in Handlers, FindUnique(h) PROVE TypeOK'
  <2>1. handler[h] \in Busy
    BY <1>3 DEF FindUnique, Pending, TypeOK, Free
  <2>2. handler[h].op # "view" => [handler[h] EXCEPT !.found = TRUE] \in Busy
    BY <2>1 DEF Busy
  <2>3. handler' \in [Handlers -> Busy \cup {Free(status) : status \in {0, 200, 404}}]
    BY <1>3, <2>2 DEF FindUnique, TypeOK
  <2> QED BY <1>3, <2>3 DEF FindUnique, TypeOK
<1>4. ASSUME NEW h \in Handlers, Write(h) PROVE TypeOK'
  <2>1. walk' \in Walks
    BY <1>4, WatchType DEF Write
  <2>2. handler[h] \in Busy
    BY <1>4 DEF Write, Pending, TypeOK, Free
  <2>3. notification' \in [Box!Ids -> Box!Rows \cup {Box!NoRow}]
    <3> DEFINE i == handler[h].id
    <3>1. i \in Box!Ids /\ notification[i] \in Box!Rows \cup {Box!NoRow}
      BY <2>2 DEF Busy, TypeOK
    <3>2. notification[i] # Box!NoRow => [notification[i] EXCEPT !.isRead = TRUE] \in Box!Rows
      BY <3>1 DEF Box!Rows
    <3> QED BY <1>4, <3>1, <3>2 DEF Write, TypeOK
  <2>4. handler' \in [Handlers -> Busy \cup {Free(status) : status \in {0, 200, 404}}]
    BY <1>4 DEF Write, TypeOK, StatusOf
  <2> QED BY <1>4, <2>1, <2>3, <2>4 DEF Write, TypeOK
<1>5. ASSUME NEW u \in Users, NEW filter \in Filters, NEW limit \in Limits,
             StartWalk(u, filter, limit)
      PROVE  TypeOK'
  <2>1. NewWalk(u, filter, limit) \in Walks
    BY <1>5, LimitsAssumption DEF NewWalk, Walks, Listed
  <2> QED BY <1>5, <2>1 DEF StartWalk, TypeOK
<1>6. ASSUME Count PROVE TypeOK'
  <2>1. Cardinality(Listed(notification, walk.by, walk.filter)) \in Nat
    BY ListedIsFinite, FS_CardinalityType
  <2> QED BY <1>6, <2>1 DEF Count, TypeOK, Walks
<1>7. ASSUME FindMany PROVE TypeOK'
  <2> DEFINE rows == RowsOnPage(Listed(notification, walk.by, walk.filter),
                                walk.page, walk.limit)
  <2>1. rows \subseteq Box!Ids
    BY DEF RowsOnPage, Listed
  <2> DEFINE next == [walk EXCEPT !.at = "count", !.page = @ + 1, !.total = 0,
                                  !.seen = @ \cup rows, !.unseen = @ \ rows,
                                  !.repeated = @ \/ rows \cap walk.seen # {}]
  <2> HIDE DEF rows
  <2>2. next \in Walks
    BY <2>1, NextPageType
  <2> HIDE DEF next
  <2>3. Ended(next) \in Walks
    BY <2>2 DEF Walks, Ended
  <2>4. walk' = next \/ walk' = Ended(next)
    BY <1>7 DEF FindMany, rows, next
  <2> QED BY <1>7, <2>2, <2>3, <2>4 DEF FindMany, TypeOK
<1>8. CASE UNCHANGED vars
  BY <1>8 DEF vars, TypeOK
<1> QED BY <1>1, <1>2, <1>3, <1>4, <1>5, <1>6, <1>7, <1>8 DEF Next

(* Rows, requests and walks keep their types whatever the constants.         *)
THEOREM TypeCorrect == Spec => []TypeOK
  BY TypeInit, TypeNext, PTL DEF Spec

-----------------------------------------------------------------------------
LEMMA BoxInitial == Init => Box!BoxInit
  BY DEF Init, Box!BoxInit, call, Free, Box!Free

(* A handler's first statement changes nothing a client can see unless it    *)
(* is the last: then it is the whole call.                                   *)
LEMMA FindUniqueStep ==
  ASSUME TypeOK, NEW h \in Handlers, FindUnique(h)
  PROVE  Box!TakeEffect(h) \/ UNCHANGED Box!boxVars
<1>1. CASE ~Finds(h) \/ handler[h].op = "view"
  <2> DEFINE status == IF Finds(h) THEN 200 ELSE 404
  <2>1. handler' = [handler EXCEPT ![h] = Free(status)]
    BY <1>1 DEF FindUnique, Finds
  <2>2. call' = [call EXCEPT ![h] = Box!Free(status)]
    BY <2>1, AnswerOfHandler
  <2>3. Box!Finds(h) = Finds(h)
    BY CallOfHandler DEF Box!Finds, Finds
  <2>4. Finds(h) => Box!Done(h) = notification
    BY <1>1, CallOfHandler DEF Box!Done
  <2> QED
    <3>1. Box!Pending(h) /\ Box!Answer(h, status) /\ UNCHANGED <<notification, fresh>>
      BY <2>2, CallOfHandler DEF Box!Pending, Box!Answer, FindUnique, Pending
    <3> QED BY <2>3, <2>4, <3>1 DEF Box!TakeEffect
<1>2. CASE Finds(h) /\ handler[h].op # "view"
  <2>1. handler' = [handler EXCEPT ![h] = [@ EXCEPT !.found = TRUE]]
    BY <1>2 DEF FindUnique
  <2>2. handler[h] \in Busy
    BY DEF FindUnique, Pending, TypeOK, Free
  <2>3. \A q \in Handlers : /\ handler'[q].op = handler[q].op
                            /\ handler'[q].id = handler[q].id
                            /\ handler'[q].by = handler[q].by
                            /\ handler'[q].status = handler[q].status
    BY <2>1, <2>2 DEF TypeOK, Busy
  <2>4. call' = call
    BY <2>3 DEF call
  <2> QED BY <2>4 DEF FindUnique, Box!boxVars
<1> QED BY <1>1, <1>2

(* The second statement is the call, also when its row has gone: the filter  *)
(* answers what a look-up at that moment would have.                         *)
LEMMA WriteStep ==
  ASSUME TypeOK, NEW h \in Handlers, Write(h)
  PROVE  Box!TakeEffect(h)
<1> DEFINE i == handler[h].id
<1>1. handler[h] \in Busy /\ handler[h].op \in {"markAsRead", "delete"} /\ i \in Box!Ids
  BY DEF Write, TypeOK, Pending, Free, Busy, Box!Ops
<1>2. ASSUME NEW status, handler' = [handler EXCEPT ![h] = Free(status)]
      PROVE  Box!Answer(h, status)
  BY <1>2, AnswerOfHandler DEF Box!Answer
<1>3. CASE notification[i] = Box!NoRow
  <2>1. Box!Answer(h, 404) /\ UNCHANGED notification
    BY <1>2, <1>3 DEF Write, StatusOf
  <2>2. ~Box!Finds(h)
    BY <1>3, CallOfHandler DEF Box!Finds
  <2> QED
    BY <1>1, <2>1, <2>2, CallOfHandler
    DEF Box!TakeEffect, Box!Pending, Write, Pending
<1>4. CASE notification[i] # Box!NoRow
  <2>1. Box!Answer(h, 200)
    BY <1>2, <1>4 DEF Write
  <2>2. Box!Finds(h)
    BY <1>1, <1>4, CallOfHandler DEF Box!Finds
  <2>3. notification' = Box!Done(h)
    BY <1>1, <1>4, CallOfHandler DEF Write, Box!Done, TypeOK
  <2> QED
    BY <1>1, <2>1, <2>2, <2>3, CallOfHandler
    DEF Box!TakeEffect, Box!Pending, Write, Pending
<1> QED BY <1>3, <1>4

LEMMA BoxStep == TypeOK /\ [Next]_vars => [Box!BoxNext]_Box!boxVars
<1> SUFFICES ASSUME TypeOK, [Next]_vars PROVE [Box!BoxNext]_Box!boxVars
  OBVIOUS
<1> USE DEF Box!BoxNext
<1>1. ASSUME NEW u \in Users, NEW isRead \in BOOLEAN, createNotification(u, isRead)
      PROVE  Box!BoxNext
  <2>1. Box!createNotification(u, isRead)
    BY <1>1 DEF createNotification, Box!createNotification, call
  <2> QED BY <2>1
<1>2. ASSUME NEW h \in Handlers, NEW op \in Box!Ops, NEW i \in Box!Ids,
             NEW u \in Users \cup {NoUser}, Arrive(h, op, i, u)
      PROVE  Box!BoxNext
  <2> DEFINE request == [op |-> op, id |-> i, by |-> u, status |-> 0]
  <2>1. request \in Box!Asked
    BY DEF Box!Asked
  <2>2. call' = [call EXCEPT ![h] = request]
    BY <1>2 DEF Arrive, call, TypeOK
  <2>3. Box!Arrive(h, request)
    BY <1>2, <2>2, CallOfHandler DEF Arrive, Pending, Box!Arrive, Box!Pending
  <2> QED BY <2>1, <2>3
<1>3. ASSUME NEW h \in Handlers, FindUnique(h)
      PROVE  [Box!BoxNext]_Box!boxVars
  BY <1>3, FindUniqueStep
<1>4. ASSUME NEW h \in Handlers, Write(h) PROVE Box!BoxNext
  BY <1>4, WriteStep
<1>5. ASSUME UNCHANGED <<notification, fresh, handler>> PROVE UNCHANGED Box!boxVars
  BY <1>5 DEF Box!boxVars, call
<1> QED
  BY <1>1, <1>2, <1>3, <1>4, <1>5 DEF Next, StartWalk, Count, FindMany, vars

(* Marking, deleting and viewing a notification are atomic to their callers: *)
(* look-up and write by id, and the exception filter's answer to a row that  *)
(* went in between, add up to one step.                                      *)
THEOREM Implements == Spec => CallsAreAtomic
<1>1. Init /\ [][Next]_vars /\ []TypeOK => Box!BoxSpec
  BY BoxInitial, BoxStep, PTL DEF Box!BoxSpec
<1> QED BY <1>1, TypeCorrect DEF Spec, CallsAreAtomic

-----------------------------------------------------------------------------
(* The pages of a walk.  A row's place in the listing is the number of rows  *)
(* before it.                                                                *)
Listing == Listed(notification, walk.by, walk.filter)
Before(rows, i) == Cardinality({j \in rows : j < i})

LEMMA PlaceType ==
  ASSUME NEW A \in SUBSET Box!Ids, NEW i
  PROVE  IsFiniteSet({j \in A : j < i}) /\ Before(A, i) \in Nat
<1>1. IsFiniteSet(Box!Ids)
  BY MaxRowsAssumption, FS_Interval DEF Box!Ids
<1>2. {j \in A : j < i} \subseteq Box!Ids
  OBVIOUS
<1> QED BY <1>1, <1>2, FS_Subset, FS_CardinalityType DEF Before

(* Rows that come in move the others back, rows that leave move them forward.*)
LEMMA PlaceMonotone ==
  ASSUME NEW A \in SUBSET Box!Ids, NEW B \in SUBSET Box!Ids, A \subseteq B, NEW i
  PROVE  Before(A, i) <= Before(B, i)
<1>1. {j \in A : j < i} \subseteq {j \in B : j < i}
  OBVIOUS
<1> QED BY <1>1, PlaceType, FS_Subset DEF Before

LEMMA PlaceInside ==
  ASSUME NEW A \in SUBSET Box!Ids, NEW i \in A
  PROVE  Before(A, i) < Cardinality(A) /\ Cardinality(A) \in Nat
<1>1. IsFiniteSet(A)
  <2>1. IsFiniteSet(Box!Ids)
    BY MaxRowsAssumption, FS_Interval DEF Box!Ids
  <2> QED BY <2>1, FS_Subset
<1>2. A \subseteq Int
  BY MaxRowsAssumption DEF Box!Ids
<1>3. {j \in A : j < i} \subseteq A \ {i}
  BY <1>2
<1>4. Cardinality(A \ {i}) = Cardinality(A) - 1 /\ IsFiniteSet(A \ {i})
  BY <1>1, FS_RemoveElement
<1>5. Before(A, i) <= Cardinality(A \ {i})
  BY <1>3, <1>4, FS_Subset DEF Before
<1>6. Cardinality(A) \in Nat /\ Before(A, i) \in Nat
  BY <1>1, FS_CardinalityType, PlaceType
<1> QED BY <1>4, <1>5, <1>6

(* A page shows the rows whose places are the page's.                        *)
LEMMA PageShows ==
  ASSUME NEW A \in SUBSET Box!Ids, NEW page \in Nat, NEW limit \in Nat, page >= 1, limit >= 1,
         NEW i \in A
  PROVE  i \in RowsOnPage(A, page, limit) <=>
           Before(A, i) >= Skip(page, limit) /\ Before(A, i) < Skip(page + 1, limit)
<1>1. Skip(page, limit) \in Int /\ Skip(page + 1, limit) = Skip(page, limit) + limit
  BY DEF Skip
<1>2. Before(A, i) \in Nat
  BY PlaceType
<1>3. i \in RowsOnPage(A, page, limit) <=>
        Before(A, i) \in Skip(page, limit) .. (Skip(page, limit) + limit - 1)
  BY DEF RowsOnPage, Before
<1> QED BY <1>1, <1>2, <1>3

(* After the last page there is no place left.                               *)
LEMMA LastPage ==
  ASSUME NEW total \in Nat, NEW page \in Nat, NEW limit \in Nat, limit >= 1,
         ~(page < TotalPages(total, limit))
  PROVE  total <= Skip(page + 1, limit)
<1> DEFINE n == total + limit - 1
           q == n \div limit
           m == n % limit
<1>1. n \in Nat /\ q \in Int /\ m \in Int /\ n = limit * q + m /\ m < limit
  OBVIOUS
<1>2. q <= page
  BY <1>1 DEF TotalPages
<1> HIDE DEF q, m
<1>3. limit * q <= limit * page
  BY <1>1, <1>2
<1>4. Skip(page + 1, limit) = limit * page /\ limit * page \in Int /\ limit * q \in Int
  BY <1>1 DEF Skip
<1> HIDE DEF n
<1> QED BY <1>1, <1>3, <1>4 DEF n

(* A walk from page to page.  Unless a row has left, or come in between a    *)
(* count and its rows, the rows it has not shown are not before its page,    *)
(* and the count of a page is that of its rows; unless a row has come in,    *)
(* the rows it has shown are before its page.                                *)
Walking == walk.at # "off" =>
  /\ walk.page >= 1 /\ walk.limit >= 1
  /\ walk.unseen \subseteq Listing
  /\ ~walk.torn =>
       /\ \A i \in walk.unseen : Before(Listing, i) >= Skip(walk.page, walk.limit)
       /\ walk.at = "find" => walk.total = Cardinality(Listing)
  /\ ~walk.grew =>
       /\ ~walk.repeated
       /\ \A i \in walk.seen \cap Listing : Before(Listing, i) < Skip(walk.page, walk.limit)

WalkInv == TypeOK /\ Walking /\ WalkMissesNothing

LEMMA ListingType ==
  ASSUME NEW rows, NEW u, NEW filter
  PROVE  Listed(rows, u, filter) \in SUBSET Box!Ids
  BY DEF Listed

LEMMA WalkInit == Init => WalkInv
<1> SUFFICES ASSUME Init PROVE WalkInv
  OBVIOUS
<1>1. walk.at = "off" /\ walk.repeated = FALSE /\ walk.unseen = Listed(notification, NoUser, {})
  BY DEF Init, Ended, NewWalk
<1>2. Listed(notification, NoUser, {}) = {}
  BY DEF Listed
<1> QED BY <1>1, <1>2, TypeInit DEF WalkInv, Walking, WalkMissesNothing

(* The walk's history keeps up with the table.                               *)
LEMMA WatchKeeps ==
  ASSUME WalkInv, TypeOK', Watch(notification')
  PROVE  WalkInv'
<1> DEFINE A == Listing
           B == Listed(notification', walk.by, walk.filter)
<1>1. CASE walk.at = "off"
  <2>1. walk' = walk
    BY <1>1 DEF Watch
  <2> QED BY <1>1, <2>1 DEF WalkInv, Walking, WalkMissesNothing
<1>2. CASE walk.at # "off"
  <2>1. /\ walk'.at = walk.at /\ walk'.by = walk.by /\ walk'.filter = walk.filter
        /\ walk'.page = walk.page /\ walk'.limit = walk.limit /\ walk'.total = walk.total
        /\ walk'.seen = walk.seen /\ walk'.repeated = walk.repeated
        /\ walk'.unseen = walk.unseen \cap B
    BY <1>2 DEF Watch, WalkInv, TypeOK, Walks
  <2>2. ~walk'.grew => ~walk.grew /\ B \subseteq A
    BY <1>2 DEF Watch, WalkInv, TypeOK, Walks, Listing
  <2>3. ~walk'.torn => ~walk.torn /\ A \subseteq B /\ (walk.at = "find" => B \subseteq A)
    BY <1>2 DEF Watch, WalkInv, TypeOK, Walks, Listing
  <2>4. A \in SUBSET Box!Ids /\ B \in SUBSET Box!Ids /\ Listing' = B
    BY <2>1, ListingType DEF Listing
  <2>5. /\ walk.page \in Nat /\ walk.limit \in Nat /\ walk.seen \subseteq Box!Ids
        /\ Skip(walk.page, walk.limit) \in Int
    BY DEF WalkInv, TypeOK, Walks, Skip
  <2> HIDE DEF A, B
  <2>6. \A i \in A \cup B : Before(A, i) \in Nat /\ Before(B, i) \in Nat
    BY <2>4, PlaceType
  <2>7. /\ walk.page >= 1 /\ walk.limit >= 1 /\ walk.unseen \subseteq A
        /\ ~walk.torn => /\ \A i \in walk.unseen : Before(A, i) >= Skip(walk.page, walk.limit)
                         /\ walk.at = "find" => walk.total = Cardinality(A)
        /\ ~walk.grew => /\ ~walk.repeated
                         /\ \A i \in walk.seen \cap A : Before(A, i) < Skip(walk.page, walk.limit)
    BY <1>2 DEF WalkInv, Walking, A
  <2>8. ~walk'.torn =>
          /\ \A i \in walk'.unseen : Before(B, i) >= Skip(walk.page, walk.limit)
          /\ walk.at = "find" => walk.total = Cardinality(B)
    <3> SUFFICES ASSUME ~walk'.torn
                 PROVE  /\ \A i \in walk'.unseen : Before(B, i) >= Skip(walk.page, walk.limit)
                        /\ walk.at = "find" => walk.total = Cardinality(B)
      OBVIOUS
    <3>1. \A i \in walk.unseen : Before(B, i) >= Before(A, i)
      BY <2>3, <2>4, PlaceMonotone
    <3>2. \A i \in walk'.unseen : Before(B, i) >= Skip(walk.page, walk.limit)
      BY <2>1, <2>3, <2>5, <2>6, <2>7, <3>1
    <3>3. walk.at = "find" => A = B
      BY <2>3
    <3> QED BY <2>3, <2>7, <3>2, <3>3
  <2>9. ~walk'.grew =>
          \A i \in walk'.seen \cap B : Before(B, i) < Skip(walk.page, walk.limit)
    <3> SUFFICES ASSUME ~walk'.grew, NEW i \in walk.seen \cap B
                 PROVE  Before(B, i) < Skip(walk.page, walk.limit)
      BY <2>1
    <3>1. Before(B, i) <= Before(A, i)
      BY <2>2, <2>4, PlaceMonotone
    <3> QED BY <2>2, <2>5, <2>6, <2>7, <3>1
  <2>10. Walking'
    BY <2>1, <2>2, <2>4, <2>7, <2>8, <2>9 DEF Walking
  <2>11. WalkMissesNothing'
    BY <1>2, <2>1 DEF WalkMissesNothing
  <2> QED BY <2>10, <2>11 DEF WalkInv
<1> QED BY <1>1, <1>2

LEMMA StartWalkKeeps ==
  ASSUME WalkInv, TypeOK', NEW u \in Users, NEW filter \in Filters, NEW limit \in Limits,
         StartWalk(u, filter, limit)
  PROVE  WalkInv'
<1>1. /\ walk'.at = "count" /\ walk'.by = u /\ walk'.filter = filter /\ walk'.page = 1
      /\ walk'.limit = limit /\ walk'.seen = {} /\ walk'.repeated = FALSE
      /\ walk'.unseen = Listed(notification, u, filter)
      /\ notification' = notification /\ limit >= 1 /\ limit \in Nat
  BY LimitsAssumption DEF StartWalk, NewWalk, Accepts
<1>2. Listing' = Listed(notification, u, filter)
  BY <1>1 DEF Listing
<1>3. Skip(1, limit) = 0
  BY <1>1 DEF Skip
<1>4. \A i \in Listing' : Before(Listing', i) \in Nat
  BY <1>2, ListingType, PlaceType
<1> QED BY <1>1, <1>2, <1>3, <1>4 DEF WalkInv, Walking, WalkMissesNothing

LEMMA CountKeeps ==
  ASSUME WalkInv, TypeOK', Count
  PROVE  WalkInv'
<1>1. /\ walk'.at = "find" /\ walk'.by = walk.by /\ walk'.filter = walk.filter
      /\ walk'.page = walk.page /\ walk'.limit = walk.limit /\ walk'.seen = walk.seen
      /\ walk'.repeated = walk.repeated /\ walk'.unseen = walk.unseen
      /\ walk'.grew = walk.grew /\ walk'.torn = walk.torn
      /\ walk'.total = Cardinality(Listing)
      /\ notification' = notification /\ walk.at = "count"
  BY DEF Count, WalkInv, TypeOK, Walks, Listing
<1>2. Listing' = Listing
  BY <1>1 DEF Listing
<1> QED BY <1>1, <1>2 DEF WalkInv, Walking, WalkMissesNothing

(* A page moves the walk on; after the last one nothing is left to show.     *)
LEMMA FindManyKeeps ==
  ASSUME WalkInv, TypeOK', FindMany
  PROVE  WalkInv'
<1> DEFINE A == Listing
           rows == RowsOnPage(Listing, walk.page, walk.limit)
           unseen == walk.unseen \ rows
           seen == walk.seen \cup rows
           more == walk.page < TotalPages(walk.total, walk.limit)
           next == [walk EXCEPT !.at = "count", !.page = @ + 1, !.total = 0,
                                !.seen = @ \cup rows, !.unseen = @ \ rows,
                                !.repeated = @ \/ rows \cap walk.seen # {}]
<1>1. /\ walk.at = "find" /\ UNCHANGED <<notification, fresh, handler>>
      /\ walk' = IF more THEN next ELSE Ended(next)
  BY DEF FindMany, Listing
<1>2. /\ next.by = walk.by /\ next.filter = walk.filter /\ next.page = walk.page + 1
      /\ next.limit = walk.limit /\ next.at = "count"
      /\ next.seen = seen /\ next.unseen = unseen
      /\ next.grew = walk.grew /\ next.torn = walk.torn
  BY DEF WalkInv, TypeOK, Walks
<1>3. ~next.repeated <=> ~walk.repeated /\ rows \cap walk.seen = {}
  BY DEF WalkInv, TypeOK, Walks
<1> HIDE DEF next
<1>4. /\ Ended(next).at = "off" /\ Ended(next).unseen = next.unseen
      /\ Ended(next).torn = next.torn /\ Ended(next).grew = next.grew
      /\ Ended(next).repeated = next.repeated
  <2>1. next \in Walks
    <3>1. rows \in SUBSET Box!Ids
      BY DEF RowsOnPage, Listed, Listing
    <3> HIDE DEF rows
    <3> QED BY <3>1, NextPageType DEF next, WalkInv
  <2> QED BY <2>1 DEF Ended, Walks
<1>5. /\ walk.page \in Nat /\ walk.page >= 1 /\ walk.limit \in Nat /\ walk.limit >= 1
      /\ walk.total \in Nat
      /\ Skip(walk.page, walk.limit) \in Int
      /\ Skip(walk.page + 1, walk.limit) = Skip(walk.page, walk.limit) + walk.limit
  BY <1>1 DEF WalkInv, TypeOK, Walks, Walking, Skip
<1>6. A \in SUBSET Box!Ids /\ \A i \in A : Before(A, i) \in Nat
  BY ListingType, PlaceType DEF Listing
<1>7. /\ walk.unseen \subseteq A
      /\ ~walk.torn => /\ \A i \in walk.unseen : Before(A, i) >= Skip(walk.page, walk.limit)
                       /\ walk.total = Cardinality(A)
      /\ ~walk.grew => /\ ~walk.repeated
                       /\ \A i \in walk.seen \cap A : Before(A, i) < Skip(walk.page, walk.limit)
  BY <1>1 DEF WalkInv, Walking
<1> HIDE DEF A
<1>8. /\ rows \subseteq A
      /\ \A i \in A : i \in rows <=> /\ Before(A, i) >= Skip(walk.page, walk.limit)
                                     /\ Before(A, i) < Skip(walk.page + 1, walk.limit)
  BY <1>5, <1>6, PageShows DEF A, RowsOnPage
<1> HIDE DEF rows
<1>9. ~walk.torn => \A i \in unseen : Before(A, i) >= Skip(walk.page + 1, walk.limit)
  BY <1>5, <1>6, <1>7, <1>8
<1>10. ~walk.grew => /\ rows \cap walk.seen = {}
                     /\ \A i \in seen \cap A : Before(A, i) < Skip(walk.page + 1, walk.limit)
  <2> SUFFICES ASSUME ~walk.grew
               PROVE  /\ rows \cap walk.seen = {}
                      /\ \A i \in seen \cap A : Before(A, i) < Skip(walk.page + 1, walk.limit)
    OBVIOUS
  <2>1. \A i \in walk.seen \cap A : Before(A, i) < Skip(walk.page, walk.limit)
    BY <1>7
  <2>2. rows \cap walk.seen = {}
    BY <1>5, <1>6, <1>8, <2>1
  <2> QED BY <1>5, <1>6, <1>8, <2>1, <2>2
<1>11. CASE more
  <2>1. walk' = next /\ Listing' = A
    BY <1>1, <1>2, <1>11 DEF Listing, A
  <2>2. Walking'
    <3>1. walk'.unseen \subseteq A
      BY <1>2, <1>7, <2>1
    <3>2. ~walk'.torn => \A i \in walk'.unseen : Before(A, i) >= Skip(walk'.page, walk'.limit)
      BY <1>2, <1>9, <2>1
    <3>3. ~walk'.grew => /\ ~walk'.repeated
                         /\ \A i \in walk'.seen \cap A : Before(A, i) < Skip(walk'.page, walk'.limit)
      BY <1>2, <1>3, <1>7, <1>10, <2>1
    <3>4. walk'.page >= 1 /\ walk'.limit >= 1 /\ walk'.at = "count"
      BY <1>2, <1>5, <2>1
    <3> QED BY <2>1, <3>1, <3>2, <3>3, <3>4 DEF Walking
  <2>3. walk'.at = "count"
    BY <1>2, <2>1
  <2> QED BY <2>2, <2>3 DEF WalkInv, WalkMissesNothing
<1>12. CASE ~more
  <2>1. walk' = Ended(next)
    BY <1>1, <1>12
  <2>2. ~walk.torn => unseen = {}
    <3> SUFFICES ASSUME ~walk.torn, NEW i \in unseen PROVE FALSE
      OBVIOUS
    <3>1. Cardinality(A) <= Skip(walk.page + 1, walk.limit)
      BY <1>5, <1>7, <1>12, LastPage
    <3>2. i \in A /\ Before(A, i) < Cardinality(A) /\ Cardinality(A) \in Nat
      BY <1>6, <1>7, PlaceInside
    <3> QED BY <1>5, <1>6, <1>9, <3>1, <3>2
  <2>3. WalkMissesNothing'
    BY <1>2, <1>3, <1>4, <1>7, <1>10, <2>1, <2>2 DEF WalkMissesNothing
  <2>4. Walking'
    BY <1>4, <2>1 DEF Walking
  <2> QED BY <2>3, <2>4 DEF WalkInv
<1> QED BY <1>11, <1>12

LEMMA WalkNext == WalkInv /\ [Next]_vars => WalkInv'
<1> SUFFICES ASSUME WalkInv, [Next]_vars PROVE WalkInv'
  OBVIOUS
<1>0. TypeOK'
  BY TypeNext DEF WalkInv
<1>1. ASSUME NEW u \in Users, NEW isRead \in BOOLEAN, createNotification(u, isRead)
      PROVE  WalkInv'
  BY <1>0, <1>1, WatchKeeps DEF createNotification
<1>2. ASSUME UNCHANGED <<notification, walk>> PROVE WalkInv'
  BY <1>0, <1>2 DEF WalkInv, Walking, WalkMissesNothing, Listing
<1>3. ASSUME NEW h \in Handlers, Write(h) PROVE WalkInv'
  BY <1>0, <1>3, WatchKeeps DEF Write
<1>4. ASSUME NEW u \in Users, NEW filter \in Filters, NEW limit \in Limits,
             StartWalk(u, filter, limit)
      PROVE  WalkInv'
  BY <1>0, <1>4, StartWalkKeeps
<1>5. CASE Count
  BY <1>0, <1>5, CountKeeps
<1>6. CASE FindMany
  BY <1>0, <1>6, FindManyKeeps
<1> QED
  BY <1>1, <1>2, <1>3, <1>4, <1>5, <1>6 DEF Next, Arrive, FindUnique, vars

(* Whoever walks the pages of a listing sees every row that stays in it,     *)
(* unless a row leaves it, or comes in between a page's count and its rows;  *)
(* and sees no row twice unless one comes in.                                *)
THEOREM WalksMissNothing == Spec => []WalkMissesNothing
  BY WalkInit, WalkNext, PTL DEF Spec, WalkInv

(* Every row of a listing that stands still is on one page, and that page is *)
(* one of those the pagination counts.                                       *)
THEOREM EachRowHasOnePage ==
  ASSUME NEW A \in SUBSET Box!Ids, NEW i \in A, NEW limit \in Nat, limit >= 1
  PROVE  \E page \in 1..TotalPages(Cardinality(A), limit) :
           /\ i \in RowsOnPage(A, page, limit)
           /\ \A other \in Nat \ {0, page} : i \notin RowsOnPage(A, other, limit)
<1> DEFINE place == Before(A, i)
           total == Cardinality(A)
           q == place \div limit
           page == q + 1
<1>1. place \in Nat /\ total \in Nat /\ place < total
  BY PlaceType, PlaceInside
<1> HIDE DEF place, total
<1>2. q \in Nat /\ limit * q <= place /\ place < limit * q + limit /\ limit * q \in Nat
  BY <1>1
<1> HIDE DEF q
<1>3. Skip(page, limit) = limit * q /\ Skip(page + 1, limit) = limit * q + limit
  BY <1>2 DEF Skip
<1>4. page \in Nat /\ page >= 1
  BY <1>2
<1>5. i \in RowsOnPage(A, page, limit)
  BY <1>1, <1>2, <1>3, <1>4, PageShows DEF place
<1>6. page <= TotalPages(total, limit)
  <2> SUFFICES ASSUME ~(page <= TotalPages(total, limit)) PROVE FALSE
    OBVIOUS
  <2>1. TotalPages(total, limit) \in Int
    BY <1>1 DEF TotalPages
  <2>2. ~(q < TotalPages(total, limit))
    BY <1>2, <2>1
  <2>3. total <= Skip(q + 1, limit)
    BY <1>1, <1>2, <2>2, LastPage
  <2> QED BY <1>1, <1>2, <1>3, <2>3
<1>7. ASSUME NEW other \in Nat \ {0, page}, i \in RowsOnPage(A, other, limit) PROVE FALSE
  <2>1. place >= Skip(other, limit) /\ place < Skip(other + 1, limit)
    BY <1>7, PageShows DEF place
  <2>2. /\ Skip(other, limit) = limit * (other - 1) /\ limit * (other - 1) \in Int
        /\ Skip(other + 1, limit) = limit * (other - 1) + limit
    BY DEF Skip
  <2>3. CASE other < page
    <3>1. limit * (other - 1) <= limit * (q - 1) /\ limit * (q - 1) = limit * q - limit
      BY <1>2, <2>3
    <3> QED BY <1>1, <1>2, <2>1, <2>2, <3>1
  <2>4. CASE other > page
    <3>1. limit * (other - 1) >= limit * (q + 1) /\ limit * (q + 1) = limit * q + limit
      BY <1>2, <2>4
    <3> QED BY <1>1, <1>2, <2>1, <2>2, <3>1
  <2> QED BY <1>2, <2>3, <2>4
<1> QED BY <1>4, <1>5, <1>6, <1>7 DEF total
=============================================================================
