---------------------------- MODULE Notifications ----------------------------
(* The notifications of the backend: markAsRead and deleteNotification look  *)
(* the row up and then write it, two awaited statements without a            *)
(* transaction; getNotifications counts and then reads a page, and a client  *)
(* walks the pages while rows come and go.                                   *)
(*                                                                           *)
(* Users are never deleted, so the cascade from users has nothing to do.     *)
EXTENDS Http

CONSTANTS MaxRows, Users, NoUser, Handlers,
          Filters,     \* what isRead may be: {TRUE}, {FALSE}, or both when it is not given
          Limits       \* page sizes asked for

VARIABLES notification, fresh,
          handler,     \* per handler, the request, its status, and whether it found its row
          walk         \* one client going through the pages of a listing

rowVars == <<notification, fresh>>
vars == <<notification, fresh, handler, walk>>

call == [h \in Handlers |-> [op |-> handler[h].op, id |-> handler[h].id,
                             by |-> handler[h].by, status |-> handler[h].status]]
Box == INSTANCE NotificationBox

ASSUME MaxRowsAssumption == MaxRows \in Nat
ASSUME FiltersAssumption == Filters \subseteq SUBSET BOOLEAN
ASSUME LimitsAssumption == Limits \subseteq Nat

(* seen and repeated: the rows shown, and whether one was shown twice.  What *)
(* happened to the listing meanwhile: unseen, the rows that were in it all   *)
(* along and were not shown; grew; torn, if a row left it, or came in between*)
(* a count and its rows.  A walk that has ended keeps only its history.      *)
Walks == [at : {"off", "count", "find"}, by : Users \cup {NoUser}, filter : Filters \cup {BOOLEAN},
          page : Nat, limit : Nat, total : Nat, seen : SUBSET Box!Ids, repeated : BOOLEAN,
          unseen : SUBSET Box!Ids, grew : BOOLEAN, torn : BOOLEAN]

Free(status) ==
  [op |-> "none", id |-> 0, by |-> NoUser, status |-> status, found |-> FALSE]
Busy == {c \in [op : Box!Ops, id : Box!Ids, by : Users \cup {NoUser}, status : {0},
                 found : BOOLEAN] : c.found => c.op # "view"}

TypeOK == /\ notification \in [Box!Ids -> Box!Rows \cup {Box!NoRow}]
          /\ fresh \subseteq Box!Ids
          /\ handler \in [Handlers -> Busy \cup {Free(status) : status \in {0, 200, 404}}]
          /\ walk \in Walks

Listed(rows, u, filter) ==
  {i \in Box!Ids : rows[i].userId = u /\ rows[i].isRead \in filter}

NewWalk(u, filter, limit) ==
  [at |-> "count", by |-> u, filter |-> filter, page |-> 1, limit |-> limit, total |-> 0,
   seen |-> {}, repeated |-> FALSE, unseen |-> Listed(notification, u, filter),
   grew |-> FALSE, torn |-> FALSE]
Ended(w) == [w EXCEPT !.at = "off", !.by = NoUser, !.filter = BOOLEAN, !.page = 1,
                      !.limit = 1, !.total = 0, !.seen = {}]

Init == /\ notification = [i \in Box!Ids |-> Box!NoRow]
        /\ fresh = Box!Ids
        /\ handler = [h \in Handlers |-> Free(0)]
        /\ walk = Ended(NewWalk(NoUser, {}, 1))

(* The walk's history, when the table becomes rows.                          *)
Watch(rows) ==
  LET before == Listed(notification, walk.by, walk.filter)
      after  == Listed(rows, walk.by, walk.filter)
  IN  walk' = IF walk.at = "off" THEN walk
              ELSE [walk EXCEPT !.unseen = @ \cap after,
                                !.grew = @ \/ ~(after \subseteq before),
                                !.torn = \/ @ \/ ~(before \subseteq after)
                                         \/ walk.at = "find" /\ ~(after \subseteq before)]

-----------------------------------------------------------------------------
createNotification(u, isRead) ==
  /\ \E i \in fresh :
       /\ notification' = [notification EXCEPT ![i] = [userId |-> u, isRead |-> isRead]]
       /\ fresh' = fresh \ {i}
  /\ Watch(notification')
  /\ UNCHANGED handler

Pending(h) == handler[h].op # "none"

(* PATCH :id/read, DELETE :id, GET :id, with the id of some row, deleted     *)
(* since or not: nobody knows the key of a row that is still to come.  Only  *)
(* the view asks who is calling.                                             *)
Arrive(h, op, i, u) ==
  /\ ~Pending(h) /\ i \notin fresh
  /\ (u = NoUser) = (op # "view")
  /\ handler' = [handler EXCEPT ![h] = [op |-> op, id |-> i, by |-> u, status |-> 0,
                                        found |-> FALSE]]
  /\ UNCHANGED <<notification, fresh, walk>>

Finds(h) == LET row == notification[handler[h].id]
            IN  row # Box!NoRow /\ (handler[h].op = "view" => row.userId = handler[h].by)

(* findUnique, the first statement of each of the three, the only one of a   *)
(* view; what is missing is a NotFoundException.                             *)
FindUnique(h) ==
  /\ Pending(h) /\ ~handler[h].found
  /\ handler' = [handler EXCEPT ![h] = IF ~Finds(h) THEN Free(404)
                                       ELSE IF @.op = "view" THEN Free(200)
                                       ELSE [@ EXCEPT !.found = TRUE]]
  /\ UNCHANGED <<notification, fresh, walk>>

(* update or delete by id: P2025 if the row has gone since.                  *)
Write(h) ==
  /\ Pending(h) /\ handler[h].found
  /\ LET i == handler[h].id
     IN  IF notification[i] = Box!NoRow
         THEN /\ handler' = [handler EXCEPT ![h] = Free(StatusOf("P2025"))]
              /\ UNCHANGED notification
         ELSE /\ handler' = [handler EXCEPT ![h] = Free(200)]
              /\ notification' = [notification EXCEPT ![i] =
                   IF handler[h].op = "delete" THEN Box!NoRow ELSE [@ EXCEPT !.isRead = TRUE]]
  /\ Watch(notification')
  /\ UNCHANGED fresh

-----------------------------------------------------------------------------
(* GET all, asked for page after page.                                       *)
StartWalk(u, filter, limit) ==
  /\ walk.at = "off"
  /\ Accepts(1, limit)
  /\ walk' = NewWalk(u, filter, limit)
  /\ UNCHANGED <<notification, fresh, handler>>

Count ==
  /\ walk.at = "count"
  /\ walk' = [walk EXCEPT !.at = "find",
                !.total = Cardinality(Listed(notification, walk.by, walk.filter))]
  /\ UNCHANGED <<notification, fresh, handler>>

(* findMany; the client goes on to the next page if meta says there is one.  *)
FindMany ==
  /\ walk.at = "find"
  /\ LET rows == RowsOnPage(Listed(notification, walk.by, walk.filter), walk.page, walk.limit)
         more == walk.page < TotalPages(walk.total, walk.limit)
         next == [walk EXCEPT !.at = "count", !.page = @ + 1, !.total = 0,
                              !.seen = @ \cup rows, !.unseen = @ \ rows,
                              !.repeated = @ \/ rows \cap walk.seen # {}]
     IN  walk' = IF more THEN next ELSE Ended(next)
  /\ UNCHANGED <<notification, fresh, handler>>

Next ==
  \/ \E u \in Users, isRead \in BOOLEAN : createNotification(u, isRead)
  \/ \E h \in Handlers :
       \/ \E op \in Box!Ops, i \in Box!Ids, u \in Users \cup {NoUser} : Arrive(h, op, i, u)
       \/ FindUnique(h) \/ Write(h)
  \/ \E u \in Users, filter \in Filters, limit \in Limits : StartWalk(u, filter, limit)
  \/ Count \/ FindMany

Spec == Init /\ [][Next]_vars

-----------------------------------------------------------------------------
(* Every call answers as if it had run alone at some moment between its      *)
(* arrival and its answer, whatever was deleted between its two statements:  *)
(* the exception filter gives the loser of that race the answer it would     *)
(* have had by coming later.                                                 *)
CallsAreAtomic == Box!BoxSpec

(* A client that walks the pages misses no row that was in the listing all   *)
(* along, unless a row left it meanwhile or came in between a page's count   *)
(* and its rows; and it sees a row twice only if one came in.                *)
WalkMissesNothing ==
  walk.at = "off" =>
    /\ ~walk.torn => walk.unseen = {}
    /\ ~walk.grew => ~walk.repeated
=============================================================================
