--------------------------- MODULE NotificationBox ---------------------------
(* What the notification endpoints promise of a user's box: a call that      *)
(* marks, deletes or views a notification takes effect in one step between   *)
(* its arrival and its answer, and answers what that step found.             *)
(* Notifications does it in two statements without a transaction.            *)
EXTENDS Naturals

CONSTANTS MaxRows,     \* bound on the notifications ever created
          Users, NoUser,
          Handlers     \* requests served at a time

VARIABLES notification,   \* the table, by primary key in the order of the keys
          fresh,          \* the keys not drawn yet
          call            \* per handler, the request it serves, or its last answer's status

boxVars == <<notification, fresh, call>>

Ids == 1 .. MaxRows
Rows == [userId : Users, isRead : BOOLEAN]
NoRow == [userId |-> NoUser, isRead |-> FALSE]

Ops == {"markAsRead", "delete", "view"}
Free(status) == [op |-> "none", id |-> 0, by |-> NoUser, status |-> status]
Asked == [op : Ops, id : Ids, by : Users \cup {NoUser}, status : {0}]

BoxInit == /\ notification = [i \in Ids |-> NoRow]
           /\ fresh = Ids
           /\ call = [h \in Handlers |-> Free(0)]

Pending(h) == call[h].op # "none"
Answer(h, status) == call' = [call EXCEPT ![h] = Free(status)]

(* A view finds a row of its own user, the other calls any row.              *)
Finds(h) == LET row == notification[call[h].id]
            IN  row # NoRow /\ (call[h].op = "view" => row.userId = call[h].by)

(* The table after the call.                                                 *)
Done(h) ==
  CASE call[h].op = "markAsRead" -> [notification EXCEPT ![call[h].id].isRead = TRUE]
    [] call[h].op = "delete"     -> [notification EXCEPT ![call[h].id] = NoRow]
    [] OTHER                     -> notification

createNotification(u, isRead) ==
  /\ \E i \in fresh :
       /\ notification' = [notification EXCEPT ![i] = [userId |-> u, isRead |-> isRead]]
       /\ fresh' = fresh \ {i}
  /\ UNCHANGED call

Arrive(h, request) == /\ ~Pending(h)
                      /\ call' = [call EXCEPT ![h] = request]
                      /\ UNCHANGED <<notification, fresh>>

TakeEffect(h) ==
  /\ Pending(h)
  /\ \/ Finds(h) /\ notification' = Done(h) /\ Answer(h, 200)
     \/ ~Finds(h) /\ Answer(h, 404) /\ UNCHANGED notification
  /\ UNCHANGED fresh

BoxNext == \/ \E u \in Users, isRead \in BOOLEAN : createNotification(u, isRead)
           \/ \E h \in Handlers : \/ \E request \in Asked : Arrive(h, request)
                                  \/ TakeEffect(h)

BoxSpec == BoxInit /\ [][BoxNext]_boxVars
=============================================================================
