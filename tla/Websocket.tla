----------------------------- MODULE Websocket -----------------------------
(* The websocket gateway and its service: the sockets of the namespace and   *)
(* the rooms they are in, which socket.io keeps, and the map of connected    *)
(* clients, which the service keeps beside them.  A handler runs to          *)
(* completion.  What is emitted arrives, in order, as long as the socket is  *)
(* open.  Nothing in the repository calls the two broadcasts of the service. *)
EXTENDS FiniteSets

CONSTANTS Sockets,  \* ids of sockets, each used once
          Rooms     \* names of rooms that are no ids

ASSUME RoomsAssumption == Sockets \cap Rooms = {}

VARIABLES fresh,            \* ids not given out yet
          rooms,            \* per open socket, the rooms it is in
          connectedClients, \* of WebsocketService
          told,             \* per open socket, the rooms it was told it is in
          gaveUp,           \* open sockets that have left the room of their own id
          last              \* the broadcast of the last step, and whom it reached

socketVars == <<fresh, rooms, connectedClients, told, gaveUp, last>>

Open == DOMAIN rooms
RoomNames == Sockets \cup Rooms
Silence == [event |-> "none", of |-> "nobody", to |-> {}]

SocketTypeOK ==
  /\ fresh \subseteq Sockets /\ Open \subseteq Sockets \ fresh
  /\ rooms \in [Open -> SUBSET RoomNames] /\ told \in [Open -> SUBSET RoomNames]
  /\ connectedClients \subseteq Open
  /\ gaveUp \subseteq Open
  /\ last \in [event : {"none", "message", "all", "room"}, of : RoomNames \cup {"nobody"}, to : SUBSET Open]

SocketInit == /\ fresh = Sockets
              /\ rooms = [s \in {} |-> {}] /\ told = rooms
              /\ connectedClients = {}
              /\ gaveUp = {}
              /\ last = Silence

handleDisconnect(s) == connectedClients' = connectedClients \ {s}

(* socket.io lets a socket join the room of its own id first.                *)
handleConnection(s) ==
  /\ s \in fresh /\ fresh' = fresh \ {s}
  /\ rooms' = [c \in Open \cup {s} |-> IF c = s THEN {s} ELSE rooms[c]]
  /\ told' = [c \in Open \cup {s} |-> IF c = s THEN {} ELSE told[c]]
  /\ connectedClients' = connectedClients \cup {s}
  /\ last' = Silence
  /\ UNCHANGED gaveUp

Disconnect(s) ==
  /\ s \in Open
  /\ rooms' = [c \in Open \ {s} |-> rooms[c]]
  /\ told' = [c \in Open \ {s} |-> told[c]]
  /\ handleDisconnect(s)
  /\ gaveUp' = gaveUp \ {s}
  /\ last' = Silence
  /\ UNCHANGED fresh

handleJoinRoom(s, room) ==
  /\ s \in Open
  /\ rooms' = [rooms EXCEPT ![s] = @ \cup {room}]
  /\ told' = [told EXCEPT ![s] = @ \cup {room}]
  /\ gaveUp' = gaveUp \ ({s} \cap {room})
  /\ last' = Silence
  /\ UNCHANGED <<fresh, connectedClients>>

(* MUTANT: a socket is told that it has left, and stays.                     *)
handleLeaveRoomNot(s, room) ==
  /\ s \in Open
  /\ told' = [told EXCEPT ![s] = @ \ {room}]
  /\ gaveUp' = gaveUp \cup ({s} \cap {room})
  /\ last' = Silence
  /\ UNCHANGED <<fresh, rooms, connectedClients>>

handleLeaveRoom(s, room) ==
  /\ s \in Open
  /\ rooms' = [rooms EXCEPT ![s] = @ \ {room}]
  /\ told' = [told EXCEPT ![s] = @ \ {room}]
  /\ gaveUp' = gaveUp \cup ({s} \cap {room})
  /\ last' = Silence
  /\ UNCHANGED <<fresh, connectedClients>>

Emit(event, of, to) == /\ last' = [event |-> event, of |-> of, to |-> to]
                       /\ UNCHANGED <<fresh, rooms, connectedClients, told, gaveUp>>

(* MUTANT: the server emits, not the client's broadcast.                     *)
handleMessageToAll(s) == s \in Open /\ Emit("message", s, Open)

(* client.broadcast.emit: to every open socket outside of the sender's id,   *)
(* which to socket.io is the name of a room.                                 *)
handleMessage(s) == s \in Open /\ Emit("message", s, {c \in Open : s \notin rooms[c]})

(* emit of a socket that is not open goes nowhere.                           *)
broadcastToAll == Emit("all", "nobody", connectedClients \cap Open)
broadcastToRoom(room) ==
  Emit("room", room, {c \in connectedClients \cap Open : room \in rooms[c]})

(* The process dies: sockets and map with it.                                *)
SocketRestart == /\ rooms' = [s \in {} |-> {}] /\ told' = rooms'
                 /\ connectedClients' = {}
                 /\ gaveUp' = {}
                 /\ last' = Silence
                 /\ UNCHANGED fresh

SocketStep ==
  \/ \E s \in Sockets : \/ handleConnection(s) \/ Disconnect(s) \/ handleMessage(s)
                        \/ \E room \in RoomNames : handleJoinRoom(s, room) \/ handleLeaveRoom(s, room)
  \/ broadcastToAll
  \/ \E room \in RoomNames : broadcastToRoom(room)

-----------------------------------------------------------------------------
(* "Broadcast the message to all connected clients except the sender": a     *)
(* message reaches every other client the service has connected, but not the *)
(* ones that were told they are in the room of the sender's id, and not the  *)
(* sender unless it has left that room and not come back.                    *)
HearsTheOthers ==
  last.event = "message" =>
    last.to = {c \in connectedClients \ {last.of} : last.of \notin told[c]}
              \cup (gaveUp \cap {last.of})

(* Both broadcasts of the service reach whom the clients think they reach:   *)
(* every open socket, and those that were told they have joined the room and *)
(* not since that they have left it; also right after a restart.  A socket   *)
(* is in the room of its own id without having been told so.                 *)
RoomTraffic ==
  /\ last.event = "all"  => last.to = Open
  /\ last.event = "room" =>
       last.to = {c \in Open : \/ last.of \in told[c]
                               \/ last.of = c /\ c \notin gaveUp}
=============================================================================
