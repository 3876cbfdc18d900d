\* One mail, the attempts of the code, a stall less than its and the restarts to spend them;
\* two sockets, one room.
CONSTANTS
  Mails = {mail}
  Attempts = 3
  MaxStalledCount = 2
  MaxRestarts = 3
  Sockets = {s1, s2}
  Rooms = {lobby}
SPECIFICATION Spec
INVARIANTS CopiesTakeAStall SuccessIsDelivered HearsTheOthers RoomTraffic
PROPERTIES EachJobEnds
