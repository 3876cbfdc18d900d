----------------------------- MODULE Delivery -----------------------------
(* What leaves the backend process besides the answers of its endpoints:     *)
(* e-mails through a queue that survives the process, and events on sockets  *)
(* that do not.                                                              *)
EXTENDS EmailQueue, Websocket

vars == <<emailVars, socketVars>>

Init == EmailInit /\ SocketInit

Restart == EmailRestart /\ SocketRestart

Next == \/ EmailStep /\ UNCHANGED socketVars
        \/ SocketStep /\ UNCHANGED emailVars
        \/ Restart

Spec == Init /\ [][Next]_vars /\ EmailFairness

(* Jobs, mails, sockets and rooms keep their types, and the service's map    *)
(* holds no socket that has gone.                                            *)
TypeOK == EmailTypeOK /\ SocketTypeOK
=============================================================================
