---------------------------- MODULE AuthRotation ----------------------------
(***************************************************************************)
(* What the auth-server list promises its users at run time (spec 5 and   *)
(* 8): worker threads read the current server without a lock, and marking *)
(* the current server bad demotes it to the tail of the list, keeping      *)
(* every other server in order, losing and duplicating none.  A report    *)
(* about a server that is no longer first changes nothing.                 *)
(***************************************************************************)
EXTENDS Integers, Sequences

CONSTANTS
  Node,      \* the t_serv records of the auth list
  Servers,   \* the auth list config_read() built, first server first
  Thread,    \* the worker threads of the gateway
  NULL

VARIABLES
  list,      \* the auth servers, in list order
  seen       \* seen[t]: the server thread t last got from get_auth_server()

Init ==
  /\ list = Servers
  /\ seen = [t \in Thread |-> NULL]

(* get_auth_server(): the first server. *)
GetServer(t) ==
  /\ list # <<>>
  /\ seen' = [seen EXCEPT ![t] = Head(list)]
  /\ UNCHANGED list

(* Demoting the first server, when it is the one the thread saw and it has *)
(* a successor.                                                             *)
MarkBad(t) ==
  /\ seen[t] = Head(list) /\ Len(list) > 1
  /\ list' = Append(Tail(list), Head(list))
  /\ UNCHANGED seen

Next == \E t \in Thread : GetServer(t) \/ MarkBad(t)

Spec == Init /\ [][Next]_<<list, seen>>

=============================================================================
