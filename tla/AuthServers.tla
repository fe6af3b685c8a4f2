---------------------------- MODULE AuthServers ----------------------------
(***************************************************************************)
(* The auth-server list of conf.c at run time: the singly-linked list of   *)
(* t_serv records headed by config.auth_servers, read without a lock by    *)
(* get_auth_server() (lines 1050-1055) and rotated by                      *)
(* mark_auth_server_bad() (lines 1095-1111).  Every pointer store of the   *)
(* rotation is a step of its own, so that the unlocked readers of other    *)
(* threads see every intermediate list.                                    *)
(*                                                                         *)
(* The callers of mark_auth_server_bad() live outside conf.c: they hold   *)
(* the configuration lock (LOCK_CONFIG) around the call, and decide that  *)
(* a server they got from get_auth_server() is unreachable.  Those steps   *)
(* (Report, Lock, Unlock) are modelled from spec section 5.               *)
(***************************************************************************)
EXTENDS Integers, Sequences, FiniteSets

CONSTANTS
  Node,      \* the t_serv records of the auth list
  Servers,   \* the auth list config_read() built, first server first
  Thread,    \* the worker threads of the gateway
  NULL,      \* the NULL pointer
  NoThread   \* the lock is free

ASSUME ListAssumption ==
  /\ Servers \in Seq(Node) /\ Len(Servers) >= 1
  /\ \A i, j \in DOMAIN Servers : i # j => Servers[i] # Servers[j]
  /\ NULL \notin Node /\ NoThread \notin Thread

VARIABLES
  head,      \* config.auth_servers
  next,      \* next[n]: the next field of t_serv n
  lock,      \* the thread holding the configuration lock, or NoThread
  pc,        \* where each thread is
  seen,      \* seen[t]: the server t got from get_auth_server() (bad_server)
  tmp        \* tmp[t]: mark_auth_server_bad()'s local `tmp'

vars == <<head, next, lock, pc, seen, tmp>>

(***************************************************************************)
(* L is what a walk along next from node n meets: n first, each node's    *)
(* next the one after it, and the last one's next NULL.  The walks of     *)
(* lines 1100-1101 and of a reader end exactly when such an L exists; a   *)
(* list that comes back to a node has none.                                *)
(***************************************************************************)
ListFrom(n, L) ==
  /\ L # <<>> /\ L[1] = n
  /\ \A i, j \in DOMAIN L : i # j => L[i] # L[j]
  /\ \A i \in 1..Len(L) - 1 : next[L[i]] = L[i + 1]
  /\ next[L[Len(L)]] = NULL

(* The candidates for L; a model overrides it with the finite sequences    *)
(* without repetition, which are all the ones ListFrom can hold of.        *)
Lists == Seq(Node)

(* Following next from config.auth_servers ends at NULL. *)
Terminated == \E L \in Lists : ListFrom(head, L)

(* The list as a reader walking from the head meets it. *)
TheList == CHOOSE L \in Lists : ListFrom(head, L)

(* Where node n stands in the list config_read() built. *)
Pos(n) == CHOOSE i \in DOMAIN Servers : Servers[i] = n

(* The list config_read() leaves, parse_server() appending at the tail:   *)
(* Servers linked in order, the last one's next NULL (lines 453-463).      *)
Init ==
  /\ head = Servers[1]
  /\ next = [n \in Node |->
              IF \E i \in 1..Len(Servers) - 1 : Servers[i] = n
              THEN Servers[Pos(n) + 1] ELSE NULL]
  /\ lock = NoThread
  /\ pc = [t \in Thread |-> "idle"]
  /\ seen = [t \in Thread |-> NULL]
  /\ tmp = [t \in Thread |-> NULL]

(* get_auth_server(), lines 1050-1055: an unlocked read of the head.      *)
GetAuthServer(t) ==
  /\ pc[t] = "idle"
  /\ seen' = [seen EXCEPT ![t] = head]
  /\ pc' = [pc EXCEPT ![t] = "using"]
  /\ UNCHANGED <<head, next, lock, tmp>>

(* The caller either is served, or finds the server unreachable and goes  *)
(* to report it (spec 5).                                                  *)
Served(t) ==
  /\ pc[t] = "using"
  /\ pc' = [pc EXCEPT ![t] = "idle"]
  /\ UNCHANGED <<head, next, lock, seen, tmp>>

Report(t) ==
  /\ pc[t] = "using"
  /\ pc' = [pc EXCEPT ![t] = "lock"]
  /\ UNCHANGED <<head, next, lock, seen, tmp>>

(* LOCK_CONFIG() around the call (spec 5).                                 *)
Lock(t) ==
  /\ pc[t] = "lock" /\ lock = NoThread
  /\ lock' = t
  /\ pc' = [pc EXCEPT ![t] = "check"]
  /\ UNCHANGED <<head, next, seen, tmp>>

(***************************************************************************)
(* Lines 1099-1101: if the head is still bad_server and has a successor,   *)
(* walk tmp to the last node; otherwise return at once.  The walk ends     *)
(* only on a node whose next is NULL: on a list that comes back to itself  *)
(* the thread spins for ever, holding the lock.                            *)
(***************************************************************************)
(* The check of line 1099 without its config.auth_servers == bad_server   *)
(* test: a report is acted on whichever server is first by now.            *)
MarkCheckAnyHead(t) ==
  /\ pc[t] = "check"
  /\ IF next[seen[t]] # NULL
     THEN /\ Terminated
          /\ tmp' = [tmp EXCEPT ![t] = TheList[Len(TheList)]]
          /\ pc' = [pc EXCEPT ![t] = "link"]
     ELSE /\ pc' = [pc EXCEPT ![t] = "unlock"]
          /\ UNCHANGED tmp
  /\ UNCHANGED <<head, next, lock, seen>>

MarkCheck(t) ==
  /\ pc[t] = "check"
  /\ IF head = seen[t] /\ next[seen[t]] # NULL
     THEN /\ Terminated
          /\ tmp' = [tmp EXCEPT ![t] = TheList[Len(TheList)]]
          /\ pc' = [pc EXCEPT ![t] = "link"]
     ELSE /\ pc' = [pc EXCEPT ![t] = "unlock"]
          /\ UNCHANGED tmp
  /\ UNCHANGED <<head, next, lock, seen>>

(* Line 1103: tmp->next = bad_server. *)
MarkLink(t) ==
  /\ pc[t] = "link"
  /\ next' = [next EXCEPT ![tmp[t]] = seen[t]]
  /\ pc' = [pc EXCEPT ![t] = "head"]
  /\ UNCHANGED <<head, lock, seen, tmp>>

(* A mix-up of the two pointers on line 1105: config.auth_servers = tmp->next. *)
MarkHeadFromTmp(t) ==
  /\ pc[t] = "head"
  /\ head' = next[tmp[t]]
  /\ pc' = [pc EXCEPT ![t] = "unlink"]
  /\ UNCHANGED <<next, lock, seen, tmp>>

(* Line 1105: config.auth_servers = bad_server->next. *)
MarkHead(t) ==
  /\ pc[t] = "head"
  /\ head' = next[seen[t]]
  /\ pc' = [pc EXCEPT ![t] = "unlink"]
  /\ UNCHANGED <<next, lock, seen, tmp>>

(* Line 1107 left out: the old tail keeps pointing at bad_server.          *)
MarkUnlinkKeepsLink(t) ==
  /\ pc[t] = "unlink"
  /\ pc' = [pc EXCEPT ![t] = "unlock"]
  /\ UNCHANGED <<head, next, lock, seen, tmp>>

(* Line 1107: tmp->next = NULL; line 1108 only clears the local copy.      *)
MarkUnlink(t) ==
  /\ pc[t] = "unlink"
  /\ next' = [next EXCEPT ![tmp[t]] = NULL]
  /\ pc' = [pc EXCEPT ![t] = "unlock"]
  /\ UNCHANGED <<head, lock, seen, tmp>>

(* UNLOCK_CONFIG() after the call.                                         *)
Unlock(t) ==
  /\ pc[t] = "unlock"
  /\ lock' = NoThread
  /\ pc' = [pc EXCEPT ![t] = "idle"]
  /\ UNCHANGED <<head, next, seen, tmp>>

(* The steps a thread takes while it holds the lock. *)
Holding(t) == MarkCheck(t) \/ MarkLink(t) \/ MarkHead(t) \/ MarkUnlink(t) \/ Unlock(t)

Next ==
  \E t \in Thread :
    \/ GetAuthServer(t) \/ Served(t) \/ Report(t) \/ Lock(t)
    \/ Holding(t)

Spec == Init /\ [][Next]_vars

(* A thread that holds the lock runs on: the code under it never blocks.   *)
FairSpec == Spec /\ \A t \in Thread : WF_vars(Holding(t))

-----------------------------------------------------------------------------
(***************************************************************************)
(* Whenever the lock is free, following next from config.auth_servers     *)
(* ends at NULL without coming back to a node: the walk that starts the   *)
(* next mark_auth_server_bad() terminates, and a reader that walks the    *)
(* list does too.                                                          *)
(***************************************************************************)
ListWellFormed ==
  lock = NoThread => Terminated

(***************************************************************************)
(* Spec 5: a reader that takes the head without the lock sees the list    *)
(* before or after a rotation, never a partially linked one: at every     *)
(* moment, even while mark_auth_server_bad() is half way, following next  *)
(* from config.auth_servers ends at NULL.                                 *)
(***************************************************************************)
ListNeverTorn == Terminated

(***************************************************************************)
(* A stale report changes nothing at the head (the test of line 1099): the *)
(* current server changes only under the lock, on behalf of the thread     *)
(* that got that very server from get_auth_server(), and only to the next  *)
(* server of the list.  Another thread may have rotated since the reporter *)
(* read the head without the lock.                                          *)
(***************************************************************************)
HeadMovesOnlyForReporter ==
  [][head' # head =>
       \E t \in Thread : lock = t /\ seen[t] = head /\ head' = next[head]]_vars

(***************************************************************************)
(* A thread that finds the server it reported still first, with another   *)
(* behind it, eventually sees it demoted: the head moves on, whatever the *)
(* other threads read or report meanwhile.                                 *)
(***************************************************************************)
ReportedHeadDemoted ==
  \A t \in Thread :
    (pc[t] = "check" /\ head = seen[t] /\ next[head] # NULL) ~> head # seen[t]

=============================================================================
