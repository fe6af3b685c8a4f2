------------------------- MODULE AuthServersProofs -------------------------
(***************************************************************************)
(* Proofs about the run-time auth list of conf.c (module AuthServers):    *)
(* whenever the configuration lock is free, the list headed by            *)
(* config.auth_servers ends at NULL, however the readers and the callers  *)
(* of mark_auth_server_bad() interleave.                                   *)
(***************************************************************************)
EXTENDS AuthServers, TLAPS

(* The places of a thread that holds the configuration lock. *)
LockedPc == {"check", "link", "head", "unlink", "unlock"}

TypeOK ==
  /\ head \in Node
  /\ next \in [Node -> Node \cup {NULL}]
  /\ lock \in Thread \cup {NoThread}
  /\ pc \in [Thread -> {"idle", "using", "lock"} \cup LockedPc]
  /\ seen \in [Thread -> Node \cup {NULL}]
  /\ tmp \in [Thread -> Node \cup {NULL}]

(***************************************************************************)
(* L is the list thread t is rotating: seen[t] first and tmp[t] last, each *)
(* node linked to the next, and, at each store of lines 1103-1107, the    *)
(* head and the last node's next as that store leaves them.                *)
(***************************************************************************)
Rotating(t, L) ==
  /\ L \in Seq(Node) /\ Len(L) >= 2
  /\ \A i, j \in DOMAIN L : i # j => L[i] # L[j]
  /\ \A i \in 1..Len(L) - 1 : next[L[i]] = L[i + 1]
  /\ L[1] = seen[t] /\ tmp[t] = L[Len(L)]
  /\ pc[t] = "link"   => head = L[1] /\ next[L[Len(L)]] = NULL
  /\ pc[t] = "head"   => head = L[1] /\ next[L[Len(L)]] = L[1]
  /\ pc[t] = "unlink" => head = L[2] /\ next[L[Len(L)]] = L[1]

(***************************************************************************)
(* The inductive invariant: exactly the lock holder is inside the          *)
(* critical section; the list ends at NULL unless the holder is between   *)
(* its link (line 1103) and its unlink (line 1107), where it has the       *)
(* shape that store left.                                                  *)
(***************************************************************************)
IInv ==
  /\ TypeOK
  /\ \A t \in Thread : pc[t] \in LockedPc <=> lock = t
  /\ (lock = NoThread \/ pc[lock] \in {"check", "unlock"}) => Terminated
  /\ \A t \in Thread :
       pc[t] \in {"link", "head", "unlink"} => \E L \in Lists : Rotating(t, L)

USE ListAssumption

-----------------------------------------------------------------------------
(* Frame facts: a step that keeps the list keeps Terminated, and one that  *)
(* also keeps thread u's locals keeps u's rotation.                        *)

LEMMA TerminatedFrame ==
  ASSUME head' = head, next' = next
  PROVE  Terminated' <=> Terminated
BY ZenonT(30) DEF Terminated, ListFrom

LEMMA RotatingFrame ==
  ASSUME NEW u, NEW L, Rotating(u, L),
         head' = head, next' = next,
         pc'[u] = pc[u], seen'[u] = seen[u], tmp'[u] = tmp[u]
  PROVE  Rotating(u, L)'
BY ZenonT(30) DEF Rotating

(* Where a node of the initial list stands in it. *)
LEMMA PosOfServer ==
  ASSUME NEW i \in DOMAIN Servers
  PROVE  Pos(Servers[i]) = i
<1>1. Pos(Servers[i]) \in DOMAIN Servers /\ Servers[Pos(Servers[i])] = Servers[i]
  BY ZenonT(30) DEF Pos
<1>. QED BY <1>1, SMTT(30)

-----------------------------------------------------------------------------
LEMMA InitIInv == Init => IInv
<1> SUFFICES ASSUME Init PROVE IInv
  OBVIOUS
<1>1. \A i \in 1..Len(Servers) - 1 : next[Servers[i]] = Servers[i + 1]
  <2> SUFFICES ASSUME NEW i \in 1..Len(Servers) - 1
               PROVE  next[Servers[i]] = Servers[i + 1]
    OBVIOUS
  <2>1. Pos(Servers[i]) = i BY PosOfServer, SMTT(30)
  <2>. QED BY <2>1, SMTT(30) DEF Init
<1>2. next[Servers[Len(Servers)]] = NULL
  BY SMTT(30) DEF Init
<1>3. next \in [Node -> Node \cup {NULL}]
  <2> SUFFICES ASSUME NEW n \in Node,
                      \E i \in 1..Len(Servers) - 1 : Servers[i] = n
               PROVE  Servers[Pos(n) + 1] \in Node
    BY SMTT(30) DEF Init
  <2>1. PICK i \in 1..Len(Servers) - 1 : Servers[i] = n
    OBVIOUS
  <2>2. Pos(n) = i BY <2>1, PosOfServer, SMTT(30)
  <2>. QED BY <2>1, <2>2, SMTT(30)
<1>4. TypeOK
  BY <1>3, SMTT(30) DEF Init, TypeOK, LockedPc
<1>5. Terminated
  <2>1. head = Servers[1] BY SMTT(30) DEF Init
  <2>2. Servers # <<>> BY SMTT(30)
  <2>3. ListFrom(head, Servers) BY <1>1, <1>2, <2>1, <2>2, SMTT(30) DEF ListFrom
  <2>. QED BY <2>3, SMTT(30) DEF Terminated, Lists
<1>. QED BY <1>4, <1>5, SMTT(30) DEF Init, IInv, LockedPc

-----------------------------------------------------------------------------
(* The steps of a thread outside the lock keep the invariant: they change  *)
(* neither the list, nor the lock, nor another thread's locals.            *)
LEMMA OutsideStepIInv ==
  ASSUME IInv, NEW t \in Thread,
         GetAuthServer(t) \/ Served(t) \/ Report(t)
  PROVE  IInv'
<1>0. /\ head' = head /\ next' = next /\ lock' = lock /\ tmp' = tmp
      /\ pc[t] \in {"idle", "using"}
      /\ \E v \in {"using", "idle", "lock"} : pc' = [pc EXCEPT ![t] = v]
      /\ seen' = seen \/ seen' = [seen EXCEPT ![t] = head]
  <2>1. CASE GetAuthServer(t) BY <2>1, ZenonT(30) DEF GetAuthServer
  <2>2. CASE Served(t) BY <2>2, ZenonT(30) DEF Served
  <2>3. CASE Report(t) BY <2>3, ZenonT(30) DEF Report
  <2>. QED BY <2>1, <2>2, <2>3, ZenonT(30)
<1>a. PICK v \in {"using", "idle", "lock"} : pc' = [pc EXCEPT ![t] = v]
  BY <1>0
<1>1. /\ head' = head /\ next' = next /\ lock' = lock /\ tmp' = tmp
      /\ pc[t] \in {"idle", "using"} /\ pc'[t] \in {"using", "idle", "lock"}
      /\ seen'[t] \in {seen[t], head}
      /\ \A u \in Thread \ {t} : pc'[u] = pc[u] /\ seen'[u] = seen[u]
      /\ pc' \in [Thread -> {"idle", "using", "lock"} \cup LockedPc]
      /\ seen' \in [Thread -> Node \cup {NULL}]
  BY <1>0, <1>a, SMTT(30) DEF IInv, TypeOK, LockedPc
<1>2. lock # t
  BY <1>1, ZenonT(30) DEF IInv, LockedPc
<1>3. TypeOK'
  BY <1>1, SMTT(30) DEF IInv, TypeOK, LockedPc
<1>4. (\A u \in Thread : pc[u] \in LockedPc <=> lock = u)'
  BY <1>1, <1>2, SMTT(30) DEF IInv, TypeOK, LockedPc
<1>5. ((lock = NoThread \/ pc[lock] \in {"check", "unlock"}) => Terminated)'
  <2>1. lock # NoThread => pc'[lock] = pc[lock]
    BY <1>1, <1>2, SMTT(30) DEF IInv, TypeOK
  <2>. QED BY <1>1, <2>1, TerminatedFrame, ZenonT(30) DEF IInv
<1>6. (\A u \in Thread :
         pc[u] \in {"link", "head", "unlink"} => \E L \in Lists : Rotating(u, L))'
  <2> SUFFICES ASSUME NEW u \in Thread, pc'[u] \in {"link", "head", "unlink"}
               PROVE  \E L \in Lists : Rotating(u, L)'
    OBVIOUS
  <2>1. u # t /\ pc'[u] = pc[u] /\ seen'[u] = seen[u] /\ tmp'[u] = tmp[u]
    BY <1>1, SMTT(30) DEF IInv, TypeOK
  <2>2. PICK L \in Lists : Rotating(u, L)
    BY <2>1, ZenonT(30) DEF IInv
  <2>. QED BY <1>1, <2>1, <2>2, RotatingFrame
<1>. QED BY <1>3, <1>4, <1>5, <1>6, ZenonT(30) DEF IInv

(* LOCK_CONFIG(): the thread takes the free lock. *)
LEMMA LockIInv ==
  ASSUME IInv, NEW t \in Thread, Lock(t)
  PROVE  IInv'
<1>1. /\ head' = head /\ next' = next /\ seen' = seen /\ tmp' = tmp
      /\ lock = NoThread /\ lock' = t /\ pc' = [pc EXCEPT ![t] = "check"]
  BY ZenonT(30) DEF Lock
<1>2. \A u \in Thread : pc[u] \notin LockedPc
  BY <1>1, SMTT(30) DEF IInv
<1>3. TypeOK'
  BY <1>1, SMTT(30) DEF IInv, TypeOK, LockedPc
<1>4. (\A u \in Thread : pc[u] \in LockedPc <=> lock = u)'
  BY <1>1, <1>2, SMTT(30) DEF IInv, TypeOK, LockedPc
<1>5. Terminated'
  BY <1>1, TerminatedFrame, ZenonT(30) DEF IInv
<1>6. (\A u \in Thread :
         pc[u] \in {"link", "head", "unlink"} => \E L \in Lists : Rotating(u, L))'
  BY <1>1, <1>2, SMTT(30) DEF IInv, TypeOK, LockedPc
<1>. QED BY <1>3, <1>4, <1>5, <1>6, ZenonT(30) DEF IInv

(* While t holds the lock, every other thread is outside it. *)
LEMMA HolderAlone ==
  ASSUME IInv, NEW t \in Thread, pc[t] \in LockedPc
  PROVE  /\ lock = t
         /\ \A u \in Thread \ {t} : pc[u] \notin LockedPc
BY SMTT(30) DEF IInv, TypeOK

(* Lines 1099-1101: the check, and the walk of tmp to the last node.       *)
LEMMA MarkCheckIInv ==
  ASSUME IInv, NEW t \in Thread, MarkCheck(t)
  PROVE  IInv'
<1>1. /\ pc[t] = "check"
      /\ head' = head /\ next' = next /\ lock' = lock /\ seen' = seen
  BY ZenonT(30) DEF MarkCheck
<1>2. /\ lock = t
      /\ \A u \in Thread \ {t} : pc[u] \notin LockedPc
  BY <1>1, HolderAlone, ZenonT(30) DEF LockedPc
<1>3. Terminated
  BY <1>1, <1>2, ZenonT(30) DEF IInv
<1>4. CASE head = seen[t] /\ next[seen[t]] # NULL
  <2>1. /\ tmp' = [tmp EXCEPT ![t] = TheList[Len(TheList)]]
        /\ pc' = [pc EXCEPT ![t] = "link"]
    BY <1>4, ZenonT(30) DEF MarkCheck
  <2>2. TheList \in Lists /\ ListFrom(head, TheList)
    BY <1>3, ZenonT(30) DEF Terminated, TheList
  <2>0. PICK L \in Lists : L = TheList
    BY <2>2
  <2>a. ListFrom(head, L)
    BY <2>0, <2>2, ZenonT(30)
  <2>3. Len(L) >= 2 /\ ListFrom(head, L)
    BY <1>4, <2>0, <2>a, SMTT(30) DEF ListFrom, Lists
  <2>b. tmp' = [tmp EXCEPT ![t] = L[Len(L)]]
    BY <2>0, <2>1, ZenonT(30)
  <2>4. TypeOK'
    BY <1>1, <2>1, <2>b, <2>3, SMTT(30) DEF IInv, TypeOK, Lists, LockedPc
  <2>5. (\A u \in Thread : pc[u] \in LockedPc <=> lock = u)'
    BY <1>1, <1>2, <2>1, SMTT(30) DEF IInv, TypeOK, LockedPc
  <2>6. ((lock = NoThread \/ pc[lock] \in {"check", "unlock"}) => Terminated)'
    BY <1>1, <1>2, <2>1, SMTT(30) DEF IInv, TypeOK
  <2>7. (\A u \in Thread :
           pc[u] \in {"link", "head", "unlink"} => \E M \in Lists : Rotating(u, M))'
    <3> SUFFICES ASSUME NEW u \in Thread, pc'[u] \in {"link", "head", "unlink"}
                 PROVE  \E M \in Lists : Rotating(u, M)'
      OBVIOUS
    <3>1. u = t
      BY <1>2, <2>1, SMTT(30) DEF IInv, TypeOK, LockedPc
    <3>2. Rotating(t, L)'
      BY <1>1, <1>4, <2>1, <2>b, <2>3, SMTT(30) DEF Rotating, ListFrom, Lists, IInv, TypeOK
    <3>. QED BY <3>1, <3>2, ZenonT(30)
  <2>. QED BY <2>4, <2>5, <2>6, <2>7, ZenonT(30) DEF IInv
<1>5. CASE ~(head = seen[t] /\ next[seen[t]] # NULL)
  <2>1. tmp' = tmp /\ pc' = [pc EXCEPT ![t] = "unlock"]
    BY <1>5, ZenonT(30) DEF MarkCheck
  <2>2. TypeOK'
    BY <1>1, <2>1, SMTT(30) DEF IInv, TypeOK, LockedPc
  <2>3. (\A u \in Thread : pc[u] \in LockedPc <=> lock = u)'
    BY <1>1, <1>2, <2>1, SMTT(30) DEF IInv, TypeOK, LockedPc
  <2>4. Terminated'
    BY <1>1, <1>3, TerminatedFrame
  <2>5. (\A u \in Thread :
           pc[u] \in {"link", "head", "unlink"} => \E L \in Lists : Rotating(u, L))'
    BY <1>2, <2>1, SMTT(30) DEF IInv, TypeOK, LockedPc
  <2>. QED BY <2>2, <2>3, <2>4, <2>5, ZenonT(30) DEF IInv
<1>. QED BY <1>4, <1>5, ZenonT(30)

(* Line 1103: tmp->next = bad_server closes the list into a ring.          *)
LEMMA MarkLinkIInv ==
  ASSUME IInv, NEW t \in Thread, MarkLink(t)
  PROVE  IInv'
<1>1. /\ pc[t] = "link" /\ pc' = [pc EXCEPT ![t] = "head"]
      /\ next' = [next EXCEPT ![tmp[t]] = seen[t]]
      /\ head' = head /\ lock' = lock /\ seen' = seen /\ tmp' = tmp
  BY ZenonT(30) DEF MarkLink
<1>2. /\ lock = t
      /\ \A u \in Thread \ {t} : pc[u] \notin LockedPc
  BY <1>1, HolderAlone, ZenonT(30) DEF LockedPc
<1>3. PICK L \in Lists : Rotating(t, L)
  BY <1>1, ZenonT(30) DEF IInv
<1>4. TypeOK'
  BY <1>1, <1>3, SMTT(30) DEF IInv, TypeOK, Lists, LockedPc, Rotating
<1>5. Rotating(t, L)'
  BY <1>1, <1>3, SMTT(30) DEF Rotating, Lists, IInv, TypeOK
<1>6. (\A u \in Thread : pc[u] \in LockedPc <=> lock = u)'
  BY <1>1, <1>2, SMTT(30) DEF IInv, TypeOK, LockedPc
<1>7. ((lock = NoThread \/ pc[lock] \in {"check", "unlock"}) => Terminated)'
  BY <1>1, <1>2, SMTT(30) DEF IInv, TypeOK
<1>8. (\A u \in Thread :
         pc[u] \in {"link", "head", "unlink"} => \E M \in Lists : Rotating(u, M))'
  BY <1>1, <1>2, <1>3, <1>5, SMTT(30) DEF IInv, TypeOK, LockedPc
<1>. QED BY <1>4, <1>6, <1>7, <1>8, ZenonT(30) DEF IInv

(* Line 1105: config.auth_servers = bad_server->next.                      *)
LEMMA MarkHeadIInv ==
  ASSUME IInv, NEW t \in Thread, MarkHead(t)
  PROVE  IInv'
<1>1. /\ pc[t] = "head" /\ pc' = [pc EXCEPT ![t] = "unlink"]
      /\ head' = next[seen[t]]
      /\ next' = next /\ lock' = lock /\ seen' = seen /\ tmp' = tmp
  BY ZenonT(30) DEF MarkHead
<1>2. /\ lock = t
      /\ \A u \in Thread \ {t} : pc[u] \notin LockedPc
  BY <1>1, HolderAlone, ZenonT(30) DEF LockedPc
<1>3. PICK L \in Lists : Rotating(t, L)
  BY <1>1, ZenonT(30) DEF IInv
<1>4. head' = L[2]
  BY <1>1, <1>3, SMTT(30) DEF Rotating, Lists
<1>5. TypeOK'
  BY <1>1, <1>3, <1>4, SMTT(30) DEF IInv, TypeOK, Lists, LockedPc, Rotating
<1>6. Rotating(t, L)'
  BY <1>1, <1>3, <1>4, SMTT(30) DEF Rotating, Lists, IInv, TypeOK
<1>7. (\A u \in Thread : pc[u] \in LockedPc <=> lock = u)'
  BY <1>1, <1>2, SMTT(30) DEF IInv, TypeOK, LockedPc
<1>8. ((lock = NoThread \/ pc[lock] \in {"check", "unlock"}) => Terminated)'
  BY <1>1, <1>2, SMTT(30) DEF IInv, TypeOK
<1>9. (\A u \in Thread :
         pc[u] \in {"link", "head", "unlink"} => \E M \in Lists : Rotating(u, M))'
  BY <1>1, <1>2, <1>3, <1>6, SMTT(30) DEF IInv, TypeOK, LockedPc
<1>. QED BY <1>5, <1>7, <1>8, <1>9, ZenonT(30) DEF IInv

(* Line 1107: tmp->next = NULL ends the list again, one node shorter: the  *)
(* list from the new head is the rotated list without its first node.      *)
LEMMA MarkUnlinkIInv ==
  ASSUME IInv, NEW t \in Thread, MarkUnlink(t)
  PROVE  IInv'
<1>1. /\ pc[t] = "unlink" /\ pc' = [pc EXCEPT ![t] = "unlock"]
      /\ next' = [next EXCEPT ![tmp[t]] = NULL]
      /\ head' = head /\ lock' = lock /\ seen' = seen /\ tmp' = tmp
  BY ZenonT(30) DEF MarkUnlink
<1>2. /\ lock = t
      /\ \A u \in Thread \ {t} : pc[u] \notin LockedPc
  BY <1>1, HolderAlone, ZenonT(30) DEF LockedPc
<1>3. PICK L \in Lists : Rotating(t, L)
  BY <1>1, ZenonT(30) DEF IInv
<1>4. TypeOK'
  BY <1>1, <1>3, SMTT(30) DEF IInv, TypeOK, Lists, LockedPc, Rotating
<1>5. ListFrom(head, Tail(L))'
  <2>1. /\ Len(Tail(L)) = Len(L) - 1
        /\ \A i \in 1..Len(L) - 1 : Tail(L)[i] = L[i + 1]
    BY <1>3, SMTT(30) DEF Rotating, Lists
  <2>0. head = L[2] /\ Len(L) >= 2 /\ L \in Seq(Node)
    BY <1>1, <1>3, ZenonT(30) DEF Rotating
  <2>2. Tail(L) # <<>> /\ Tail(L)[1] = head'
    <3>1. Tail(L)[1] = L[2]
      BY <2>0, <2>1, SMTT(30)
    <3>2. Tail(L) # <<>>
      <4>1. Len(Tail(L)) # 0
        BY <2>0, <2>1, SMTT(30)
      <4>2. Len(<<>>) = 0
        BY SMTT(30)
      <4>. QED BY <4>1, <4>2, ZenonT(30)
    <3>. QED BY <1>1, <2>0, <3>1, <3>2, ZenonT(30)
  <2>a. /\ next \in [Node -> Node \cup {NULL}]
        /\ tmp[t] = L[Len(L)]
        /\ \A i, j \in DOMAIN L : i # j => L[i] # L[j]
        /\ \A i \in 1..Len(L) - 1 : next[L[i]] = L[i + 1]
    BY <1>3, ZenonT(30) DEF Rotating, IInv, TypeOK
  <2>3. \A i, j \in DOMAIN Tail(L) : i # j => Tail(L)[i] # Tail(L)[j]
    BY <2>0, <2>1, <2>a, SMTT(30)
  <2>4. \A i \in 1..Len(Tail(L)) - 1 : next'[Tail(L)[i]] = Tail(L)[i + 1]
    BY <1>1, <2>0, <2>1, <2>a, SMTT(30)
  <2>5. next'[Tail(L)[Len(Tail(L))]] = NULL
    BY <1>1, <1>3, <2>1, SMTT(30) DEF Rotating, IInv, TypeOK
  <2>. QED BY <2>2, <2>3, <2>4, <2>5, ZenonT(30) DEF ListFrom
<1>6. Terminated'
  <2>1. Tail(L) \in Lists
    BY <1>3, SMTT(30) DEF Rotating, Lists
  <2>. QED BY <1>5, <2>1, ZenonT(30) DEF Terminated
<1>7. (\A u \in Thread : pc[u] \in LockedPc <=> lock = u)'
  BY <1>1, <1>2, SMTT(30) DEF IInv, TypeOK, LockedPc
<1>8. (\A u \in Thread :
         pc[u] \in {"link", "head", "unlink"} => \E M \in Lists : Rotating(u, M))'
  BY <1>1, <1>2, SMTT(30) DEF IInv, TypeOK, LockedPc
<1>. QED BY <1>4, <1>6, <1>7, <1>8, ZenonT(30) DEF IInv

(* UNLOCK_CONFIG(): the holder leaves; the list it leaves ends at NULL.    *)
LEMMA UnlockIInv ==
  ASSUME IInv, NEW t \in Thread, Unlock(t)
  PROVE  IInv'
<1>1. /\ pc[t] = "unlock" /\ pc' = [pc EXCEPT ![t] = "idle"]
      /\ lock' = NoThread
      /\ head' = head /\ next' = next /\ seen' = seen /\ tmp' = tmp
  BY ZenonT(30) DEF Unlock
<1>2. /\ lock = t
      /\ \A u \in Thread \ {t} : pc[u] \notin LockedPc
  BY <1>1, HolderAlone, ZenonT(30) DEF LockedPc
<1>3. Terminated
  BY <1>1, <1>2, ZenonT(30) DEF IInv
<1>4. TypeOK'
  BY <1>1, SMTT(30) DEF IInv, TypeOK, LockedPc
<1>5. (\A u \in Thread : pc[u] \in LockedPc <=> lock = u)'
  BY <1>1, <1>2, SMTT(30) DEF IInv, TypeOK, LockedPc
<1>6. Terminated'
  BY <1>1, <1>3, TerminatedFrame
<1>7. (\A u \in Thread :
         pc[u] \in {"link", "head", "unlink"} => \E M \in Lists : Rotating(u, M))'
  BY <1>1, <1>2, SMTT(30) DEF IInv, TypeOK, LockedPc
<1>. QED BY <1>4, <1>5, <1>6, <1>7, ZenonT(30) DEF IInv

LEMMA NextIInv == IInv /\ [Next]_vars => IInv'
<1> SUFFICES ASSUME IInv, [Next]_vars PROVE IInv'
  OBVIOUS
<1>1. CASE UNCHANGED vars
  <2>1. head' = head /\ next' = next /\ lock' = lock /\ pc' = pc
        /\ seen' = seen /\ tmp' = tmp
    BY <1>1, ZenonT(30) DEF vars
  <2>2. Terminated' <=> Terminated
    BY <2>1, TerminatedFrame
  <2>3. \A u \in Thread, L \in Lists : Rotating(u, L) => Rotating(u, L)'
    BY <2>1, RotatingFrame, ZenonT(30)
  <2>4. (TypeOK /\ \A t \in Thread : pc[t] \in LockedPc <=> lock = t)'
    BY <2>1, ZenonT(30) DEF IInv, TypeOK
  <2>. QED BY <2>1, <2>2, <2>3, <2>4, ZenonT(30) DEF IInv
<1>2. ASSUME NEW t \in Thread, GetAuthServer(t) \/ Served(t) \/ Report(t)
      PROVE  IInv'
  BY <1>2, OutsideStepIInv
<1>3. ASSUME NEW t \in Thread, Lock(t) PROVE IInv'
  BY <1>3, LockIInv
<1>4. ASSUME NEW t \in Thread, Holding(t) PROVE IInv'
  BY <1>4, MarkCheckIInv, MarkLinkIInv, MarkHeadIInv, MarkUnlinkIInv, UnlockIInv,
     ZenonT(30) DEF Holding
<1>. QED BY <1>1, <1>2, <1>3, <1>4, ZenonT(30) DEF Next

-----------------------------------------------------------------------------
(***************************************************************************)
(* ListWellFormed for every number of servers and threads: whenever no    *)
(* thread holds the configuration lock, following next from               *)
(* config.auth_servers ends at NULL, so the walk of lines 1100-1101 that   *)
(* starts the next mark_auth_server_bad() terminates.  The rotation's     *)
(* loss of the bad server (line 1107) does not endanger this: what is left *)
(* is still a NULL-terminated list.                                        *)
(***************************************************************************)
THEOREM ListAlwaysWellFormed == Spec => []ListWellFormed
<1>1. IInv => ListWellFormed
  BY ZenonT(30) DEF IInv, ListWellFormed
<1>. QED BY <1>1, InitIInv, NextIInv, PTL DEF Spec

(* Only line 1105 moves the head, and then from bad_server to its next.    *)
LEMMA HeadStep ==
  ASSUME IInv, [Next]_vars, head' # head
  PROVE  \E t \in Thread : lock = t /\ seen[t] = head /\ head' = next[head]
<1>1. ~UNCHANGED vars
  BY ZenonT(30) DEF vars
<1>2. PICK t \in Thread : GetAuthServer(t) \/ Served(t) \/ Report(t) \/ Lock(t)
                         \/ Holding(t)
  BY <1>1, ZenonT(30) DEF Next
<1>3. MarkHead(t)
  BY <1>2, ZenonT(30) DEF GetAuthServer, Served, Report, Lock, Holding, MarkCheck,
                     MarkLink, MarkUnlink, Unlock
<1>4. pc[t] = "head" /\ head' = next[seen[t]]
  BY <1>3, ZenonT(30) DEF MarkHead
<1>5. lock = t
  BY <1>4, HolderAlone, ZenonT(30) DEF LockedPc
<1>6. PICK L \in Lists : Rotating(t, L)
  BY <1>4, ZenonT(30) DEF IInv
<1>7. seen[t] = head
  BY <1>4, <1>6, ZenonT(30) DEF Rotating
<1>. QED BY <1>4, <1>5, <1>7, ZenonT(30)

(***************************************************************************)
(* HeadMovesOnlyForReporter for every number of servers and threads: the  *)
(* current auth server changes only under the lock, for the thread that   *)
(* got it from get_auth_server(), and only to its successor; a report that *)
(* another thread's rotation made stale leaves the head alone.  The       *)
(* invariant supplies what the step at line 1105 needs: the holder is the *)
(* lock owner and, having passed line 1099, still has the head as          *)
(* bad_server.                                                             *)
(***************************************************************************)
THEOREM StaleReportsKeepHead == Spec => HeadMovesOnlyForReporter
<1>1. IInv /\ [Next]_vars =>
        [head' # head =>
           \E t \in Thread : lock = t /\ seen[t] = head /\ head' = next[head]]_vars
  BY HeadStep, ZenonT(30)
<1>. QED BY <1>1, InitIInv, NextIInv, PTL DEF Spec, HeadMovesOnlyForReporter

=============================================================================
