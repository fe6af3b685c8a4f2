--------------------------- MODULE AuthRefinement ---------------------------
(***************************************************************************)
(* The auth list as its users see it, mapped onto the abstract rotation of *)
(* AuthRotation.  The list a reader meets is computed by walking next from *)
(* the head; while a rotation is half done the walk stops where it comes   *)
(* back to a node, so the mapping is defined in every state.               *)
(***************************************************************************)
EXTENDS AuthServers

(* The nodes met following next from n, stopping at NULL or at a node met *)
(* before (the loop of lines 1100-1101 and a reader's walk).              *)
RECURSIVE Walk(_, _)
Walk(n, acc) ==
  IF n = NULL \/ \E i \in DOMAIN acc : acc[i] = n THEN acc
  ELSE Walk(next[n], Append(acc, n))

Chain == Walk(head, <<>>)

(* The abstract list: what a reader walking from the head sees.           *)
Abs == INSTANCE AuthRotation WITH list <- Chain, seen <- seen

(***************************************************************************)
(* mark_auth_server_bad() implements the rotation its comment and spec 8  *)
(* describe: the bad server becomes the last one, and none is lost.       *)
(***************************************************************************)
RotationSpec == Abs!Spec

=============================================================================
