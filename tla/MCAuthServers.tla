--------------------------- MODULE MCAuthServers ---------------------------
(* Three auth servers and two worker threads. *)
EXTENDS AuthRefinement

CONSTANTS s1, s2, s3, t1, t2

MCNode == {s1, s2, s3}
MCServers == <<s1, s2, s3>>
MCThread == {t1, t2}

(* The lists of at most three distinct nodes: a walk without repetition    *)
(* over three nodes is never longer.                                       *)
MCLists == UNION {[1..k -> MCNode] : k \in 1..3}

=============================================================================
