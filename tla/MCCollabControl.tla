--------------------------- MODULE MCCollabControl ---------------------------
(* Three clients, two lengths of lease. *)
EXTENDS CollabControl

CONSTANTS a, b, c

AskedTtls == {0, 1}

(* a may be back before its old connection is known to be gone. *)
Reconnecting == [client \in Clients |-> IF client = a THEN 2 ELSE 1]
=============================================================================
