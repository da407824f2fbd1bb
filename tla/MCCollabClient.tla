--------------------------- MODULE MCCollabClient ---------------------------
(* Small instances of CollabClient. *)
EXTENDS CollabClient, TLC

CONSTANTS n1, n2, v1

(* A file of the plain scene. *)
SomeFiles == {[id |-> Plain,
               nodes |-> [n \in Nodes |-> IF n = n1 THEN v1 ELSE None]]}
=============================================================================
