----------------------------- MODULE MCCollabHub -----------------------------
(* Small instances of CollabHub. *)
EXTENDS CollabHub

TwoScenes == [c \in Conns |-> IF c = "c3" THEN "s2" ELSE "s1"]
OneScene == [c \in Conns |-> "s1"]

OwnIds == [t \in Tasks |-> t]
(* c2 is the connection with which the client of c1 comes back. *)
SameClient == [t \in Tasks |-> IF t = "c2" THEN "c1" ELSE t]
=============================================================================
