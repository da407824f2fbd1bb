-------------------------- MODULE MCCollabDocument --------------------------
(* A small instance of CollabDocument. *)
EXTENDS CollabDocument, MCScenes
=============================================================================
