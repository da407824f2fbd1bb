--------------------------- MODULE MCCollabReader ---------------------------
(* Small instances of CollabReader. *)
EXTENDS CollabReader, MCScenes
=============================================================================
