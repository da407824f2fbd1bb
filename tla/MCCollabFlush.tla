---------------------------- MODULE MCCollabFlush ----------------------------
(* Small instances of CollabFlush. *)
EXTENDS CollabFlush

CONSTANTS w1, w2, w3, f1
=============================================================================
