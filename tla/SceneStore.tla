----------------------------- MODULE SceneStore -----------------------------
(***************************************************************************)
(* What the collaboration document promises, stated without clocks, logs   *)
(* or registers: there is one scene, and the operations of all clients     *)
(* take effect on it one at a time, each of them completely, in the order  *)
(* the server accepts them.                                                *)
(*                                                                         *)
(* CollabDocument implements this specification with Effect of SceneOps:   *)
(* although its registers are last-writer-wins, with a clock and an id to  *)
(* compare, no accepted operation ever loses to an earlier one.            *)
(***************************************************************************)
CONSTANTS
    Scenes,          \* what the scene may be at first
    Requests,        \* the operations clients send
    Applied(_, _)    \* the scene after an operation, given the scene before

VARIABLE scene

StoreInit == scene \in Scenes

Perform(op) == scene' = Applied(op, scene)

StoreNext == \E op \in Requests : Perform(op)

StoreSpec == StoreInit /\ [][StoreNext]_scene
=============================================================================
