------------------------------ MODULE MCScenes ------------------------------
(* Operations and scenes for the small instances of the document modules. *)
EXTENDS Integers, Sequences, TLC

CONSTANTS k1, n1, n2, l1, l2, l3, v1, v2, null, empty, sid

SetField(i, c, f, v)   == [id |-> i, clock |-> c, kind |-> "scene.field.set",
                           key |-> f, value |-> v]
SetMeta(i, c, m)       == [id |-> i, clock |-> c, kind |-> "scene.meta.update",
                           meta |-> m]
PutNode(i, c, n, v)    == [id |-> i, clock |-> c, kind |-> "graph.node.upsert",
                           key |-> n, value |-> v]
DropNode(i, c, n)      == [id |-> i, clock |-> c, kind |-> "graph.node.remove",
                           key |-> n]
PutLine(i, c, l, v, at, after) ==
    [id |-> i, clock |-> c, kind |-> "script.line.upsert",
     key |-> l, value |-> v, index |-> at, after |-> after]
DropLine(i, c, l)      == [id |-> i, clock |-> c, kind |-> "script.line.remove",
                           key |-> l]
Reorder(i, c, ids)     == [id |-> i, clock |-> c,
                           kind |-> "script.order.replace", order |-> ids]
Other(i, c)            == [id |-> i, clock |-> c, kind |-> "scene.unknown"]

(* Every kind of operation, with the empty, the unknown and the useless      *)
(* forms of each.  Clocks run against the ids, so that a document that       *)
(* trusted either would let an old operation win.                            *)
EveryOperation ==
    { SetField(1, 3, "title", empty), SetField(2, 0, "title", null),
      SetField(3, -1, "other", v1),
      SetField(20, 0, "start", null),
      SetMeta(5, 1, k1 :> v1 @@ null :> v2), SetMeta(6, 0, k1 :> null),
      PutNode(7, 0, n1, v1), DropNode(9, 0, n1), DropNode(10, 1, null),
      PutNode(8, 0, null, v2),
      Other(11, 0),
      PutLine(19, 0, l1, v1, null, null), PutLine(18, 2, l1, v2, 7, null),
      PutLine(17, 0, l2, v1, null, l1), PutLine(16, 1, null, v2, 0, null),
      DropLine(14, 0, l1), DropLine(13, 2, null),
      Reorder(12, 0, << l2, l1, l2 >>), Reorder(4, 1, << l3, null, l1 >>) }

(* Fewer of them, to go further; one node comes without an id. *)
MixedOperations ==
    { SetField(1, 3, "title", v1), SetField(2, 0, "title", v2),
      PutNode(3, 1, n1, v2), PutNode(9, 0, null, v1), Other(4, 0),
      PutLine(5, 0, l1, v1, null, null), PutLine(6, 0, l2, v1, null, l1),
      DropLine(7, 0, l1), Reorder(8, 0, << l2, l1 >>) }

EmptyScene == [clock |-> 0, version |-> 0, title |-> null, start |-> null,
               meta |-> <<>>, nodes |-> <<>>, lines |-> <<>>]

SavedScene ==
    [clock |-> 2, version |-> 1, title |-> v2, start |-> v1,
     meta |-> k1 :> v2, nodes |-> n1 :> v1,
     lines |-> << [id |-> l2, value |-> v1], [id |-> l1, value |-> v2],
                  [id |-> l2, value |-> v2] >>]

Scenes == {EmptyScene, SavedScene}
OneScene == {SavedScene}
=============================================================================
