------------------------------ MODULE SceneOps ------------------------------
(***************************************************************************)
(* The vocabulary of a collaborative scene, shared by the CRDT document of *)
(* comfyvn/collab/crdt.py and by the abstract store it implements: the     *)
(* registers of a scene, the operations a client sends and the placement   *)
(* of script lines.                                                        *)
(*                                                                         *)
(* Data abstraction: a title, a start, a node payload, a meta value or a   *)
(* line payload is a member of Values; Null is Python's None and Empty the *)
(* empty string, which only bootstrap and snapshot confuse with None.      *)
(* Titles and starts are strings or None.                                  *)
(* Operation ids are compared by the code as strings; here they are        *)
(* positive numbers, and 0 stands for the ids "", "init" and "bootstrap",  *)
(* which no client uses.                                                   *)
(***************************************************************************)
EXTENDS Integers, Sequences, SequencesExt

CONSTANTS
    MetaKeys,    \* keys of the scene's "meta" mapping
    Nodes,       \* ids of graph nodes
    Lines,       \* ids of script lines
    Values,      \* payloads
    Null,        \* None: no value
    Empty,       \* the empty string, one of Values
    SceneId,     \* the id of the scene, which is also its default title
    Operations   \* the operations clients send

Fields == {"title", "start"}
Keys == Fields \cup MetaKeys \cup Nodes \cup Lines

SceneKinds == { "scene.field.set", "scene.meta.update", "graph.node.upsert",
                "graph.node.remove", "script.line.upsert",
                "script.line.remove", "script.order.replace" }

(* The keys an operation writes; the line order is written separately. *)
Writes(op) ==
    CASE op.kind = "scene.field.set"    -> {op.key} \cap Fields
      [] op.kind = "scene.meta.update"  -> DOMAIN op.meta \cap MetaKeys
      [] op.kind \in {"graph.node.upsert", "graph.node.remove"}
                                        -> {op.key} \cap Nodes
      [] op.kind \in {"script.line.upsert", "script.line.remove"}
                                        -> {op.key} \cap Lines
      [] OTHER                          -> {}

(* What it writes there: a removal writes None. *)
Written(op, key) ==
    CASE op.kind = "scene.meta.update" -> op.meta[key]
      [] op.kind \in {"graph.node.remove", "script.line.remove"} -> Null
      [] OTHER -> op.value

(* The registers of a field, a meta entry, a node and a line are kept apart, *)
(* whatever their names.                                                    *)
ASSUME KeysAssumption ==
    /\ Fields \cap (MetaKeys \cup Nodes \cup Lines) = {}
    /\ MetaKeys \cap (Nodes \cup Lines) = {} /\ Nodes \cap Lines = {}
    /\ Null \notin Keys

(* An upsert may name no node or line. *)
Unnamed(op) == /\ op.kind \in {"graph.node.upsert", "script.line.upsert"}
               /\ op.key = Null

ASSUME OperationsAssumption ==
    /\ Null \notin Values /\ {SceneId, Empty} \subseteq Values
    /\ \A op \in Operations :
          /\ op.id \in Nat \ {0} /\ op.clock \in Int
          /\ \A k \in Writes(op) : Written(op, k) \in Values \cup {Null}
          /\ op.kind = "script.order.replace" => op.order \in Seq(Lines \cup {Null})
          /\ Unnamed(op) => /\ {"id", "clock", "kind", "key", "value"} \subseteq DOMAIN op
                            /\ op.value \in Values

(* The operations an operation may be performed as: itself, or, if it names *)
(* no node or line, an upsert of one that is given a fresh id (uuid4).      *)
Completions(op) ==
    IF ~Unnamed(op) THEN {op}
    ELSE {[op EXCEPT !.key = k] :
             k \in IF op.kind = "graph.node.upsert" THEN Nodes ELSE Lines}

Performed == UNION {Completions(op) : op \in Operations}

-----------------------------------------------------------------------------
(* list(dict.fromkeys(str(i) for i in ids if i)): the ids without None and  *)
(* without repetition, in order of first occurrence.                        *)
Deduplicated(ids) ==
    FoldLeft(LAMBDA seen, i : IF i = Null \/ Contains(seen, i) THEN seen
                              ELSE Append(seen, i),
             <<>>, ids)

(* Where an upsert puts a line the order does not list: at its index        *)
(* (clamped to the list), else after a listed line, else at the end.        *)
PlacedAt(ids, op) ==
    CASE op.index \in Int -> IF op.index < 0 THEN 0
                             ELSE IF op.index > Len(ids) THEN Len(ids)
                             ELSE op.index
      [] op.index \notin Int /\ Contains(ids, op.after)
             -> CHOOSE i \in DOMAIN ids : ids[i] = op.after
      [] OTHER -> Len(ids)

Placed(ids, op) == InsertAt(ids, PlacedAt(ids, op) + 1, op.key)

(* Those of ids that are in S, in their order. *)
OnlyIn(ids, S) ==
    FoldLeft(LAMBDA kept, i : IF i \in S THEN Append(kept, i) ELSE kept, <<>>, ids)

Without(ids, line) == OnlyIn(ids, ToSet(ids) \ {line})

-----------------------------------------------------------------------------
(* What an operation does to the content of a scene, a record of the value  *)
(* of every key and the order of the lines, when nothing stands in its way. *)

NewOrder(op, ids) ==
    CASE op.kind = "script.order.replace" -> Deduplicated(op.order)
      [] op.kind = "script.line.upsert" /\ op.key \in Lines
            /\ ~Contains(ids, op.key) -> Deduplicated(Placed(ids, op))
      [] op.kind = "script.line.remove" /\ op.key \in Lines
            /\ Contains(ids, op.key) -> Deduplicated(Without(ids, op.key))
      [] OTHER -> ids

Effect(op, content) ==
    [ value |-> [k \in Keys |-> IF k \in Writes(op) THEN Written(op, k)
                                ELSE content.value[k]],
      lines |-> NewOrder(op, content.lines) ]

=============================================================================
