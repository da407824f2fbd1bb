------------------------ MODULE CollabDocument_proofs ------------------------
(***************************************************************************)
(* Theorems about CollabDocument, and the recovery protocol of             *)
(* CollabReader, for any scenes, operations, history length and clocks.    *)
(*                                                                         *)
(* The argument: every register's clock is at most the document's          *)
(* (ClockInv), the clock an operation is stamped with is greater, hence    *)
(* Update always takes the new value (UpdateWins).  Each handler then has  *)
(* exactly the effect SceneOps defines, and reports a change exactly when  *)
(* the content changes (one lemma per handler); the implementation of the  *)
(* abstract store and the meaning of the version follow.                   *)
(*                                                                         *)
(* A reader that catches up folds over a sequence.  That the function such *)
(* a fold goes by exists is shown by extending it one element at a time    *)
(* (FoldExists); then replaying a log that grew by a record is replaying   *)
(* it and then the record (ReplayAppend), and a record that falls out of   *)
(* the log was either in the copy or leaves a gap (ExactTail).             *)
(*                                                                         *)
(* A document is Neat: no line is listed or remembered twice, and a line   *)
(* with a value is remembered.  What is loaded from what it shows then has *)
(* the same values (AgainValue) and lines (AgainLines).                    *)
(***************************************************************************)
EXTENDS CollabReader, FiniteSetTheorems, NaturalsInduction, WellFoundedInduction, TLAPS

(* The registers, as a record with a function in it. *)
Shape(s) == /\ s = [reg |-> s.reg, order |-> s.order, seen |-> s.seen]
            /\ s.reg = [k \in Keys |-> s.reg[k]]

Below(s, c) == /\ \A k \in Keys : s.reg[k].clock \in Nat /\ s.reg[k].clock <= c
               /\ s.order.clock \in Nat /\ s.order.clock <= c

ClockInv == /\ clock \in Nat /\ version \in Nat
            /\ Shape(store) /\ Below(store, clock)

(* What a handler must do to registers s at clock clk: keep their shape,    *)
(* stay below clk, have the operation's effect and tell whether it changed  *)
(* anything.                                                                *)
Correct(s, op, clk, out) ==
    /\ Shape(out.store)
    /\ Below(out.store, clk)
    /\ ContentOf(out.store) = Effect(op, ContentOf(s))
    /\ out.changed <=> ContentOf(out.store) # ContentOf(s)
    /\ out.changed \in BOOLEAN

-----------------------------------------------------------------------------
LEMMA OutcomeCorrect ==
    ASSUME NEW s, NEW op, NEW clk, NEW t, NEW changed \in BOOLEAN,
           Shape(t), Below(t, clk), ContentOf(t) = Effect(op, ContentOf(s)),
           changed <=> ContentOf(t) # ContentOf(s)
    PROVE  Correct(s, op, clk, Outcome(t, changed))
  BY DEF Correct, Outcome

LEMMA UpdateWins ==
    ASSUME NEW reg, NEW v, NEW clk \in Nat, NEW id, reg.clock \in Nat,
           reg.clock < clk
    PROVE  Update(reg, v, clk, id) = [value |-> v, clock |-> clk, op |-> id]
  BY DEF Update, Wins, Register

(* Writing a set of registers with the values of an operation. *)
LEMMA WriteRegisters ==
    ASSUME NEW s, NEW c \in Nat, NEW clk \in Nat, c < clk, NEW op,
           Shape(s), Below(s, c), NEW t, Shape(t), t.order = s.order,
           \A k \in Keys : t.reg[k] = IF k \in Writes(op)
                                      THEN [value |-> Written(op, k),
                                            clock |-> clk, op |-> op.id]
                                      ELSE s.reg[k]
    PROVE  /\ Below(t, clk)
           /\ \A k \in Keys : t.reg[k].value = IF k \in Writes(op)
                                               THEN Written(op, k)
                                               ELSE s.reg[k].value
           /\ ContentOf(t).value = Effect(op, ContentOf(s)).value
           /\ ContentOf(t).lines = s.order.value
  <1>1. \A k \in Keys : /\ t.reg[k].value = IF k \in Writes(op)
                                            THEN Written(op, k)
                                            ELSE s.reg[k].value
                        /\ t.reg[k].clock \in Nat
                        /\ t.reg[k].clock <= clk
    <2> TAKE k \in Keys
    <2>1. CASE k \in Writes(op)
      <3>1. t.reg[k] = [value |-> Written(op, k), clock |-> clk, op |-> op.id]
        BY <2>1
      <3> QED BY <2>1, <3>1
    <2>2. CASE k \notin Writes(op)
      <3>1. t.reg[k] = s.reg[k]
        BY <2>2
      <3>2. s.reg[k].clock \in Nat /\ s.reg[k].clock <= c
        BY DEF Below
      <3> QED BY <2>2, <3>1, <3>2
    <2> QED BY <2>1, <2>2
  <1>2. Below(t, clk)
    BY <1>1 DEF Below
  <1>3. ContentOf(t).value = Effect(op, ContentOf(s)).value
    BY <1>1 DEF ContentOf, Effect
  <1> QED BY <1>1, <1>2, <1>3 DEF ContentOf

(* One register written in x, whose registers and order are those of s. *)
LEMMA PutRegisters ==
    ASSUME NEW s, NEW c \in Nat, NEW clk \in Nat, c < clk, Shape(s), Below(s, c),
           NEW op, NEW key \in Keys, Writes(op) = {key},
           NEW x, Shape(x), x.reg = s.reg, x.order = s.order,
           NEW t, t = Put(x, key, Written(op, key), clk, op.id)
    PROVE  /\ Shape(t)
           /\ t.order = s.order
           /\ Below(t, clk)
           /\ \A k \in Keys : t.reg[k].value = IF k \in Writes(op)
                                               THEN Written(op, k)
                                               ELSE s.reg[k].value
           /\ ContentOf(t).value = Effect(op, ContentOf(s)).value
  <1>1. s.reg[key].clock \in Nat /\ s.reg[key].clock < clk
    BY DEF Below
  <1>2. Update(s.reg[key], Written(op, key), clk, op.id)
          = [value |-> Written(op, key), clock |-> clk, op |-> op.id]
    BY <1>1, UpdateWins
  <1>3. t = [x EXCEPT !.reg[key] =
                [value |-> Written(op, key), clock |-> clk, op |-> op.id]]
    BY <1>2 DEF Put
  <1>4. /\ t = [reg |-> t.reg, order |-> s.order, seen |-> x.seen]
        /\ t.reg = [s.reg EXCEPT ![key] =
                       [value |-> Written(op, key), clock |-> clk, op |-> op.id]]
    <2>1. x = [reg |-> s.reg, order |-> s.order, seen |-> x.seen]
      BY DEF Shape
    <2> QED BY <1>3, <2>1
  <1>5. \A k \in Keys : t.reg[k] = IF k \in Writes(op)
                                   THEN [value |-> Written(op, k),
                                         clock |-> clk, op |-> op.id]
                                   ELSE s.reg[k]
    <2> DEFINE v == [value |-> Written(op, key), clock |-> clk, op |-> op.id]
    <2>1. s.reg = [k \in Keys |-> s.reg[k]]
      BY DEF Shape
    <2>2. t.reg = [s.reg EXCEPT ![key] = v]
      BY <1>4
    <2> HIDE DEF v
    <2>3. \A k \in Keys : t.reg[k] = IF k = key THEN v ELSE s.reg[k]
      BY <2>1, <2>2
    <2> QED BY <2>3 DEF v
  <1>6. Shape(t) /\ t.order = s.order
    <2>1. s.reg = [k \in Keys |-> s.reg[k]]
      BY DEF Shape
    <2>2. t.reg = [k \in Keys |-> t.reg[k]] /\ t.order = s.order /\ t.seen = x.seen
      BY <1>4, <2>1
    <2> QED BY <1>4, <2>2 DEF Shape
  <1> QED BY <1>5, <1>6, WriteRegisters

(* A handler that writes one register and leaves the order alone. *)
LEMMA PutCorrect ==
    ASSUME NEW s, NEW c \in Nat, NEW clk \in Nat, c < clk, Shape(s), Below(s, c),
           NEW op, NEW key \in Keys, Writes(op) = {key},
           NewOrder(op, s.order.value) = s.order.value,
           NEW t, t = Put(s, key, Written(op, key), clk, op.id)
    PROVE  Correct(s, op, clk, Outcome(t, Changed(s, t, key)))
  <1>1. /\ Shape(t)
        /\ t.order = s.order
        /\ Below(t, clk)
        /\ \A k \in Keys : t.reg[k].value = IF k \in Writes(op)
                                            THEN Written(op, k)
                                            ELSE s.reg[k].value
        /\ ContentOf(t).value = Effect(op, ContentOf(s)).value
    BY PutRegisters
  <1>2. ContentOf(t) = Effect(op, ContentOf(s))
    BY <1>1 DEF ContentOf, Effect
  <1>3. Changed(s, t, key) <=> ContentOf(t) # ContentOf(s)
    BY <1>1 DEF ContentOf, Changed
  <1>4. Changed(s, t, key) \in BOOLEAN
    BY DEF Changed
  <1> QED BY <1>1, <1>2, <1>3, <1>4, OutcomeCorrect

(* A handler that finds nothing to do. *)
LEMMA NothingCorrect ==
    ASSUME NEW s, NEW c \in Nat, NEW clk \in Nat, c < clk, Shape(s), Below(s, c),
           NEW op, Writes(op) = {}, NewOrder(op, s.order.value) = s.order.value
    PROVE  Correct(s, op, clk, Outcome(s, FALSE))
  <1>1. Effect(op, ContentOf(s)) = ContentOf(s)
    BY DEF Effect, ContentOf
  <1>2. Below(s, clk)
    BY DEF Below
  <1> QED BY <1>1, <1>2 DEF Correct, Outcome

-----------------------------------------------------------------------------
LEMMA FieldSetCorrect ==
    ASSUME NEW s, NEW c \in Nat, NEW clk \in Nat, c < clk, Shape(s), Below(s, c),
           NEW op, op.kind = "scene.field.set"
    PROVE  Correct(s, op, clk, OpSceneFieldSet(s, op, clk))
  <1>1. NewOrder(op, s.order.value) = s.order.value
    BY DEF NewOrder
  <1>2. CASE op.key \notin Fields
    <2>1. Writes(op) = {}
      BY <1>2 DEF Writes
    <2> QED BY <1>1, <1>2, <2>1, NothingCorrect DEF OpSceneFieldSet
  <1>3. CASE op.key \in Fields
    <2>1. Writes(op) = {op.key} /\ op.key \in Keys
      BY <1>3 DEF Writes, Keys
    <2>2. Written(op, op.key) = op.value
      BY DEF Written
    <2> QED BY <1>1, <1>3, <2>1, <2>2, PutCorrect DEF OpSceneFieldSet
  <1> QED BY <1>2, <1>3

LEMMA NodeCorrect ==
    ASSUME NEW s, NEW c \in Nat, NEW clk \in Nat, c < clk, Shape(s), Below(s, c),
           NEW op, NEW v,
           \/ op.kind = "graph.node.upsert" /\ v = op.value
           \/ op.kind = "graph.node.remove" /\ v = Null
    PROVE  Correct(s, op, clk, OpGraphNode(s, op, clk, v))
  <1>1. NewOrder(op, s.order.value) = s.order.value
    BY DEF NewOrder
  <1>2. CASE op.key \notin Nodes
    <2>1. Writes(op) = {}
      BY <1>2 DEF Writes
    <2> QED BY <1>1, <1>2, <2>1, NothingCorrect DEF OpGraphNode
  <1>3. CASE op.key \in Nodes
    <2>1. Writes(op) = {op.key} /\ op.key \in Keys
      BY <1>3 DEF Writes, Keys
    <2>2. Written(op, op.key) = v
      BY DEF Written
    <2> QED BY <1>1, <1>3, <2>1, <2>2, PutCorrect DEF OpGraphNode
  <1> QED BY <1>2, <1>3

LEMMA MetaUpdateCorrect ==
    ASSUME NEW s, NEW c \in Nat, NEW clk \in Nat, c < clk, Shape(s), Below(s, c),
           NEW op, op.kind = "scene.meta.update"
    PROVE  Correct(s, op, clk, OpSceneMetaUpdate(s, op, clk))
  <1> DEFINE keys == DOMAIN op.meta \cap MetaKeys
             t == [s EXCEPT !.reg = [k \in Keys |->
                      IF k \in keys THEN Update(s.reg[k], op.meta[k], clk, op.id)
                      ELSE s.reg[k]]]
             changed == \E k \in keys : Changed(s, t, k)
  <1>1. NewOrder(op, s.order.value) = s.order.value
    BY DEF NewOrder
  <1>2. Writes(op) = keys /\ keys \subseteq Keys
    BY DEF Writes, Keys
  <1>3. \A k : Written(op, k) = op.meta[k]
    BY DEF Written
  <1>4. Shape(t) /\ t.order = s.order
    BY DEF Shape
  <1>5. \A k \in Keys : t.reg[k] = IF k \in Writes(op)
                                   THEN [value |-> Written(op, k),
                                         clock |-> clk, op |-> op.id]
                                   ELSE s.reg[k]
    <2> TAKE k \in Keys
    <2>1. t.reg[k] = IF k \in keys THEN Update(s.reg[k], op.meta[k], clk, op.id)
                     ELSE s.reg[k]
      BY DEF Shape
    <2>2. s.reg[k].clock \in Nat /\ s.reg[k].clock < clk
      BY DEF Below
    <2> HIDE DEF t, keys
    <2>3. Update(s.reg[k], op.meta[k], clk, op.id)
             = [value |-> op.meta[k], clock |-> clk, op |-> op.id]
      BY <2>2, UpdateWins
    <2> QED BY <2>1, <2>3, <1>2, <1>3
  <1> HIDE DEF t
  <1>6. /\ Below(t, clk)
        /\ \A k \in Keys : t.reg[k].value = IF k \in Writes(op)
                                            THEN Written(op, k)
                                            ELSE s.reg[k].value
        /\ ContentOf(t).value = Effect(op, ContentOf(s)).value
        /\ ContentOf(t).lines = s.order.value
    <2>1. ContentOf(t).lines = s.order.value
      BY <1>4 DEF ContentOf
    <2> QED BY <1>4, <1>5, <2>1, WriteRegisters
  <1>7. ContentOf(t) = Effect(op, ContentOf(s))
    BY <1>1, <1>6 DEF ContentOf, Effect
  <1>8. changed <=> ContentOf(t) # ContentOf(s)
    BY <1>2, <1>4, <1>6 DEF ContentOf, Changed
  <1>9. OpSceneMetaUpdate(s, op, clk) = Outcome(t, changed)
    BY DEF OpSceneMetaUpdate, t
  <1> QED BY <1>4, <1>6, <1>7, <1>8, <1>9 DEF Correct, Outcome

LEMMA OrderReplaceCorrect ==
    ASSUME NEW s, NEW c \in Nat, NEW clk \in Nat, c < clk, Shape(s), Below(s, c),
           NEW op, op.kind = "script.order.replace"
    PROVE  Correct(s, op, clk, OpScriptOrderReplace(s, op, clk))
  <1> DEFINE ids == Deduplicated(op.order)
             t == [s EXCEPT !.order = UpdateOrder(@, op.order, clk, op.id)]
  <1>1. Writes(op) = {} /\ NewOrder(op, s.order.value) = ids
    BY DEF Writes, NewOrder
  <1>2. UpdateOrder(s.order, op.order, clk, op.id)
          = [value |-> ids, clock |-> clk, op |-> op.id]
    BY UpdateWins DEF UpdateOrder, Below
  <1>3. /\ t.reg = s.reg /\ Shape(t)
        /\ t.order = [value |-> ids, clock |-> clk, op |-> op.id]
    BY <1>2 DEF Shape
  <1>4. OpScriptOrderReplace(s, op, clk)
          = Outcome(t, t.order.value # s.order.value)
    BY DEF OpScriptOrderReplace
  <1> HIDE DEF t, ids
  <1>5. Below(t, clk)
    BY <1>3 DEF Below
  <1>6. ContentOf(t) = Effect(op, ContentOf(s))
    BY <1>1, <1>3 DEF ContentOf, Effect
  <1>7. (t.order.value # s.order.value) <=> (ContentOf(t) # ContentOf(s))
    BY <1>3 DEF ContentOf
  <1> QED BY <1>3, <1>4, <1>5, <1>6, <1>7, OutcomeCorrect

(* Upserts and removals of a line: its register, and the order if it must   *)
(* change, written at the same clock.                                       *)
LEMMA ScriptLineCorrect ==
    ASSUME NEW s, NEW c \in Nat, NEW clk \in Nat, c < clk, Shape(s), Below(s, c),
           NEW op, op.key \in Lines, Writes(op) = {op.key}, NEW v,
           Written(op, op.key) = v, NEW must \in BOOLEAN, NEW ids,
           NewOrder(op, s.order.value)
              = IF must THEN Deduplicated(ids) ELSE s.order.value
    PROVE  Correct(s, op, clk, OpScriptLine(s, op, clk, v, must, ids))
  <1> DEFINE x == Seen(s, op.key)
             t == Put(x, op.key, v, clk, op.id)
             u == IF must
                  THEN [t EXCEPT !.order = UpdateOrder(@, ids, clk, op.id)]
                  ELSE t
             changed == Changed(s, u, op.key) \/ u.order.value # s.order.value
  <1>1. op.key \in Keys
    BY DEF Keys
  <1>2. Shape(x) /\ x.reg = s.reg /\ x.order = s.order
    <2> DEFINE y == IF Contains(s.seen, op.key) THEN s.seen
                    ELSE Append(s.seen, op.key)
    <2>1. x = [s EXCEPT !.seen = y]
      BY DEF Seen, Shape
    <2> HIDE DEF y
    <2> QED BY <2>1 DEF Shape
  <1> HIDE DEF x
  <1>3. t = Put(x, op.key, Written(op, op.key), clk, op.id)
    OBVIOUS
  <1> HIDE DEF t, u, changed
  <1>4. /\ Shape(t)
        /\ t.order = s.order
        /\ Below(t, clk)
        /\ \A k \in Keys : t.reg[k].value = IF k \in Writes(op)
                                            THEN Written(op, k)
                                            ELSE s.reg[k].value
        /\ ContentOf(t).value = Effect(op, ContentOf(s)).value
    BY <1>1, <1>2, <1>3, PutRegisters
  <1>5. UpdateOrder(s.order, ids, clk, op.id)
          = [value |-> Deduplicated(ids), clock |-> clk, op |-> op.id]
    BY UpdateWins DEF UpdateOrder, Below
  <1>6. /\ Shape(u) /\ u.reg = t.reg
        /\ u.order = IF must THEN [value |-> Deduplicated(ids), clock |-> clk,
                                   op |-> op.id]
                     ELSE s.order
    BY <1>4, <1>5 DEF Shape, u
  <1>7. OpScriptLine(s, op, clk, v, must, ids) = Outcome(u, changed)
    BY DEF OpScriptLine, t, x, u, changed
  <1>8. Below(u, clk)
    BY <1>4, <1>6 DEF Below
  <1>9. u.order.value = NewOrder(op, s.order.value)
    BY <1>6
  <1>10. ContentOf(u) = Effect(op, ContentOf(s))
    BY <1>4, <1>6, <1>9 DEF ContentOf, Effect
  <1>11. changed <=> ContentOf(u) # ContentOf(s)
    BY <1>1, <1>4, <1>6 DEF ContentOf, Changed, changed
  <1>12. changed \in BOOLEAN
    BY DEF Changed, changed
  <1> QED BY <1>6, <1>7, <1>8, <1>10, <1>11, <1>12, OutcomeCorrect

LEMMA LineUpsertCorrect ==
    ASSUME NEW s, NEW c \in Nat, NEW clk \in Nat, c < clk, Shape(s), Below(s, c),
           NEW op, op.kind = "script.line.upsert"
    PROVE  Correct(s, op, clk, OpScriptLineUpsert(s, op, clk))
  <1> DEFINE ids == s.order.value
  <1>1. CASE op.key \notin Lines
    <2>1. Writes(op) = {} /\ NewOrder(op, ids) = ids
      BY <1>1 DEF Writes, NewOrder
    <2> QED BY <1>1, <2>1, NothingCorrect DEF OpScriptLineUpsert, OpScriptLine
  <1>2. CASE op.key \in Lines
    <2>1. Writes(op) = {op.key} /\ Written(op, op.key) = op.value
      BY <1>2 DEF Writes, Written
    <2>2. NewOrder(op, ids) = IF ~Contains(ids, op.key)
                              THEN Deduplicated(Placed(ids, op)) ELSE ids
      BY <1>2 DEF NewOrder
    <2>3. (~Contains(ids, op.key)) \in BOOLEAN
      OBVIOUS
    <2> QED BY <1>2, <2>1, <2>2, <2>3, ScriptLineCorrect DEF OpScriptLineUpsert
  <1> QED BY <1>1, <1>2

LEMMA LineRemoveCorrect ==
    ASSUME NEW s, NEW c \in Nat, NEW clk \in Nat, c < clk, Shape(s), Below(s, c),
           NEW op, op.kind = "script.line.remove"
    PROVE  Correct(s, op, clk, OpScriptLineRemove(s, op, clk))
  <1> DEFINE ids == s.order.value
  <1>1. CASE op.key \notin Lines
    <2>1. Writes(op) = {} /\ NewOrder(op, ids) = ids
      BY <1>1 DEF Writes, NewOrder
    <2> QED BY <1>1, <2>1, NothingCorrect DEF OpScriptLineRemove, OpScriptLine
  <1>2. CASE op.key \in Lines
    <2>1. Writes(op) = {op.key} /\ Written(op, op.key) = Null
      BY <1>2 DEF Writes, Written
    <2>2. NewOrder(op, ids) = IF Contains(ids, op.key)
                              THEN Deduplicated(Without(ids, op.key)) ELSE ids
      BY <1>2 DEF NewOrder
    <2>3. Contains(ids, op.key) \in BOOLEAN
      BY DEF Contains
    <2> QED BY <1>2, <2>1, <2>2, <2>3, ScriptLineCorrect DEF OpScriptLineRemove
  <1> QED BY <1>1, <1>2

(* Whatever its kind, an operation stamped above every register is correct. *)
LEMMA HandleCorrect ==
    ASSUME NEW s, NEW c \in Nat, NEW clk \in Nat, c < clk, Shape(s), Below(s, c),
           NEW op
    PROVE  Correct(s, op, clk, Handle(s, op, clk))
  <1>1. CASE op.kind = "scene.field.set"
    BY <1>1, FieldSetCorrect DEF Handle
  <1>2. CASE op.kind = "scene.meta.update"
    BY <1>2, MetaUpdateCorrect DEF Handle
  <1>3. CASE op.kind = "graph.node.upsert"
    BY <1>3, NodeCorrect DEF Handle, OpGraphNodeUpsert
  <1>4. CASE op.kind = "graph.node.remove"
    BY <1>4, NodeCorrect DEF Handle, OpGraphNodeRemove
  <1>5. CASE op.kind = "script.line.upsert"
    BY <1>5, LineUpsertCorrect DEF Handle
  <1>6. CASE op.kind = "script.line.remove"
    BY <1>6, LineRemoveCorrect DEF Handle
  <1>7. CASE op.kind = "script.order.replace"
    BY <1>7, OrderReplaceCorrect DEF Handle
  <1>8. CASE op.kind \notin SceneKinds
    <2>1. Writes(op) = {} /\ NewOrder(op, s.order.value) = s.order.value
      BY <1>8 DEF Writes, NewOrder, SceneKinds
    <2>2. Handle(s, op, clk) = Outcome(s, FALSE)
      BY <1>8 DEF Handle, SceneKinds
    <2> QED BY <2>1, <2>2, NothingCorrect
  <1> QED BY <1>1, <1>2, <1>3, <1>4, <1>5, <1>6, <1>7, <1>8 DEF SceneKinds
-----------------------------------------------------------------------------
LEMMA BootstrapBelow ==
    ASSUME NEW scene, scene.clock \in Nat
    PROVE  Shape(Bootstrap(scene)) /\ Below(Bootstrap(scene), scene.clock)
  <1> DEFINE b == Bootstrap(scene)
  <1>1. Shape(b)
    BY DEF Bootstrap, Shape
  <1>2. \A k \in Keys : b.reg[k].clock \in {scene.clock, 0}
    BY DEF Bootstrap, Register, EmptyRegister
  <1>3. b.order.clock \in {scene.clock, 0}
    BY DEF Bootstrap, Register
  <1> HIDE DEF b
  <1>4. Below(b, scene.clock)
    BY <1>2, <1>3 DEF Below
  <1> QED BY <1>1, <1>4 DEF b

LEMMA InitClockInv == DocInit => ClockInv
  <1> SUFFICES ASSUME NEW scene \in InitialScenes,
                      clock = scene.clock, version = scene.version,
                      store = Bootstrap(scene)
               PROVE  ClockInv
    BY DEF DocInit
  <1>1. clock \in Nat /\ version \in Nat
    BY DocAssumption
  <1> QED BY <1>1, BootstrapBelow DEF ClockInv

(* What an operation may be performed as has an id, and writes payloads. *)
LEMMA PerformedFacts ==
    /\ Null \notin Values /\ {SceneId, Empty} \subseteq Values
    /\ \A op \in Performed :
          /\ op.id \in Nat \ {0}
          /\ \A k \in Writes(op) : Written(op, k) \in Values \cup {Null}
          /\ op.kind = "script.order.replace" => op.order \in Seq(Lines \cup {Null})
  <1> SUFFICES ASSUME NEW op \in Performed
               PROVE  /\ op.id \in Nat \ {0}
                      /\ \A k \in Writes(op) : Written(op, k) \in Values \cup {Null}
                      /\ op.kind = "script.order.replace"
                            => op.order \in Seq(Lines \cup {Null})
    BY OperationsAssumption
  <1>1. PICK came \in Operations : op \in Completions(came)
    BY DEF Performed
  <1>2. CASE ~Unnamed(came)
    <2>1. op = came
      BY <1>1, <1>2 DEF Completions
    <2> QED BY <2>1, OperationsAssumption
  <1>3. CASE Unnamed(came)
    <2>1. PICK k : op = [came EXCEPT !.key = k]
      BY <1>1, <1>3 DEF Completions
    <2>2. /\ came.id \in Nat \ {0} /\ came.value \in Values
          /\ {"id", "clock", "kind", "key", "value"} \subseteq DOMAIN came
          /\ came.kind \in {"graph.node.upsert", "script.line.upsert"}
      BY <1>3, OperationsAssumption DEF Unnamed
    <2>3. op.id = came.id /\ op.kind = came.kind /\ op.value = came.value
      BY <2>1, <2>2
    <2>4. \A x : Written(op, x) = op.value
      BY <2>2, <2>3 DEF Written
    <2> QED BY <2>2, <2>3, <2>4
  <1> QED BY <1>2, <1>3

LEMMA CompletedFacts ==
    ASSUME NEW op \in Operations, NEW done \in Completed(op)
    PROVE  done \in Performed /\ (~Unnamed(op) => done = op)
  BY DEF Completed, Completions, Performed

(* The step of one accepted operation: it is performed as done, and one     *)
(* record of it is logged.                                                  *)
LEMMA AcceptDone ==
    ASSUME NEW op \in Operations, Accept(op)
    PROVE  \E done \in Completed(op) :
              LET out == Handle(store, done, clock')
              IN  /\ store' = out.store
                  /\ version' = IF out.changed THEN version + 1 ELSE version
                  /\ Remember(LogRecord(op, version', clock', out.changed))
  BY DEF Accept

LEMMA AcceptStep ==
    ASSUME ClockInv, NEW op \in Operations, Accept(op)
    PROVE  /\ ClockInv'
           /\ clock' > clock
           /\ \E done \in Performed :
                 /\ store' = Handle(store, done, clock').store
                 /\ Content' = Effect(done, Content)
                 /\ ~Unnamed(op) => done = op
           /\ version' = version + (IF Content' # Content THEN 1 ELSE 0)
           /\ \E changed \in BOOLEAN :
                 /\ Remember(LogRecord(op, version', clock', changed))
                 /\ version' = version + (IF changed THEN 1 ELSE 0)
  <1> DEFINE clk == ServerClock(op)
  <1>1. op.clock \in Int
    BY OperationsAssumption
  <1>2. clk \in Nat /\ clock < clk
    BY <1>1 DEF ServerClock, ClockInv
  <1>3. clock' = clk
    BY DEF Accept
  <1> HIDE DEF clk
  <1>4. PICK done \in Completed(op) :
           LET out == Handle(store, done, clock')
           IN  /\ store' = out.store
               /\ version' = IF out.changed THEN version + 1 ELSE version
               /\ Remember(LogRecord(op, version', clock', out.changed))
    BY AcceptDone
  <1>5. PICK out : out = Handle(store, done, clock')
    OBVIOUS
  <1>6. /\ store' = out.store
        /\ version' = IF out.changed THEN version + 1 ELSE version
        /\ Remember(LogRecord(op, version', clock', out.changed))
    BY <1>4, <1>5
  <1>7. Correct(store, done, clock', out)
    BY <1>2, <1>3, <1>5, HandleCorrect DEF ClockInv
  <1>8. Shape(store') /\ Below(store', clock') /\ clock' \in Nat
    BY <1>2, <1>3, <1>6, <1>7 DEF Correct
  <1>9. Content' = ContentOf(out.store) /\ Content = ContentOf(store)
    BY <1>6 DEF Content, ContentOf
  <1>10. out.changed \in BOOLEAN /\ (out.changed <=> Content' # Content)
    BY <1>7, <1>9 DEF Correct
  <1>11. /\ version' \in Nat
         /\ version' = version + (IF Content' # Content THEN 1 ELSE 0)
         /\ version' = version + (IF out.changed THEN 1 ELSE 0)
    BY <1>6, <1>10 DEF ClockInv
  <1>12. ClockInv'
    BY <1>8, <1>11 DEF ClockInv, Shape, Below
  <1>13. Content' = Effect(done, Content)
    BY <1>7, <1>9 DEF Correct
  <1>14. done \in Performed /\ (~Unnamed(op) => done = op)
    BY CompletedFacts
  <1>15. store' = Handle(store, done, clock').store
    BY <1>5, <1>6
  <1> QED BY <1>2, <1>3, <1>6, <1>10, <1>11, <1>12, <1>13, <1>14, <1>15

LEMMA NextClockInv == ClockInv /\ [DocNext]_docVars => ClockInv'
  <1> SUFFICES ASSUME ClockInv, [DocNext]_docVars PROVE ClockInv'
    OBVIOUS
  <1>1. CASE UNCHANGED docVars
    BY <1>1 DEF docVars, ClockInv, Shape, Below
  <1>2. ASSUME NEW op \in Operations, Accept(op) PROVE ClockInv'
    BY <1>2, AcceptStep
  <1>3. ASSUME NEW op \in Operations, Duplicate(op) PROVE ClockInv'
    BY <1>3 DEF Duplicate, docVars, ClockInv, Shape, Below
  <1> QED BY <1>1, <1>2, <1>3 DEF DocNext, ApplyOperation

(* No register is ever ahead of the document's clock. *)
THEOREM ClocksDominated == DocSpec => []ClockDominates
  <1>1. ClockInv => ClockDominates
    BY DEF ClockInv, ClockDominates, Below
  <1> QED BY <1>1, InitClockInv, NextClockInv, PTL DEF DocSpec

(* The version counts the operations that changed the value of a register   *)
(* or the order of the lines, and no others.                                *)
THEOREM VersionExact == DocSpec => VersionCountsChanges
  <1> DEFINE Exact == version' = version + (IF Content' # Content THEN 1 ELSE 0)
  <1>1. ClockInv /\ [DocNext]_docVars => [Exact]_docVars
    <2> SUFFICES ASSUME ClockInv, DocNext PROVE [Exact]_docVars
      OBVIOUS
    <2>1. ASSUME NEW op \in Operations, Duplicate(op) PROVE UNCHANGED docVars
      BY <2>1 DEF Duplicate
    <2>2. ASSUME NEW op \in Operations, Accept(op) PROVE Exact
      BY <2>2, AcceptStep
    <2> QED BY <2>1, <2>2 DEF DocNext, ApplyOperation
  <1> QED BY <1>1, InitClockInv, NextClockInv, PTL DEF DocSpec, VersionCountsChanges

(* The document is a sequential scene: operations take effect completely,   *)
(* one at a time, in the order they are accepted; one that names no node or *)
(* line takes effect on one with an id of its own.                          *)
THEOREM Implementation == DocSpec => ImplementsSceneStore
  <1>1. DocInit => Store!StoreInit
    BY DEF DocInit, Store!StoreInit, Content
  <1>2. ClockInv /\ [DocNext]_docVars => [Store!StoreNext]_Content
    <2> SUFFICES ASSUME ClockInv, [DocNext]_docVars
                 PROVE  [Store!StoreNext]_Content
      OBVIOUS
    <2>1. CASE UNCHANGED docVars
      BY <2>1 DEF docVars, Content, ContentOf
    <2>2. ASSUME NEW op \in Operations, Accept(op) PROVE Store!StoreNext
      <3>1. PICK done \in Performed : Content' = Effect(done, Content)
        BY <2>2, AcceptStep
      <3> QED BY <3>1 DEF Store!StoreNext, Store!Perform
    <2>3. ASSUME NEW op \in Operations, Duplicate(op) PROVE UNCHANGED Content
      BY <2>3 DEF Duplicate, docVars, Content, ContentOf
    <2> QED BY <2>1, <2>2, <2>3 DEF DocNext, ApplyOperation
  <1> QED BY <1>1, <1>2, InitClockInv, NextClockInv, PTL
          DEF DocSpec, ImplementsSceneStore, Store!StoreSpec
-----------------------------------------------------------------------------
(* The log and its index.  Mirrors is IndexMirrorsHistory for any log. *)

Records == [op : Operations, version : Nat, serverClock : Nat, applied : BOOLEAN]

Mirrors(index, log) ==
    /\ DOMAIN index = {log[i].op.id : i \in DOMAIN log}
    /\ \A i \in DOMAIN log : index[log[i].op.id] = log[i]
    /\ \A i, j \in DOMAIN log : log[i].op.id = log[j].op.id => i = j

LogInv == /\ history \in Seq(Records) /\ Len(history) <= MaxHistory
          /\ Mirrors(logIndex, history)

(* A record whose id is not in the index is added to both. *)
LEMMA MirrorsAppend ==
    ASSUME NEW log \in Seq(Records), NEW index, Mirrors(index, log),
           NEW rec \in Records, rec.op.id \notin DOMAIN index
    PROVE  Mirrors([id \in DOMAIN index \cup {rec.op.id} |->
                      IF id = rec.op.id THEN rec ELSE index[id]],
                   Append(log, rec))
  <1> DEFINE new == Append(log, rec)
             idx == [id \in DOMAIN index \cup {rec.op.id} |->
                       IF id = rec.op.id THEN rec ELSE index[id]]
             n == Len(log)
  <1>1. /\ n \in Nat /\ DOMAIN log = 1..n /\ DOMAIN new = 1..(n + 1)
        /\ new[n + 1] = rec
        /\ \A i \in 1..n : new[i] = log[i]
    OBVIOUS
  <1>2. \A i \in 1..n : /\ new[i].op.id \in DOMAIN index
                        /\ new[i].op.id # rec.op.id
    BY <1>1 DEF Mirrors
  <1>3. DOMAIN idx = DOMAIN index \cup {rec.op.id}
    OBVIOUS
  <1> HIDE DEF new, n
  <1>4. DOMAIN idx = {new[i].op.id : i \in DOMAIN new}
    <2>1. DOMAIN index = {new[i].op.id : i \in 1..n}
      BY <1>1 DEF Mirrors
    <2>2. \A i : i \in 1..(n + 1) <=> (i \in 1..n \/ i = n + 1)
      BY <1>1
    <2> QED BY <1>1, <1>3, <2>1, <2>2
  <1>5. \A i \in DOMAIN new : idx[new[i].op.id] = new[i]
    <2> TAKE i \in DOMAIN new
    <2>1. CASE i = n + 1
      BY <1>1, <2>1
    <2>2. CASE i \in 1..n
      BY <1>1, <1>2, <2>2 DEF Mirrors
    <2> QED BY <1>1, <2>1, <2>2
  <1>6. \A i, j \in DOMAIN new : new[i].op.id = new[j].op.id => i = j
    <2> TAKE i, j \in DOMAIN new
    <2>1. CASE i \in 1..n /\ j \in 1..n
      BY <1>1, <2>1 DEF Mirrors
    <2>2. CASE i = n + 1 /\ j \in 1..n
      BY <1>1, <1>2, <2>2
    <2>3. CASE i \in 1..n /\ j = n + 1
      BY <1>1, <1>2, <2>3
    <2> QED BY <1>1, <2>1, <2>2, <2>3
  <1> QED BY <1>4, <1>5, <1>6 DEF Mirrors, new

(* The oldest record is dropped from both. *)
LEMMA MirrorsTail ==
    ASSUME NEW log \in Seq(Records), log # <<>>, NEW index, Mirrors(index, log)
    PROVE  Mirrors([id \in DOMAIN index \ {Head(log).op.id} |-> index[id]],
                   Tail(log))
  <1> DEFINE new == Tail(log)
             idx == [id \in DOMAIN index \ {Head(log).op.id} |-> index[id]]
             n == Len(log)
  <1>1. /\ n \in Nat \ {0} /\ DOMAIN log = 1..n /\ DOMAIN new = 1..(n - 1)
        /\ Head(log) = log[1]
        /\ \A i \in 1..(n - 1) : new[i] = log[i + 1]
    OBVIOUS
  <1>2. \A i \in 1..(n - 1) : /\ i + 1 \in 1..n /\ i + 1 # 1
                              /\ new[i].op.id \in DOMAIN index
                              /\ new[i].op.id # log[1].op.id
    BY <1>1 DEF Mirrors
  <1> HIDE DEF new, n
  <1>3. \A id \in DOMAIN index \ {log[1].op.id} :
           \E i \in 1..(n - 1) : new[i].op.id = id
    <2> TAKE id \in DOMAIN index \ {log[1].op.id}
    <2>1. PICK j \in 1..n : log[j].op.id = id
      BY <1>1 DEF Mirrors
    <2>2. j # 1
      BY <2>1
    <2>3. j - 1 \in 1..(n - 1) /\ (j - 1) + 1 = j
      BY <1>1, <2>2
    <2>4. new[j - 1].op.id = id
      BY <1>1, <2>1, <2>3
    <2> QED BY <2>3, <2>4
  <1>4. DOMAIN idx = {new[i].op.id : i \in DOMAIN new}
    <2>1. DOMAIN idx = DOMAIN index \ {log[1].op.id}
      BY <1>1
    <2> HIDE DEF idx
    <2>2. \A i \in 1..(n - 1) : new[i].op.id \in DOMAIN idx
      BY <1>2, <2>1
    <2>3. \A id \in DOMAIN idx : \E i \in 1..(n - 1) : new[i].op.id = id
      BY <1>3, <2>1
    <2>4. DOMAIN idx = {new[i].op.id : i \in 1..(n - 1)}
      BY <2>2, <2>3
    <2> QED BY <1>1, <2>4
  <1>5. \A i \in DOMAIN new : idx[new[i].op.id] = new[i]
    <2> TAKE i \in DOMAIN new
    <2>1. index[log[i + 1].op.id] = log[i + 1] /\ new[i] = log[i + 1]
      BY <1>1, <1>2 DEF Mirrors
    <2>2. new[i].op.id \in DOMAIN index \ {Head(log).op.id}
      BY <1>1, <1>2
    <2> QED BY <2>1, <2>2
  <1>6. \A i, j \in DOMAIN new : new[i].op.id = new[j].op.id => i = j
    <2> TAKE i, j \in DOMAIN new
    <2> HAVE new[i].op.id = new[j].op.id
    <2>1. log[i + 1].op.id = log[j + 1].op.id
      BY <1>1
    <2>2. i + 1 = j + 1
      BY <1>1, <1>2, <2>1 DEF Mirrors
    <2> QED BY <1>1, <2>2
  <1> QED BY <1>4, <1>5, <1>6 DEF Mirrors, new

(* An accepted operation leaves one record, and says whether it changed     *)
(* anything.                                                                *)
LEMMA AcceptRecord ==
    ASSUME ClockInv, NEW op \in Operations, Accept(op)
    PROVE  \E rec \in Records :
              /\ rec.op = op /\ rec.version = version'
              /\ rec.version = version + (IF rec.applied THEN 1 ELSE 0)
              /\ rec.serverClock = clock' /\ rec.serverClock > clock
              /\ ~rec.applied => Content' = Content
              /\ ~Unnamed(op) => Content' = Effect(op, Content)
              /\ Remember(rec)
  <1>1. PICK changed \in BOOLEAN :
           /\ Remember(LogRecord(op, version', clock', changed))
           /\ version' = version + (IF changed THEN 1 ELSE 0)
    BY AcceptStep
  <1>2. /\ clock' \in Nat /\ version' \in Nat /\ version \in Nat /\ clock < clock'
        /\ version' = version + (IF Content' # Content THEN 1 ELSE 0)
        /\ ~Unnamed(op) => Content' = Effect(op, Content)
    <2>1. ClockInv'
      BY AcceptStep
    <2> QED BY <2>1, AcceptStep DEF ClockInv
  <1>3. PICK rec : rec = LogRecord(op, version', clock', changed)
    OBVIOUS
  <1>4. rec = [op |-> op, version |-> version', serverClock |-> clock', applied |-> changed]
    BY <1>3 DEF LogRecord
  <1>5. rec \in Records
    BY <1>2, <1>4 DEF Records
  <1>6. ~changed => Content' = Content
    BY <1>1, <1>2
  <1> QED BY <1>1, <1>2, <1>3, <1>4, <1>5, <1>6

LEMMA AcceptLogInv ==
    ASSUME ClockInv, LogInv, NEW op \in Operations, Accept(op)
    PROVE  LogInv'
  <1>0. PICK rec \in Records : rec.op = op /\ Remember(rec)
    BY AcceptRecord
  <1> DEFINE log == Append(history, rec)
             index == [id \in DOMAIN logIndex \cup {rec.op.id} |->
                         IF id = rec.op.id THEN rec ELSE logIndex[id]]
  <1>1. op.id \notin DOMAIN logIndex /\ Remember(rec)
    BY <1>0 DEF Accept
  <1>2. rec \in Records /\ rec.op.id = op.id
    BY <1>0
  <1>3. Mirrors(index, log)
    BY <1>1, <1>2, MirrorsAppend DEF LogInv
  <1>4. /\ log \in Seq(Records) /\ log # <<>>
        /\ Len(log) = Len(history) + 1 /\ Len(log) \in Nat
    BY <1>2 DEF LogInv
  <1>5. CASE Len(log) > MaxHistory
    <2>1. /\ history' = Tail(log)
          /\ logIndex' = [id \in DOMAIN index \ {Head(log).op.id} |-> index[id]]
      BY <1>1, <1>5 DEF Remember
    <2> HIDE DEF log, index
    <2>2. Mirrors(logIndex', history')
      BY <1>3, <1>4, <2>1, MirrorsTail
    <2>3. history' \in Seq(Records) /\ Len(history') = Len(log) - 1
      BY <1>4, <2>1
    <2>4. Len(history') <= MaxHistory
      BY <1>4, <2>3, DocAssumption DEF LogInv
    <2> QED BY <2>2, <2>3, <2>4 DEF LogInv
  <1>6. CASE ~(Len(log) > MaxHistory)
    <2>1. history' = log /\ logIndex' = index
      BY <1>1, <1>6 DEF Remember
    <2> HIDE DEF log, index
    <2>2. Len(log) <= MaxHistory
      BY <1>4, <1>6, DocAssumption
    <2> QED BY <1>3, <1>4, <2>1, <2>2 DEF LogInv
  <1> QED BY <1>5, <1>6

(* Counts is HistoryCountsVersions for any log of a document with version    *)
(* ver and clock clk.                                                       *)
Follows(rec, old) ==
    /\ rec.version = old.version + (IF rec.applied THEN 1 ELSE 0)
    /\ rec.serverClock > old.serverClock

Counts(log, ver, clk) ==
    /\ log # <<>> => /\ log[Len(log)].version = ver
                     /\ log[Len(log)].serverClock = clk
    /\ \A i \in 1..(Len(log) - 1) : Follows(log[i + 1], log[i])

LEMMA CountsAppend ==
    ASSUME NEW log \in Seq(Records), NEW ver \in Nat, NEW clk \in Nat,
           Counts(log, ver, clk), NEW rec \in Records,
           rec.version = ver + (IF rec.applied THEN 1 ELSE 0),
           rec.serverClock > clk
    PROVE  Counts(Append(log, rec), rec.version, rec.serverClock)
  <1> DEFINE new == Append(log, rec)
             n == Len(log)
  <1>1. /\ n \in Nat /\ Len(new) = n + 1 /\ new[n + 1] = rec
        /\ \A i \in 1..n : new[i] = log[i]
        /\ n > 0 => log # <<>>
    OBVIOUS
  <1> HIDE DEF new, n
  <1>2. ASSUME NEW i \in 1..n PROVE Follows(new[i + 1], new[i])
    <2>1. CASE i = n
      <3>1. log[n].version = ver /\ log[n].serverClock = clk
        BY <1>1, <2>1 DEF Counts, n
      <3> QED BY <1>1, <2>1, <3>1 DEF Follows
    <2>2. CASE i # n
      <3>1. i \in 1..(n - 1) /\ i + 1 \in 1..n
        BY <1>1, <2>2
      <3>2. Follows(log[i + 1], log[i])
        BY <3>1 DEF Counts, n
      <3> QED BY <1>1, <3>1, <3>2
    <2> QED BY <2>1, <2>2
  <1>3. (n + 1) - 1 = n
    BY <1>1
  <1> QED BY <1>1, <1>2, <1>3 DEF Counts, new

LEMMA CountsTail ==
    ASSUME NEW log \in Seq(Records), log # <<>>, NEW ver, NEW clk,
           Counts(log, ver, clk)
    PROVE  Counts(Tail(log), ver, clk)
  <1> DEFINE new == Tail(log)
             n == Len(log)
  <1>1. /\ n \in Nat \ {0} /\ Len(new) = n - 1
        /\ \A i \in 1..(n - 1) : new[i] = log[i + 1]
        /\ new # <<>> => n - 1 \in 1..(n - 1)
    OBVIOUS
  <1> HIDE DEF new, n
  <1>2. new # <<>> => new[n - 1] = log[n]
    BY <1>1
  <1>3. ASSUME NEW i \in 1..((n - 1) - 1) PROVE Follows(new[i + 1], new[i])
    <2>1. /\ i \in 1..(n - 1) /\ i + 1 \in 1..(n - 1)
      BY <1>1
    <2>2. Follows(log[(i + 1) + 1], log[i + 1])
      BY <2>1 DEF Counts, n
    <2> QED BY <1>1, <2>1, <2>2
  <1> QED BY <1>1, <1>2, <1>3 DEF Counts, new, n

LEMMA AcceptCounts ==
    ASSUME ClockInv, LogInv, Counts(history, version, clock),
           NEW op \in Operations, Accept(op)
    PROVE  Counts(history', version', clock')
  <1>1. PICK rec \in Records :
           /\ rec.version = version' /\ rec.serverClock = clock'
           /\ rec.version = version + (IF rec.applied THEN 1 ELSE 0)
           /\ rec.serverClock > clock /\ Remember(rec)
    BY AcceptRecord
  <1> DEFINE log == Append(history, rec)
  <1>4. /\ rec \in Records /\ rec.version = version' /\ rec.serverClock = clock'
        /\ rec.version = version + (IF rec.applied THEN 1 ELSE 0)
        /\ rec.serverClock > clock
    BY <1>1
  <1>5. Counts(log, version', clock')
    BY <1>4, CountsAppend DEF LogInv, ClockInv
  <1>6. log \in Seq(Records) /\ log # <<>>
    BY <1>4 DEF LogInv
  <1>7. history' = log \/ history' = Tail(log)
    BY <1>1 DEF Remember
  <1> HIDE DEF log
  <1> QED BY <1>5, <1>6, <1>7, CountsTail

(* The bounded log and its index always know the same operations, and the   *)
(* records of the log carry the versions that the document has had.         *)
THEOREM HistoryAlwaysExact == DocSpec => []HistoryExact
  <1> DEFINE Inv == ClockInv /\ LogInv /\ Counts(history, version, clock)
  <1>1. DocInit => LogInv /\ Counts(history, version, clock)
    <2> SUFFICES ASSUME DocInit PROVE LogInv /\ Counts(history, version, clock)
      OBVIOUS
    <2>1. history = <<>> /\ logIndex = <<>>
      BY DEF DocInit
    <2>2. LogInv
      BY <2>1, DocAssumption DEF LogInv, Mirrors
    <2>3. Len(history) = 0 /\ 1..(0 - 1) = {}
      BY <2>1
    <2> QED BY <2>1, <2>2, <2>3 DEF Counts
  <1>2. Inv /\ [DocNext]_docVars => (LogInv /\ Counts(history, version, clock))'
    <2> SUFFICES ASSUME Inv, [DocNext]_docVars
                 PROVE  LogInv' /\ Counts(history', version', clock')
      BY DEF Counts, Follows
    <2>1. ASSUME UNCHANGED docVars PROVE LogInv' /\ Counts(history', version', clock')
      BY <2>1 DEF docVars, LogInv, Mirrors
    <2>2. ASSUME NEW op \in Operations, Duplicate(op)
          PROVE  LogInv' /\ Counts(history', version', clock')
      BY <2>1, <2>2 DEF Duplicate
    <2>3. ASSUME NEW op \in Operations, Accept(op)
          PROVE  LogInv' /\ Counts(history', version', clock')
      BY <2>3, AcceptLogInv, AcceptCounts
    <2> QED BY <2>1, <2>2, <2>3 DEF DocNext, ApplyOperation
  <1>3. Inv => HistoryExact
    <2> SUFFICES ASSUME Inv PROVE HistoryExact
      OBVIOUS
    <2>1. IndexMirrorsHistory
      BY DEF LogInv, Mirrors, IndexMirrorsHistory
    <2>2. Len(history) \in Nat /\ (Len(history) > 0 => history # <<>>)
      BY DEF LogInv
    <2>3. ASSUME NEW i \in 2..Len(history) PROVE Follows(history[i], history[i - 1])
      <3>1. i - 1 \in 1..(Len(history) - 1) /\ (i - 1) + 1 = i
        BY <2>2
      <3> QED BY <3>1 DEF Counts
    <2>4. HistoryCountsVersions
      BY <2>2, <2>3 DEF HistoryCountsVersions, Counts, Follows
    <2> QED BY <2>1, <2>4 DEF HistoryExact
  <1> QED BY <1>1, <1>2, <1>3, InitClockInv, NextClockInv, PTL DEF DocSpec

-----------------------------------------------------------------------------
(* The recovery protocol.  Its document is a CollabDocument, and its log is *)
(* the end of what was accepted.                                            *)

IsEndOf(log, ids) ==
    /\ Len(log) = IF Len(ids) < MaxHistory THEN Len(ids) ELSE MaxHistory
    /\ \A i \in 1..Len(log) : log[i].op.id = ids[Len(ids) - Len(log) + i]

ReaderInv == /\ ClockInv /\ LogInv
             /\ accepted \in Seq(Nat) /\ IsEndOf(history, accepted)

(* The log after one more record; it loses its first if it grows too long. *)
OneMore(long, log, x) ==
    /\ Len(long) = Len(log) + 1 /\ long[Len(log) + 1] = x
    /\ \A i \in 1..Len(log) : long[i] = log[i]

LEMMA EndLonger ==
    ASSUME NEW log, NEW ids, Len(log) \in Nat, Len(ids) \in Nat, IsEndOf(log, ids),
           NEW rec, NEW long \in Seq(Records), OneMore(long, log, rec),
           NEW all, OneMore(all, ids, rec.op.id)
    PROVE  /\ Len(log) + 1 > MaxHistory => IsEndOf(Tail(long), all)
           /\ ~(Len(log) + 1 > MaxHistory) => IsEndOf(long, all)
  <1> DEFINE id == rec.op.id
  <1>0. PICK n \in Nat, m \in Nat :
           /\ n = Len(log) /\ m = Len(ids)
           /\ Len(long) = n + 1 /\ long[n + 1] = rec /\ \A i \in 1..n : long[i] = log[i]
           /\ Len(all) = m + 1 /\ all[m + 1] = id /\ \A i \in 1..m : all[i] = ids[i]
    BY DEF OneMore
  <1> HIDE DEF id
  <1>1. /\ n = IF m < MaxHistory THEN m ELSE MaxHistory
        /\ \A i \in 1..n : log[i].op.id = ids[m - n + i]
        /\ MaxHistory \in Nat
    BY <1>0, DocAssumption DEF IsEndOf
  <1>2. ASSUME NEW i \in 1..(n + 1), NEW k, k = (m + 1) - (n + 1) + i
        PROVE  long[i].op.id = all[k]
    <2>1. CASE i = n + 1
      <3>1. k = m + 1
        BY <1>2, <2>1
      <3> QED BY <1>0, <2>1, <3>1 DEF id
    <2>2. CASE i # n + 1
      <3>1. i \in 1..n /\ k = m - n + i /\ k \in 1..m
        BY <1>1, <1>2, <2>2
      <3>2. all[k] = ids[k] /\ long[i] = log[i]
        BY <1>0, <3>1
      <3> QED BY <1>1, <3>1, <3>2
    <2> QED BY <2>1, <2>2
  <1>3. ASSUME n + 1 > MaxHistory PROVE IsEndOf(Tail(long), all)
    <2>1. PICK new : new = Tail(long)
      OBVIOUS
    <2>2. /\ Len(new) = n
          /\ \A i \in 1..n : new[i] = long[i + 1]
      BY <1>0, <2>1
    <2>3. n = MaxHistory /\ ~(m < MaxHistory) /\ ~(m + 1 < MaxHistory)
      BY <1>1, <1>3
    <2>4. ASSUME NEW i \in 1..n PROVE new[i].op.id = all[(m + 1) - n + i]
      <3>1. i + 1 \in 1..(n + 1) /\ (m + 1) - n + i = (m + 1) - (n + 1) + (i + 1)
        OBVIOUS
      <3>2. long[i + 1].op.id = all[(m + 1) - n + i]
        BY <1>2, <3>1
      <3> QED BY <2>2, <3>2
    <2>5. IsEndOf(new, all)
      BY <1>0, <2>2, <2>3, <2>4 DEF IsEndOf
    <2> QED BY <2>1, <2>5
  <1>4. ASSUME ~(n + 1 > MaxHistory) PROVE IsEndOf(long, all)
    <2>1. n + 1 = IF m + 1 < MaxHistory THEN m + 1 ELSE MaxHistory
      BY <1>1, <1>4
    <2>2. \A i \in 1..(n + 1) : long[i].op.id = all[(m + 1) - (n + 1) + i]
      BY <1>2
    <2> QED BY <1>0, <2>1, <2>2 DEF IsEndOf
  <1> QED BY <1>0, <1>3, <1>4

LEMMA EndAppend ==
    ASSUME NEW log \in Seq(Records), NEW ids \in Seq(Nat), IsEndOf(log, ids),
           NEW rec \in Records, NEW id \in Nat, rec.op.id = id
    PROVE  /\ Len(log) + 1 > MaxHistory => IsEndOf(Tail(Append(log, rec)), Append(ids, id))
           /\ ~(Len(log) + 1 > MaxHistory) => IsEndOf(Append(log, rec), Append(ids, id))
  <1> DEFINE long == Append(log, rec)
             all == Append(ids, id)
  <1>1. /\ Len(log) \in Nat /\ Len(ids) \in Nat /\ long \in Seq(Records)
    OBVIOUS
  <1>2. OneMore(long, log, rec) /\ OneMore(all, ids, id)
    BY DEF OneMore
  <1>3. OneMore(all, ids, rec.op.id)
    BY <1>2
  <1> HIDE DEF long, all
  <1>4. /\ Len(log) + 1 > MaxHistory => IsEndOf(Tail(long), all)
        /\ ~(Len(log) + 1 > MaxHistory) => IsEndOf(long, all)
    BY <1>1, <1>2, <1>3, EndLonger
  <1> QED BY <1>4 DEF long, all

LEMMA AcceptEnd ==
    ASSUME ReaderInv, NEW op \in Operations, Accept(op),
           accepted' = Append(accepted, op.id)
    PROVE  accepted' \in Seq(Nat) /\ IsEndOf(history', accepted')
  <1>0. PICK rec \in Records : rec.op = op /\ Remember(rec)
    BY AcceptRecord DEF ReaderInv
  <1>1. Remember(rec) /\ op.id \in Nat
    BY <1>0, OperationsAssumption
  <1>2. rec \in Records /\ rec.op.id = op.id
    BY <1>0
  <1>3. history \in Seq(Records) /\ accepted \in Seq(Nat) /\ IsEndOf(history, accepted)
    BY DEF ReaderInv, LogInv
  <1>4. history' = IF Len(history) + 1 > MaxHistory THEN Tail(Append(history, rec))
                   ELSE Append(history, rec)
    <2>1. Len(Append(history, rec)) = Len(history) + 1
      BY <1>2, <1>3
    <2> QED BY <1>1, <2>1 DEF Remember
  <1>5. PICK log, ids, id : log = history /\ ids = accepted /\ id = op.id
    OBVIOUS
  <1>6. /\ Len(log) + 1 > MaxHistory => IsEndOf(Tail(Append(log, rec)), Append(ids, id))
        /\ ~(Len(log) + 1 > MaxHistory) => IsEndOf(Append(log, rec), Append(ids, id))
    BY <1>1, <1>2, <1>3, <1>5, EndAppend
  <1>7. IsEndOf(history', Append(accepted, op.id))
    <2>1. CASE Len(history) + 1 > MaxHistory
      <3>1. history' = Tail(Append(history, rec))
        BY <1>4, <2>1
      <3> QED BY <1>5, <1>6, <2>1, <3>1, Zenon
    <2>2. CASE ~(Len(history) + 1 > MaxHistory)
      <3>1. history' = Append(history, rec)
        BY <1>4, <2>2
      <3> QED BY <1>5, <1>6, <2>2, <3>1, Zenon
    <2> QED BY <2>1, <2>2
  <1>8. accepted' \in Seq(Nat)
    BY <1>1, <1>3
  <1> QED BY <1>7, <1>8

(* A step of the protocol is a step of its document. *)
LEMMA ReaderStep == [ReaderNext]_readerVars =>
                       \/ \E op \in Operations : /\ Accept(op)
                                                 /\ accepted' = Append(accepted, op.id)
                       \/ UNCHANGED docVars /\ accepted' = accepted
  BY DEF ReaderNext, readerVars, docVars, Edit, Resend, ResendForgotten, ResendKnown,
         Duplicate, Pull

LEMMA AlwaysReaderInv == ReaderSpec => []ReaderInv
  <1>1. ReaderInit => ReaderInv
    <2> SUFFICES ASSUME ReaderInit PROVE ReaderInv
      OBVIOUS
    <2>1. history = <<>> /\ logIndex = <<>> /\ accepted = <<>>
      BY DEF ReaderInit, DocInit
    <2>2. ClockInv
      BY InitClockInv DEF ReaderInit
    <2>3. LogInv
      BY <2>1, DocAssumption DEF LogInv, Mirrors
    <2>4. accepted \in Seq(Nat) /\ IsEndOf(history, accepted)
      BY <2>1, DocAssumption DEF IsEndOf
    <2> QED BY <2>2, <2>3, <2>4 DEF ReaderInv
  <1>2. ReaderInv /\ [ReaderNext]_readerVars => ReaderInv'
    <2> SUFFICES ASSUME ReaderInv, [ReaderNext]_readerVars PROVE ReaderInv'
      OBVIOUS
    <2>1. ASSUME NEW op \in Operations, Accept(op), accepted' = Append(accepted, op.id)
          PROVE  ReaderInv'
      <3>1. ClockInv' /\ LogInv'
        BY <2>1, AcceptStep, AcceptLogInv DEF ReaderInv
      <3>2. accepted' \in Seq(Nat) /\ IsEndOf(history', accepted')
        BY <2>1, AcceptEnd
      <3> QED BY <3>1, <3>2 DEF ReaderInv, IsEndOf
    <2>2. ASSUME UNCHANGED docVars, accepted' = accepted PROVE ReaderInv'
      <3>1. ClockInv'
        BY <2>2, NextClockInv DEF ReaderInv
      <3> QED BY <2>2, <3>1 DEF docVars, ReaderInv, LogInv, Mirrors, IsEndOf
    <2> QED BY <2>1, <2>2, ReaderStep
  <1> QED BY <1>1, <1>2, PTL DEF ReaderSpec

(* An operation that is sent again is recognised as long as no more than    *)
(* MaxHistory operations were accepted since: the log is the end of what    *)
(* was accepted, and its index knows all of it.                             *)
THEOREM RecentKnown == ReaderSpec => []RecentOperationsKnown
  <1>1. ReaderInv => RecentOperationsKnown
    <2> SUFFICES ASSUME ReaderInv, NEW i \in DOMAIN accepted, i > Len(accepted) - MaxHistory
                 PROVE  accepted[i] \in DOMAIN logIndex
      BY DEF RecentOperationsKnown
    <2> DEFINE n == Len(history)
               m == Len(accepted)
               j == i - m + n
    <2>1. /\ n \in Nat /\ m \in Nat /\ MaxHistory \in Nat /\ i \in 1..m
          /\ DOMAIN history = 1..n
          /\ n = IF m < MaxHistory THEN m ELSE MaxHistory
      BY DocAssumption DEF ReaderInv, LogInv, IsEndOf
    <2>2. j \in 1..n /\ m - n + j = i
      BY <2>1
    <2>3. history[j].op.id = accepted[i]
      <3>1. \A k \in 1..n : history[k].op.id = accepted[m - n + k]
        BY DEF ReaderInv, IsEndOf
      <3> HIDE DEF j
      <3> QED BY <2>2, <3>1
    <2> HIDE DEF j
    <2> QED BY <2>1, <2>2, <2>3 DEF ReaderInv, LogInv, Mirrors
  <1> QED BY <1>1, AlwaysReaderInv, PTL

-----------------------------------------------------------------------------
(* Folds *)

LEMMA LeastNumber ==
    ASSUME NEW S \in SUBSET Nat, S # {}
    PROVE  \E n \in S : \A m \in S : n <= m
<1> DEFINE R == OpToRel(<, Nat)
<1>1. IsWellFoundedOn(R, Nat)
  BY NatLessThanWellFounded, Zenon
<1> HIDE DEF R
<1>2. PICK n \in S : \A m \in S : ~ (<< m, n >> \in R)
  BY <1>1, WFMin
<1>3. \A m \in S : ~ (m < n)
  BY <1>2 DEF R, OpToRel
<1> QED BY <1>3

LEMMA LastOf ==
    ASSUME NEW n \in Nat, NEW S \in SUBSET (1..n), S # {}
    PROVE  Max(S) \in S /\ \A m \in S : m <= Max(S)
<1> DEFINE above == {n - m : m \in S}
<1>1. above \in SUBSET Nat /\ above # {}
  <2>1. \A m \in S : m \in 1..n
    OBVIOUS
  <2>2. \A m \in 1..n : n - m \in Nat
    OBVIOUS
  <2>3. above \in SUBSET Nat
    BY <2>1, <2>2
  <2>4. PICK m \in S : TRUE
    OBVIOUS
  <2>5. n - m \in above
    BY <2>4
  <2> QED BY <2>3, <2>5
<1>2. PICK a \in above : \A b \in above : a <= b
  <2> HIDE DEF above
  <2> QED BY <1>1, LeastNumber
<1>3. PICK k \in S : a = n - k
  OBVIOUS
<1>4. \A m \in S : k >= m
  <2> TAKE m \in S
  <2>1. n - m \in above
    OBVIOUS
  <2>2. n - k <= n - m
    BY <1>2, <1>3, <2>1
  <2> HIDE DEF above
  <2>3. k \in 1..n /\ m \in 1..n
    OBVIOUS
  <2> QED BY <2>2, <2>3
<1> HIDE DEF above
<1>5. Max(S) \in S /\ \A m \in S : Max(S) >= m
  BY <1>4 DEF Max
<1> QED BY <1>5

-----------------------------------------------------------------------------
(* What the folds of the model do with each element of a sequence: replay a *)
(* record on a copy, keep it if it is newer than ver, keep a line id that   *)
(* is in a set (which ver is then), or that was not seen before.            *)
Step(kind, ver, so, x) ==
    CASE kind = "replay" -> Replay(so, x)
      [] kind = "newer"  -> IF x.version > ver THEN Append(so, x) ELSE so
      [] kind = "only"   -> IF x \in ver THEN Append(so, x) ELSE so
      [] OTHER           -> IF x = Null \/ Contains(so, x) THEN so ELSE Append(so, x)

Steps(g, kind, ver, base, s) ==
    g = [t \in SUBSET DOMAIN s |->
            IF t = {} THEN base ELSE Step(kind, ver, g[t \ {Max(t)}], s[Max(t)])]

Folded(kind, ver, base, s) == (CHOOSE g : Steps(g, kind, ver, base, s))[DOMAIN s]

LEMMA FoldExists ==
    ASSUME NEW kind, NEW ver, NEW base, NEW s, NEW n \in Nat, DOMAIN s = 1..n
    PROVE  \E g : Steps(g, kind, ver, base, s)
<1> DEFINE Body(g, t) == IF t = {} THEN base
                         ELSE Step(kind, ver, g[t \ {Max(t)}], s[Max(t)])
           Has1(m) == \E g : g = [t \in SUBSET (1..m) |-> Body(g, t)]
           none == {m \in Nat : ~Has1(m)}
<1>1. Has1(0)
  <2> DEFINE g == [t \in SUBSET (1..0) |-> base]
  <2>1. ASSUME NEW t \in SUBSET (1..0) PROVE Body(g, t) = base
    OBVIOUS
  <2> HIDE DEF Body
  <2>2. g = [t \in SUBSET (1..0) |-> Body(g, t)]
    BY <2>1
  <2> QED BY <2>2
<1>2. ASSUME NEW m \in Nat, m # 0, Has1(m - 1) PROVE Has1(m)
  <2>1. PICK h : h = [t \in SUBSET (1..(m - 1)) |-> Body(h, t)]
    BY <1>2
  <2> DEFINE g == [t \in SUBSET (1..m) |-> Body(h, t)]
  <2>2. ASSUME NEW t \in SUBSET (1..m), t # {} PROVE t \ {Max(t)} \in SUBSET (1..(m - 1))
    <3>1. Max(t) \in t /\ \A k \in t : k <= Max(t)
      BY <2>2, LastOf
    <3>2. ASSUME NEW k \in t, k # Max(t) PROVE k \in 1..(m - 1)
      <4>1. k \in 1..m /\ Max(t) \in 1..m /\ k <= Max(t)
        BY <3>1
      <4> QED BY <3>2, <4>1
    <3> QED BY <3>2
  <2>3. ASSUME NEW t \in SUBSET (1..(m - 1)) PROVE g[t] = h[t]
    <3>1. t \in SUBSET (1..m)
      BY <1>2
    <3> HIDE DEF Body
    <3> QED BY <2>1, <3>1
  <2>4. ASSUME NEW t \in SUBSET (1..m) PROVE g[t] = Body(g, t)
    <3>1. g[t] = Body(h, t)
      OBVIOUS
    <3>2. CASE t = {}
      BY <3>1, <3>2
    <3>3. CASE t # {}
      <4>1. g[t \ {Max(t)}] = h[t \ {Max(t)}]
        BY <2>2, <2>3, <3>3
      <4> HIDE DEF g
      <4> QED BY <3>1, <3>3, <4>1
    <3> QED BY <3>2, <3>3
  <2>5. g = [t \in SUBSET (1..m) |-> g[t]]
    OBVIOUS
  <2> HIDE DEF g, Body
  <2>6. g = [t \in SUBSET (1..m) |-> Body(g, t)]
    BY <2>4, <2>5
  <2> QED BY <2>6
<1> HIDE DEF Has1
<1>3. none = {}
  <2> SUFFICES ASSUME none # {} PROVE FALSE
    OBVIOUS
  <2>1. none \in SUBSET Nat
    OBVIOUS
  <2>2. PICK m \in none : \A k \in none : m <= k
    BY <2>1, LeastNumber
  <2>3. m \in Nat /\ ~Has1(m) /\ m # 0 /\ m - 1 \in Nat
    BY <1>1
  <2>4. Has1(m - 1)
    BY <2>2, <2>3
  <2> QED BY <1>2, <2>3, <2>4
<1>4. Has1(n)
  BY <1>3
<1> QED BY <1>4 DEF Has1, Steps

(* Element by element. *)
Goes(g, kind, ver, base, s, n) ==
    /\ Folded(kind, ver, base, s) = g[n] /\ g[0] = base
    /\ \A i \in 1..n : g[i] = Step(kind, ver, g[i - 1], s[i])

LEMMA FoldSteps ==
    ASSUME NEW kind, NEW ver, NEW base, NEW s, NEW n \in Nat, DOMAIN s = 1..n
    PROVE  \E g : Goes(g, kind, ver, base, s, n)
<1> DEFINE f == CHOOSE f : Steps(f, kind, ver, base, s)
           g == [i \in 0..n |-> f[1..i]]
<1>1. Steps(f, kind, ver, base, s)
  BY FoldExists
<1>2. Folded(kind, ver, base, s) = f[1..n]
  BY DEF Folded
<1> HIDE DEF f
<1>3. \A t \in SUBSET (1..n) :
         f[t] = IF t = {} THEN base ELSE Step(kind, ver, f[t \ {Max(t)}], s[Max(t)])
  <2> DEFINE Body(t) == IF t = {} THEN base ELSE Step(kind, ver, f[t \ {Max(t)}], s[Max(t)])
  <2>1. f = [t \in SUBSET (1..n) |-> Body(t)]
    BY <1>1 DEF Steps
  <2> HIDE DEF Body
  <2>2. \A t \in SUBSET (1..n) : f[t] = Body(t)
    BY <2>1
  <2> QED BY <2>2 DEF Body
<1>4. f[1..0] = base
  <2>1. 1..0 = {} /\ {} \in SUBSET (1..n)
    OBVIOUS
  <2> QED BY <1>3, <2>1
<1>5. ASSUME NEW i \in 1..n PROVE f[1..i] = Step(kind, ver, f[1..(i - 1)], s[i])
  <2>1. (1..i) \in SUBSET (1..n) /\ 1..i # {} /\ i \in Nat /\ i \in 1..i
    OBVIOUS
  <2>2. Max(1..i) \in 1..i /\ \A m \in 1..i : m <= Max(1..i)
    BY <2>1, LastOf
  <2>3. Max(1..i) = i
    BY <2>1, <2>2
  <2>4. (1..i) \ {i} = 1..(i - 1)
    BY <2>1
  <2> QED BY <1>3, <2>1, <2>3, <2>4
<1>6. /\ g[n] = f[1..n] /\ g[0] = f[1..0]
      /\ \A i \in 1..n : g[i] = f[1..i] /\ g[i - 1] = f[1..(i - 1)]
  OBVIOUS
<1> HIDE DEF g
<1> QED BY <1>2, <1>4, <1>5, <1>6 DEF Goes

LEMMA FoldIsReplay ==
    ASSUME NEW c, NEW s, NEW n \in Nat, DOMAIN s = 1..n
    PROVE  FoldLeft(Replay, c, s) = Folded("replay", 0, c, s)
<1>1. \A g : Steps(g, "replay", 0, c, s) <=>
             g = [t \in SUBSET DOMAIN s |->
                    IF t = {} THEN c ELSE Replay(g[t \ {Max(t)}], s[Max(t)])]
  BY DEF Steps, Step
<1> DEFINE f == CHOOSE g : g = [t \in SUBSET DOMAIN s |->
                    IF t = {} THEN c ELSE Replay(g[t \ {Max(t)}], s[Max(t)])]
<1>2. FoldLeft(Replay, c, s) = f[DOMAIN s]
  BY DEF FoldLeft, MapThenFoldSet
<1>3. f = CHOOSE g : Steps(g, "replay", 0, c, s)
  BY <1>1
<1> QED BY <1>2, <1>3 DEF Folded

LEMMA FoldIsNewer ==
    ASSUME NEW ver, NEW s, NEW n \in Nat, DOMAIN s = 1..n
    PROVE  NewerThan(s, ver) = Folded("newer", ver, <<>>, s)
<1> DEFINE Keep(so, x) == IF x.version > ver THEN Append(so, x) ELSE so
<1>1. \A g : Steps(g, "newer", ver, <<>>, s) <=>
             g = [t \in SUBSET DOMAIN s |->
                    IF t = {} THEN <<>> ELSE Keep(g[t \ {Max(t)}], s[Max(t)])]
  BY DEF Steps, Step
<1> DEFINE f == CHOOSE g : g = [t \in SUBSET DOMAIN s |->
                    IF t = {} THEN <<>> ELSE Keep(g[t \ {Max(t)}], s[Max(t)])]
<1>2. NewerThan(s, ver) = f[DOMAIN s]
  BY DEF NewerThan, FoldLeft, MapThenFoldSet
<1> HIDE DEF Keep
<1>3. f = CHOOSE g : Steps(g, "newer", ver, <<>>, s)
  BY <1>1
<1> QED BY <1>2, <1>3 DEF Folded

Inductive(good, n) ==
    0 \in good /\ \A i \in 1..n : i - 1 \in good => i \in good

LEMMA NumberInduction ==
    ASSUME NEW n \in Nat, NEW good, Inductive(good, n)
    PROVE  n \in good /\ \A i \in 0..n : i \in good
<1> DEFINE bad == {i \in 0..n : i \notin good}
<1> SUFFICES ASSUME bad # {} PROVE FALSE
  <2>1. n \in 0..n
    OBVIOUS
  <2> QED BY <2>1
<1>1. bad \in SUBSET Nat
  OBVIOUS
<1>2. PICK i \in bad : \A k \in bad : i <= k
  BY <1>1, LeastNumber
<1>3. i \in 1..n /\ i - 1 \in 0..n /\ i \notin good
  BY DEF Inductive
<1>4. i - 1 \notin bad
  BY <1>2, <1>3
<1> QED BY <1>3, <1>4 DEF Inductive

LEMMA FoldEmpty ==
    ASSUME NEW kind, NEW ver, NEW base
    PROVE  Folded(kind, ver, base, <<>>) = base
<1>1. 0 \in Nat /\ DOMAIN <<>> = 1..0
  OBVIOUS
<1>2. PICK g : Goes(g, kind, ver, base, <<>>, 0)
  BY <1>1, FoldSteps
<1> QED BY <1>2 DEF Goes

LEMMA FoldAppend ==
    ASSUME NEW kind, NEW ver, NEW base, NEW S, NEW s \in Seq(S), NEW x \in S
    PROVE  Folded(kind, ver, base, Append(s, x))
              = Step(kind, ver, Folded(kind, ver, base, s), x)
<1>0. PICK n \in Nat : n = Len(s) /\ DOMAIN s = 1..n
  OBVIOUS
<1> DEFINE long == Append(s, x)
<1>1. /\ DOMAIN long = 1..(n + 1) /\ long[n + 1] = x
      /\ \A i \in 1..n : long[i] = s[i]
  BY <1>0
<1> HIDE DEF long
<1>2. PICK g : Goes(g, kind, ver, base, s, n)
  BY <1>0, FoldSteps
<1>3. PICK h : Goes(h, kind, ver, base, long, n + 1)
  <2>1. n + 1 \in Nat
    OBVIOUS
  <2> QED BY <1>1, <2>1, FoldSteps
<1> DEFINE good == {i \in 0..n : g[i] = h[i]}
<1>4. 0 \in good
  BY <1>2, <1>3 DEF Goes
<1>5. ASSUME NEW i \in 1..n, i - 1 \in good PROVE i \in good
  <2>1. g[i] = Step(kind, ver, g[i - 1], s[i])
    BY <1>2 DEF Goes
  <2>2. h[i] = Step(kind, ver, h[i - 1], long[i])
    BY <1>3 DEF Goes
  <2> QED BY <1>1, <1>5, <2>1, <2>2
<1>6. n \in good
  <2>1. Inductive(good, n)
    BY <1>4, <1>5 DEF Inductive
  <2> HIDE DEF good
  <2> QED BY <2>1, NumberInduction
<1>7. g[n] = h[n]
  BY <1>6
<1>8. h[n + 1] = Step(kind, ver, h[(n + 1) - 1], long[n + 1]) /\ (n + 1) - 1 = n
  BY <1>3 DEF Goes
<1> HIDE DEF good
<1> QED BY <1>0, <1>1, <1>2, <1>3, <1>7, <1>8 DEF Goes, long

LEMMA FoldTail ==
    ASSUME NEW kind, NEW ver, NEW base, NEW S, NEW s \in Seq(S), s # <<>>
    PROVE  Folded(kind, ver, base, s)
              = Folded(kind, ver, Step(kind, ver, base, s[1]), Tail(s))
<1>0. PICK n \in Nat : Len(s) = n + 1 /\ DOMAIN s = 1..(n + 1)
  <2>1. Len(s) - 1 \in Nat /\ Len(s) = (Len(s) - 1) + 1 /\ DOMAIN s = 1..Len(s)
    OBVIOUS
  <2> QED BY <2>1
<1> DEFINE rest == Tail(s)
<1>1. DOMAIN rest = 1..n /\ \A i \in 1..n : rest[i] = s[i + 1]
  BY <1>0
<1> HIDE DEF rest
<1>2. PICK g : Goes(g, kind, ver, base, s, n + 1)
  <2>1. n + 1 \in Nat
    OBVIOUS
  <2> QED BY <1>0, <2>1, FoldSteps
<1>3. PICK first : first = Step(kind, ver, base, s[1])
  OBVIOUS
<1>4. PICK h : Goes(h, kind, ver, first, rest, n)
  BY <1>1, FoldSteps
<1> DEFINE good == {i \in 0..n : g[i + 1] = h[i]}
<1>5. 0 \in good
  <2>1. 1 \in 1..(n + 1) /\ 1 - 1 = 0
    OBVIOUS
  <2>2. g[1] = Step(kind, ver, g[0], s[1])
    BY <1>2, <2>1 DEF Goes
  <2> QED BY <1>2, <1>3, <1>4, <2>2 DEF Goes
<1>6. ASSUME NEW i \in 1..n, i - 1 \in good PROVE i \in good
  <2>1. i + 1 \in 1..(n + 1) /\ (i + 1) - 1 = i /\ (i - 1) + 1 = i
    OBVIOUS
  <2>2. g[i + 1] = Step(kind, ver, g[i], s[i + 1])
    BY <1>2, <2>1 DEF Goes
  <2>3. h[i] = Step(kind, ver, h[i - 1], s[i + 1])
    BY <1>1, <1>4 DEF Goes
  <2>4. g[i] = h[i - 1]
    BY <1>6, <2>1
  <2> QED BY <2>2, <2>3, <2>4
<1>7. n \in good
  <2>1. Inductive(good, n)
    BY <1>5, <1>6 DEF Inductive
  <2> HIDE DEF good
  <2> QED BY <2>1, NumberInduction
<1>8. g[n + 1] = h[n]
  BY <1>7
<1> HIDE DEF good
<1> QED BY <1>1, <1>2, <1>3, <1>4, <1>8 DEF Goes, rest

-----------------------------------------------------------------------------
(* The records newer than a version, of a log that grows and is trimmed. *)

LEMMA NewerIsFold ==
    ASSUME NEW log \in Seq(Records), NEW ver
    PROVE  NewerThan(log, ver) = Folded("newer", ver, <<>>, log)
<1>1. Len(log) \in Nat /\ DOMAIN log = 1..Len(log)
  OBVIOUS
<1> QED BY <1>1, FoldIsNewer

LEMMA NewerSeq ==
    ASSUME NEW log \in Seq(Records), NEW ver
    PROVE  /\ NewerThan(log, ver) \in Seq(Records)
           /\ (\A i \in 1..Len(log) : ~ (log[i].version > ver)) => NewerThan(log, ver) = <<>>
<1>1. PICK n \in Nat : n = Len(log) /\ DOMAIN log = 1..n
  OBVIOUS
<1>2. PICK g : Goes(g, "newer", ver, <<>>, log, n)
  BY <1>1, FoldSteps
<1>3. ASSUME NEW i \in 1..n
      PROVE  g[i] = IF log[i].version > ver THEN Append(g[i - 1], log[i]) ELSE g[i - 1]
  BY <1>2 DEF Step, Goes
<1> DEFINE good == {i \in 0..n : g[i] \in Seq(Records)}
           same == {i \in 0..n : g[i] = <<>>}
<1>4. 0 \in good /\ 0 \in same
  <2>1. g[0] = <<>> /\ <<>> \in Seq(Records) /\ 0 \in 0..n
    BY <1>2 DEF Goes
  <2> QED BY <2>1
<1>5. \A i \in 1..n : i - 1 \in good => i \in good
  <2> SUFFICES ASSUME NEW i \in 1..n, i - 1 \in good PROVE i \in good
    OBVIOUS
  <2>1. log[i] \in Records /\ g[i - 1] \in Seq(Records) /\ i \in 0..n
    BY <1>1
  <2>2. g[i] = Append(g[i - 1], log[i]) \/ g[i] = g[i - 1]
    BY <1>3
  <2>3. g[i] \in Seq(Records)
    <3>1. PICK so \in Seq(Records), rec \in Records : so = g[i - 1] /\ rec = log[i]
      BY <2>1
    <3>2. Append(so, rec) \in Seq(Records)
      OBVIOUS
    <3> QED BY <2>2, <3>1, <3>2
  <2> QED BY <2>1, <2>3
<1>6. ASSUME \A i \in 1..n : ~ (log[i].version > ver)
      PROVE  \A i \in 1..n : i - 1 \in same => i \in same
  BY <1>3, <1>6
<1>7. Inductive(good, n)
  BY <1>4, <1>5 DEF Inductive
<1>8. (\A i \in 1..n : ~ (log[i].version > ver)) => Inductive(same, n)
  BY <1>4, <1>6 DEF Inductive
<1> HIDE DEF good, same
<1>9. n \in good /\ (Inductive(same, n) => n \in same)
  BY <1>7, NumberInduction
<1> QED BY <1>1, <1>2, <1>8, <1>9, NewerIsFold DEF good, same, Goes

LEMMA NewerAppend ==
    ASSUME NEW log \in Seq(Records), NEW rec \in Records, NEW ver
    PROVE  NewerThan(Append(log, rec), ver)
              = IF rec.version > ver THEN Append(NewerThan(log, ver), rec)
                ELSE NewerThan(log, ver)
<1>1. Append(log, rec) \in Seq(Records)
  OBVIOUS
<1>2. Folded("newer", ver, <<>>, Append(log, rec))
         = Step("newer", ver, Folded("newer", ver, <<>>, log), rec)
  BY FoldAppend
<1> QED BY <1>1, <1>2, NewerIsFold DEF Step

LEMMA NewerTail ==
    ASSUME NEW log \in Seq(Records), log # <<>>, NEW ver, ~ (log[1].version > ver)
    PROVE  NewerThan(Tail(log), ver) = NewerThan(log, ver)
<1>1. Tail(log) \in Seq(Records)
  OBVIOUS
<1>2. Folded("newer", ver, <<>>, log)
         = Folded("newer", ver, Step("newer", ver, <<>>, log[1]), Tail(log))
  BY FoldTail
<1>3. Step("newer", ver, <<>>, log[1]) = <<>>
  BY DEF Step
<1> QED BY <1>1, <1>2, <1>3, NewerIsFold

LEMMA ReplayAppend ==
    ASSUME NEW c, NEW s \in Seq(Records), NEW rec \in Records
    PROVE  FoldLeft(Replay, c, Append(s, rec)) = Replay(FoldLeft(Replay, c, s), rec)
<1>1. PICK long : long = Append(s, rec)
  OBVIOUS
<1>2. /\ Len(s) \in Nat /\ DOMAIN s = 1..Len(s)
      /\ Len(long) \in Nat /\ DOMAIN long = 1..Len(long)
  BY <1>1
<1>3. FoldLeft(Replay, c, s) = Folded("replay", 0, c, s)
  BY <1>2, FoldIsReplay
<1>4. FoldLeft(Replay, c, long) = Folded("replay", 0, c, long)
  BY <1>2, FoldIsReplay
<1>5. Folded("replay", 0, c, long) = Step("replay", 0, Folded("replay", 0, c, s), rec)
  BY <1>1, FoldAppend
<1>6. FoldLeft(Replay, c, long) = Replay(FoldLeft(Replay, c, s), rec)
  BY <1>3, <1>4, <1>5 DEF Step
<1> QED BY <1>1, <1>6

LEMMA ReplayNothing == ASSUME NEW c PROVE FoldLeft(Replay, c, <<>>) = c
<1>1. 0 \in Nat /\ DOMAIN <<>> = 1..0
  OBVIOUS
<1>2. FoldLeft(Replay, c, <<>>) = Folded("replay", 0, c, <<>>)
  BY <1>1, FoldIsReplay
<1> QED BY <1>2, FoldEmpty

-----------------------------------------------------------------------------
(* What a reader with copy c makes of the log of a document. *)

Holds(log, n) == \E i \in DOMAIN log : log[i].version = n /\ log[i].applied

(* The newer records name what they write. *)
AllNamed(log, ver) ==
    \A i \in DOMAIN log : log[i].version > ver => ~Unnamed(log[i].op)

Exact(c, log, ver, content) ==
    (\A n \in (c.version + 1)..ver : Holds(log, n)) /\ AllNamed(log, c.version) =>
        FoldLeft(Replay, c, NewerThan(log, c.version)) = Copy(ver, content)

LEMMA CountsUp ==
    ASSUME NEW log \in Seq(Records), NEW ver \in Nat, NEW clk, Counts(log, ver, clk),
           log # <<>>
    PROVE  \A i \in 1..Len(log) : log[1].version <= log[i].version /\ log[i].version <= ver
<1>1. PICK n \in Nat : n = Len(log) /\ n > 0 /\ DOMAIN log = 1..n
  OBVIOUS
<1>2. \A i \in 1..n : log[i].version \in Nat
  <2>1. \A i \in 1..n : log[i] \in Records
    BY <1>1
  <2> QED BY <2>1 DEF Records
<1>3. /\ log[n].version = ver
      /\ \A i \in 1..(n - 1) : log[i + 1].version >= log[i].version
  <2>1. ASSUME NEW i \in 1..(n - 1) PROVE log[i + 1].version >= log[i].version
    <3>1. i \in 1..n /\ i + 1 \in 1..n
      OBVIOUS
    <3>2. Follows(log[i + 1], log[i])
      BY <1>1 DEF Counts
    <3>3. log[i].version \in Nat /\ log[i + 1].version \in Nat
      BY <1>2, <3>1
    <3> QED BY <3>2, <3>3 DEF Follows
  <2> QED BY <1>1, <2>1 DEF Counts
<1> DEFINE up == {i \in 0..(n - 1) : log[1].version <= log[i + 1].version}
           down == {i \in 0..(n - 1) : log[n - i].version <= ver}
<1>4. n - 1 \in Nat /\ 0 \in up /\ 0 \in down
  <2>1. 1 \in 1..n /\ 0 + 1 = 1 /\ n - 0 = n
    BY <1>1
  <2> QED BY <1>1, <1>2, <1>3, <2>1
<1>5. \A i \in 1..(n - 1) : i - 1 \in up => i \in up
  <2> SUFFICES ASSUME NEW i \in 1..(n - 1), i - 1 \in up PROVE i \in up
    OBVIOUS
  <2>1. /\ (i - 1) + 1 = i /\ i \in 1..n /\ i + 1 \in 1..n /\ 1 \in 1..n
        /\ i \in 0..(n - 1)
    OBVIOUS
  <2>2. log[1].version <= log[i].version /\ log[i + 1].version >= log[i].version
    BY <1>3, <2>1
  <2>3. log[1].version \in Nat /\ log[i].version \in Nat /\ log[i + 1].version \in Nat
    BY <1>2, <2>1
  <2>4. log[1].version <= log[i + 1].version
    BY <2>2, <2>3
  <2> QED BY <2>1, <2>4
<1>6. \A i \in 1..(n - 1) : i - 1 \in down => i \in down
  <2> SUFFICES ASSUME NEW i \in 1..(n - 1), i - 1 \in down PROVE i \in down
    OBVIOUS
  <2>1. /\ n - (i - 1) = (n - i) + 1 /\ n - i \in 1..(n - 1) /\ n - i \in 1..n
        /\ (n - i) + 1 \in 1..n /\ i \in 0..(n - 1)
    OBVIOUS
  <2>2. log[(n - i) + 1].version <= ver /\ log[(n - i) + 1].version >= log[n - i].version
    BY <1>3, <2>1
  <2>3. log[n - i].version \in Nat /\ log[(n - i) + 1].version \in Nat
    BY <1>2, <2>1
  <2>4. log[n - i].version <= ver
    BY <2>2, <2>3
  <2> QED BY <2>1, <2>4
<1>7. \A i \in 0..(n - 1) : i \in up /\ i \in down
  <2>1. Inductive(up, n - 1) /\ Inductive(down, n - 1)
    BY <1>4, <1>5, <1>6 DEF Inductive
  <2> HIDE DEF up, down
  <2> QED BY <1>4, <2>1, NumberInduction
<1> HIDE DEF up, down
<1>8. ASSUME NEW i \in 1..n PROVE log[1].version <= log[i].version /\ log[i].version <= ver
  <2>1. i - 1 \in up /\ n - i \in down /\ (i - 1) + 1 = i /\ n - (n - i) = i
    BY <1>7
  <2>2. log[1].version <= log[(i - 1) + 1].version /\ log[n - (n - i)].version <= ver
    BY <2>1 DEF up, down
  <2> QED BY <2>1, <2>2
<1> QED BY <1>1, <1>8

LEMMA AppendedRecord ==
    ASSUME NEW log \in Seq(Records), NEW rec \in Records, NEW long,
           long = Append(log, rec)
    PROVE  \E n \in Nat : /\ n = Len(log) /\ DOMAIN log = 1..n /\ DOMAIN long = 1..(n + 1)
                          /\ long[n + 1] = rec /\ \A i \in 1..n : long[i] = log[i]
  OBVIOUS

(* One more record: what was replayed so far, and then the record. *)
LEMMA ExactAppend ==
    ASSUME NEW c, NEW log \in Seq(Records), NEW ver \in Nat, NEW content,
           c.version \in Nat, c.version <= ver, Exact(c, log, ver, content),
           NEW rec \in Records, rec.version = ver + (IF rec.applied THEN 1 ELSE 0),
           NEW new, ~Unnamed(rec.op) => new = Effect(rec.op, content),
           ~rec.applied => new = content
    PROVE  Exact(c, Append(log, rec), rec.version, new)
<1>0. PICK long : long = Append(log, rec)
  OBVIOUS
<1>1. PICK n \in Nat : /\ n = Len(log) /\ DOMAIN log = 1..n /\ DOMAIN long = 1..(n + 1)
                       /\ long[n + 1] = rec /\ \A i \in 1..n : long[i] = log[i]
  BY <1>0, AppendedRecord
<1>2. NewerThan(long, c.version)
         = IF rec.version > c.version THEN Append(NewerThan(log, c.version), rec)
           ELSE NewerThan(log, c.version)
  BY <1>0, NewerAppend
<1> SUFFICES ASSUME \A k \in (c.version + 1)..rec.version : Holds(long, k),
                    AllNamed(long, c.version)
             PROVE  FoldLeft(Replay, c, NewerThan(long, c.version))
                       = Copy(rec.version, new)
  BY <1>0 DEF Exact
<1>3. ASSUME NEW k \in (c.version + 1)..ver PROVE Holds(log, k)
  <2>1. k \in (c.version + 1)..rec.version /\ k # ver + 1
    <3>1. k \in Int /\ k <= ver /\ c.version + 1 <= k /\ ver <= rec.version
      OBVIOUS
    <3> QED BY <3>1
  <2>2. PICK i \in 1..(n + 1) : long[i].version = k /\ long[i].applied
    BY <1>1, <2>1 DEF Holds
  <2>3. i # n + 1
    BY <1>1, <2>1, <2>2
  <2>4. i \in 1..n
    BY <2>3
  <2> QED BY <1>1, <2>2, <2>4 DEF Holds
<1>4. FoldLeft(Replay, c, NewerThan(log, c.version)) = Copy(ver, content)
  <2>1. \A i \in 1..n : i \in 1..(n + 1)
    OBVIOUS
  <2>2. AllNamed(log, c.version)
    BY <1>1, <2>1 DEF AllNamed
  <2> QED BY <1>3, <2>2 DEF Exact
<1>5. CASE rec.version > c.version
  <2>1. PICK s : s = NewerThan(log, c.version) /\ s \in Seq(Records)
    BY NewerSeq
  <2>2. NewerThan(long, c.version) = Append(s, rec)
    BY <1>2, <1>5, <2>1
  <2>3. FoldLeft(Replay, c, Append(s, rec)) = Replay(Copy(ver, content), rec)
    <3>1. FoldLeft(Replay, c, s) = Copy(ver, content)
      BY <1>4, <2>1, Zenon
    <3>2. FoldLeft(Replay, c, Append(s, rec)) = Replay(FoldLeft(Replay, c, s), rec)
      BY <2>1, ReplayAppend
    <3> QED BY <3>1, <3>2, Zenon
  <2>4. Replay(Copy(ver, content), rec) = Copy(rec.version, new)
    <3>1. n + 1 \in 1..(n + 1)
      OBVIOUS
    <3>2. ~Unnamed(rec.op)
      BY <1>1, <1>5, <3>1 DEF AllNamed
    <3> QED BY <3>2 DEF Replay, Copy
  <2> QED BY <2>2, <2>3, <2>4, Zenon
<1>6. CASE ~ (rec.version > c.version)
  <2>1. NewerThan(long, c.version) = NewerThan(log, c.version)
    BY <1>2, <1>6
  <2>2. ~rec.applied /\ rec.version = ver
    BY <1>6 DEF Records
  <2> QED BY <1>4, <2>1, <2>2, Zenon
<1> QED BY <1>5, <1>6

(* The first record goes: either the reader has it, or there is a gap. *)
LEMMA ExactTail ==
    ASSUME NEW c, NEW log \in Seq(Records), log # <<>>, NEW ver \in Nat, NEW clk,
           NEW content, c.version \in Nat,
           Counts(log, ver, clk), Exact(c, log, ver, content)
    PROVE  Exact(c, Tail(log), ver, content)
<1> DEFINE rest == Tail(log)
<1>1. PICK n \in Nat : /\ n = Len(log) /\ n > 0 /\ DOMAIN log = 1..n
                       /\ DOMAIN rest = 1..(n - 1)
                       /\ \A i \in 1..(n - 1) : rest[i] = log[i + 1]
  OBVIOUS
<1>2. \A i \in 1..n : /\ log[1].version <= log[i].version /\ log[i].version <= ver
                      /\ log[i].version \in Nat
  <2>1. \A i \in 1..n : log[i].version \in Nat
    <3>1. \A i \in 1..n : log[i] \in Records
      BY <1>1
    <3> QED BY <3>1 DEF Records
  <2> QED BY <1>1, <2>1, CountsUp
<1> SUFFICES ASSUME \A k \in (c.version + 1)..ver : Holds(rest, k),
                    AllNamed(rest, c.version)
             PROVE  FoldLeft(Replay, c, NewerThan(rest, c.version)) = Copy(ver, content)
  BY DEF Exact
<1> HIDE DEF rest
<1>3. \A k \in (c.version + 1)..ver : Holds(log, k)
  <2> SUFFICES ASSUME NEW k \in (c.version + 1)..ver PROVE Holds(log, k)
    OBVIOUS
  <2>1. PICK i \in 1..(n - 1) : rest[i].version = k /\ rest[i].applied
    BY <1>1 DEF Holds
  <2>2. i + 1 \in 1..n /\ log[i + 1] = rest[i]
    BY <1>1
  <2> QED BY <1>1, <2>1, <2>2 DEF Holds
<1>4. ~ (log[1].version > c.version)
  <2> SUFFICES ASSUME log[1].version > c.version PROVE FALSE
    OBVIOUS
  <2>1. 1 \in 1..n
    BY <1>1
  <2>2. log[1].version \in (c.version + 1)..ver
    BY <1>2, <2>1
  <2>3. PICK i \in 1..(n - 1) : rest[i].version = log[1].version /\ rest[i].applied
    BY <1>1, <2>2 DEF Holds
  <2>4. i \in 1..n /\ i + 1 \in 1..n /\ log[i + 1] = rest[i]
    BY <1>1
  <2>5. log[i + 1].version = log[i].version + 1
    BY <1>1, <2>3, <2>4 DEF Counts, Follows
  <2>6. log[1].version <= log[i].version /\ log[i].version \in Nat /\ log[1].version \in Nat
    BY <1>2, <2>1, <2>4
  <2> QED BY <2>3, <2>4, <2>5, <2>6
<1>5. NewerThan(rest, c.version) = NewerThan(log, c.version)
  BY <1>4, NewerTail DEF rest
<1>6. FoldLeft(Replay, c, NewerThan(log, c.version)) = Copy(ver, content)
  <2>1. ASSUME NEW i \in 1..n, log[i].version > c.version PROVE ~Unnamed(log[i].op)
    <3>1. i # 1
      BY <1>4, <2>1
    <3>2. i - 1 \in 1..(n - 1) /\ (i - 1) + 1 = i
      BY <3>1
    <3>3. rest[i - 1] = log[i]
      BY <1>1, <3>2
    <3> QED BY <1>1, <2>1, <3>2, <3>3 DEF AllNamed
  <2>2. AllNamed(log, c.version)
    BY <1>1, <2>1 DEF AllNamed
  <2> QED BY <1>3, <2>2 DEF Exact
<1> QED BY <1>5, <1>6, Zenon

-----------------------------------------------------------------------------
CatchUpInv ==
    /\ ReaderInv /\ Counts(history, version, clock)
    /\ copy.version \in Nat /\ copy.version <= version
    /\ Exact(copy, history, version, Content)

LEMMA AcceptExact ==
    ASSUME CatchUpInv, NEW op \in Operations, Accept(op), copy' = copy
    PROVE  /\ copy'.version \in Nat /\ copy'.version <= version'
           /\ Exact(copy', history', version', Content')
  <1>1. /\ ClockInv /\ LogInv /\ Counts(history, version, clock)
        /\ copy.version \in Nat /\ copy.version <= version /\ version \in Nat
        /\ Exact(copy, history, version, Content) /\ history \in Seq(Records)
    BY DEF CatchUpInv, ReaderInv, ClockInv, LogInv
  <1>2. PICK rec \in Records :
              /\ rec.op = op /\ rec.version = version'
              /\ rec.version = version + (IF rec.applied THEN 1 ELSE 0)
              /\ rec.serverClock = clock' /\ rec.serverClock > clock
              /\ ~rec.applied => Content' = Content
              /\ ~Unnamed(rec.op) => Content' = Effect(rec.op, Content)
              /\ \/ history' = Append(history, rec)
                 \/ history' = Tail(Append(history, rec))
    <2>1. PICK rec \in Records :
              /\ rec.op = op /\ rec.version = version'
              /\ rec.version = version + (IF rec.applied THEN 1 ELSE 0)
              /\ rec.serverClock = clock' /\ rec.serverClock > clock
              /\ ~rec.applied => Content' = Content
              /\ ~Unnamed(op) => Content' = Effect(op, Content)
              /\ Remember(rec)
      BY <1>1, AcceptRecord
    <2>2. \/ history' = Append(history, rec)
          \/ history' = Tail(Append(history, rec))
      BY <2>1 DEF Remember
    <2>3. ~Unnamed(rec.op) => Content' = Effect(rec.op, Content)
      BY <2>1
    <2> QED BY <2>1, <2>2, <2>3
  <1>3. ~Unnamed(rec.op) => Content' = Effect(rec.op, Content)
    BY <1>2
  <1>4. rec.version \in Nat /\ version <= rec.version
    BY <1>1, <1>2 DEF Records
  <1>5a. PICK log \in Seq(Records), ver \in Nat, clk \in Nat :
            log = history /\ ver = version /\ clk = clock
    BY <1>1 DEF ClockInv
  <1>5b. PICK content, new : content = Content /\ new = Content'
    OBVIOUS
  <1>5. /\ log = history /\ content = Content /\ new = Content' /\ ver = version
        /\ clk = clock
    BY <1>5a, <1>5b
  <1>6. Exact(copy, Append(log, rec), rec.version, new)
    <2>1. /\ log \in Seq(Records) /\ copy.version <= ver /\ Exact(copy, log, ver, content)
          /\ rec.version = ver + (IF rec.applied THEN 1 ELSE 0)
          /\ (~Unnamed(rec.op) => new = Effect(rec.op, content)) /\ (~rec.applied => new = content)
      BY <1>1, <1>2, <1>3, <1>5
    <2> QED BY <1>1, <2>1, ExactAppend
  <1>7. Counts(Append(log, rec), rec.version, rec.serverClock)
    BY <1>1, <1>2, <1>5, CountsAppend
  <1>8. Exact(copy, Tail(Append(log, rec)), rec.version, new)
    <2>1. Append(log, rec) \in Seq(Records) /\ Append(log, rec) # <<>>
      OBVIOUS
    <2> QED BY <1>1, <1>4, <1>6, <1>7, <2>1, ExactTail
  <1>9. Exact(copy, history', version', Content')
    BY <1>2, <1>5, <1>6, <1>8
  <1> QED BY <1>1, <1>2, <1>4, <1>9

(* A snapshot leaves nothing to replay. *)
LEMMA PullExact ==
    ASSUME NEW log \in Seq(Records), NEW ver \in Nat, NEW clk, NEW content,
           Counts(log, ver, clk)
    PROVE  Exact(Copy(ver, content), log, ver, content)
  <1>1. \A i \in 1..Len(log) : ~ (log[i].version > ver)
    <2>1. ASSUME NEW i \in 1..Len(log) PROVE ~ (log[i].version > ver)
      <3>1. log # <<>> /\ log[i] \in Records
        OBVIOUS
      <3>2. log[i].version \in Nat
        BY <3>1 DEF Records
      <3>3. log[i].version <= ver
        BY <3>1, CountsUp
      <3> QED BY <3>2, <3>3
    <2> QED BY <2>1
  <1>2. NewerThan(log, ver) = <<>>
    BY <1>1, NewerSeq
  <1>3. Copy(ver, content).version = ver
    BY DEF Copy
  <1>4. FoldLeft(Replay, Copy(ver, content), <<>>) = Copy(ver, content)
    BY ReplayNothing
  <1> QED BY <1>2, <1>3, <1>4 DEF Exact

(* A reader whose missing changes are all in the log, with the ids of what  *)
(* they write, rebuilds the scene from them, whatever was accepted, sent    *)
(* again and trimmed since.                                                 *)
THEOREM CatchUpAlwaysExact == ReaderSpec => []CatchUpExact
  <1> DEFINE Caught == /\ Counts(history, version, clock)
                       /\ copy.version \in Nat /\ copy.version <= version
                       /\ Exact(copy, history, version, Content)
  <1>1. ReaderInit => Caught
    <2> SUFFICES ASSUME ReaderInit PROVE Caught
      OBVIOUS
    <2>1. history = <<>> /\ copy = Copy(version, Content) /\ version \in Nat
      BY InitClockInv DEF ReaderInit, DocInit, ClockInv
    <2>2. history \in Seq(Records) /\ Len(history) = 0 /\ 1..(0 - 1) = {}
      BY <2>1
    <2>3. Counts(history, version, clock)
      BY <2>1, <2>2 DEF Counts
    <2>4. Exact(copy, history, version, Content)
      BY <2>1, <2>2, <2>3, PullExact
    <2>5. copy.version = version
      BY <2>1 DEF Copy
    <2> QED BY <2>1, <2>3, <2>4, <2>5
  <1>2. ReaderInv /\ Caught /\ [ReaderNext]_readerVars => Caught'
    <2> SUFFICES ASSUME ReaderInv, Caught, [ReaderNext]_readerVars PROVE Caught'
      OBVIOUS
    <2>1. /\ ClockInv /\ LogInv /\ history \in Seq(Records) /\ version \in Nat
          /\ CatchUpInv
      BY DEF ReaderInv, ClockInv, LogInv, CatchUpInv
    <2>2. ASSUME NEW op \in Operations, Accept(op), copy' = copy PROVE Caught'
      <3>1. Counts(history', version', clock')
        BY <2>1, <2>2, AcceptCounts
      <3>2. /\ copy'.version \in Nat /\ copy'.version <= version'
            /\ Exact(copy', history', version', Content')
        BY <2>1, <2>2, AcceptExact
      <3> QED BY <3>1, <3>2 DEF Counts, Follows, Exact, Holds, AllNamed
    <2>3. CASE UNCHANGED << docVars, copy >>
      BY <2>3 DEF docVars, Counts, Follows, Exact, Holds, AllNamed, Content, ContentOf
    <2>4. CASE Pull
      <3>1. /\ UNCHANGED << clock, version, store, history >>
            /\ copy' = Copy(version, Content)
        BY <2>4 DEF Pull
      <3>2. Exact(copy', history, version, Content) /\ copy'.version = version
        BY <2>1, <3>1, PullExact DEF Copy
      <3> QED BY <2>1, <3>1, <3>2 DEF Counts, Follows, Exact, Holds, AllNamed, Content, ContentOf
    <2> QED BY <2>2, <2>3, <2>4
         DEF ReaderNext, readerVars, docVars, Edit, Resend, ResendForgotten, ResendKnown,
             Duplicate
  <1>3. Caught => CatchUpExact
    <2> SUFFICES ASSUME Caught, Covers(copy.version), NamedSince(copy.version)
                 PROVE  CatchUp(copy) = Copy(version, Content)
      BY DEF CatchUpExact
    <2>1. \A n \in (copy.version + 1)..version : Holds(history, n)
      BY DEF Covers, Holds
    <2>2. AllNamed(history, copy.version)
      BY DEF NamedSince, AllNamed
    <2> QED BY <2>1, <2>2 DEF Exact, CatchUp, OperationsSince
  <1> QED BY <1>1, <1>2, <1>3, AlwaysReaderInv, PTL DEF ReaderSpec

-----------------------------------------------------------------------------
(* The lists of line ids: what is left of one without the repetitions, and  *)
(* what is in a set.                                                        *)

LEMMA FoldIsOnlyIn ==
    ASSUME NEW ids, NEW S, NEW n \in Nat, DOMAIN ids = 1..n
    PROVE  OnlyIn(ids, S) = Folded("only", S, <<>>, ids)
<1> DEFINE Keep(so, x) == IF x \in S THEN Append(so, x) ELSE so
<1>1. \A g : Steps(g, "only", S, <<>>, ids) <=>
             g = [t \in SUBSET DOMAIN ids |->
                    IF t = {} THEN <<>> ELSE Keep(g[t \ {Max(t)}], ids[Max(t)])]
  BY DEF Steps, Step
<1> DEFINE f == CHOOSE g : g = [t \in SUBSET DOMAIN ids |->
                    IF t = {} THEN <<>> ELSE Keep(g[t \ {Max(t)}], ids[Max(t)])]
<1>2. OnlyIn(ids, S) = f[DOMAIN ids]
  BY DEF OnlyIn, FoldLeft, MapThenFoldSet
<1> HIDE DEF Keep
<1>3. f = CHOOSE g : Steps(g, "only", S, <<>>, ids)
  BY <1>1
<1> QED BY <1>2, <1>3 DEF Folded

LEMMA FoldIsDeduplicated ==
    ASSUME NEW ids, NEW n \in Nat, DOMAIN ids = 1..n
    PROVE  Deduplicated(ids) = Folded("unique", 0, <<>>, ids)
<1> DEFINE Keep(so, x) == IF x = Null \/ Contains(so, x) THEN so ELSE Append(so, x)
<1>1. \A g : Steps(g, "unique", 0, <<>>, ids) <=>
             g = [t \in SUBSET DOMAIN ids |->
                    IF t = {} THEN <<>> ELSE Keep(g[t \ {Max(t)}], ids[Max(t)])]
  BY DEF Steps, Step
<1> DEFINE f == CHOOSE g : g = [t \in SUBSET DOMAIN ids |->
                    IF t = {} THEN <<>> ELSE Keep(g[t \ {Max(t)}], ids[Max(t)])]
<1>2. Deduplicated(ids) = f[DOMAIN ids]
  BY DEF Deduplicated, FoldLeft, MapThenFoldSet
<1> HIDE DEF Keep
<1>3. f = CHOOSE g : Steps(g, "unique", 0, <<>>, ids)
  BY <1>1
<1> QED BY <1>2, <1>3 DEF Folded

Distinct(s) == \A i, j \in 1..Len(s) : s[i] = s[j] => i = j

LEMMA AppendedIds ==
    ASSUME NEW S, NEW s \in Seq(S), NEW x \in S
    PROVE  /\ Append(s, x) \in Seq(S) /\ ToSet(Append(s, x)) = ToSet(s) \cup {x}
           /\ Distinct(s) /\ x \notin ToSet(s) => Distinct(Append(s, x))
<1>1. PICK n \in Nat : n = Len(s) /\ DOMAIN s = 1..n
  OBVIOUS
<1>2. PICK t : t = Append(s, x)
  OBVIOUS
<1>3. /\ t \in Seq(S) /\ Len(t) = n + 1 /\ DOMAIN t = 1..(n + 1) /\ t[n + 1] = x
      /\ \A i \in 1..n : t[i] = s[i]
  BY <1>1, <1>2
<1>4. ToSet(t) = ToSet(s) \cup {x}
  <2>1. \A y : y \in ToSet(t) <=> \E i \in 1..(n + 1) : t[i] = y
    BY <1>3 DEF ToSet
  <2>2. \A y : y \in ToSet(s) <=> \E i \in 1..n : s[i] = y
    BY <1>1 DEF ToSet
  <2>3. \A i : i \in 1..(n + 1) <=> i \in 1..n \/ i = n + 1
    OBVIOUS
  <2>4. \A y : y \in ToSet(t) <=> y \in ToSet(s) \cup {x}
    BY <1>3, <2>1, <2>2, <2>3
  <2> QED BY <2>4
<1>5. ASSUME Distinct(s), x \notin ToSet(s) PROVE Distinct(t)
  <2>1. \A i \in 1..n : s[i] # x
    BY <1>1, <1>5 DEF ToSet
  <2> QED BY <1>1, <1>3, <1>5, <2>1 DEF Distinct
<1> QED BY <1>2, <1>3, <1>4, <1>5

(* The first i of ids. *)
Prefix(ids, i) == SubSeq(ids, 1, i)

LEMMA PrefixIds ==
    ASSUME NEW S, NEW ids \in Seq(S), NEW i \in 1..Len(ids)
    PROVE  /\ Prefix(ids, i) = Append(Prefix(ids, i - 1), ids[i])
           /\ Prefix(ids, i - 1) \in Seq(S) /\ ids[i] \in S
           /\ Distinct(ids) => ids[i] \notin ToSet(Prefix(ids, i - 1))
<1>1. PICK n \in Nat : n = Len(ids) /\ DOMAIN ids = 1..n
  OBVIOUS
<1>2. PICK s : s = Prefix(ids, i - 1)
  OBVIOUS
<1>3. /\ s \in Seq(S) /\ Len(s) = i - 1 /\ DOMAIN s = 1..(i - 1)
      /\ \A k \in 1..(i - 1) : s[k] = ids[k]
  BY <1>1, <1>2 DEF Prefix
<1>4. Prefix(ids, i) = Append(s, ids[i])
  BY <1>1, <1>3 DEF Prefix
<1>5. ASSUME Distinct(ids) PROVE ids[i] \notin ToSet(s)
  BY <1>1, <1>3, <1>5 DEF Distinct, ToSet
<1> QED BY <1>1, <1>2, <1>3, <1>4, <1>5

LEMMA PrefixEnds ==
    ASSUME NEW S, NEW ids \in Seq(S)
    PROVE  Prefix(ids, 0) = <<>> /\ Prefix(ids, Len(ids)) = ids
  BY DEF Prefix

(* Deduplicated keeps every id but None, once. *)
LEMMA DeduplicatedIds ==
    ASSUME NEW S, NEW ids \in Seq(S)
    PROVE  /\ Deduplicated(ids) \in Seq(S \ {Null})
           /\ Distinct(Deduplicated(ids))
           /\ ToSet(Deduplicated(ids)) = ToSet(ids) \ {Null}
           /\ Distinct(ids) /\ Null \notin S => Deduplicated(ids) = ids
<1>1. PICK n \in Nat : n = Len(ids) /\ DOMAIN ids = 1..n
  OBVIOUS
<1>2. PICK g : Goes(g, "unique", 0, <<>>, ids, n)
  BY <1>1, FoldSteps
<1>3. ASSUME NEW i \in 1..n
      PROVE  g[i] = IF ids[i] = Null \/ Contains(g[i - 1], ids[i]) THEN g[i - 1]
                    ELSE Append(g[i - 1], ids[i])
  BY <1>2 DEF Step, Goes
<1> DEFINE Good(s, t) == /\ s \in Seq(S \ {Null}) /\ Distinct(s)
                         /\ ToSet(s) = ToSet(t) \ {Null}
                         /\ Distinct(ids) /\ Null \notin S => s = t
           good == {i \in 0..n : Good(g[i], Prefix(ids, i))}
<1>4. 0 \in good
  <2>1. g[0] = <<>> /\ Prefix(ids, 0) = <<>>
    BY <1>2, PrefixEnds DEF Goes
  <2>2. <<>> \in Seq(S \ {Null}) /\ Distinct(<<>>) /\ ToSet(<<>>) = {}
    BY DEF Distinct, ToSet
  <2>3. 0 \in 0..n
    OBVIOUS
  <2> QED BY <2>1, <2>2, <2>3
<1>5. ASSUME NEW i \in 1..n, i - 1 \in good PROVE i \in good
  <2>1. PICK s : s = g[i - 1]
    OBVIOUS
  <2>2. PICK t : t = Prefix(ids, i - 1)
    OBVIOUS
  <2>3. PICK x : x = ids[i]
    OBVIOUS
  <2>4. Good(s, t)
    BY <1>5, <2>1, <2>2
  <2>5. /\ Prefix(ids, i) = Append(t, x) /\ t \in Seq(S) /\ x \in S
        /\ Distinct(ids) => x \notin ToSet(t)
    BY <1>1, <2>2, <2>3, PrefixIds
  <2>6. ToSet(Append(t, x)) = ToSet(t) \cup {x}
    BY <2>5, AppendedIds
  <2>7. Contains(s, x) <=> x \in ToSet(s)
    <3>1. DOMAIN s = 1..Len(s)
      BY <2>4
    <3> QED BY <3>1 DEF Contains, ToSet
  <2>8. CASE x = Null \/ Contains(s, x)
    <3>1. g[i] = s
      BY <1>3, <2>1, <2>3, <2>8
    <3>2. ToSet(s) = ToSet(Append(t, x)) \ {Null}
      BY <2>4, <2>6, <2>7, <2>8
    <3>3. ~ (Distinct(ids) /\ Null \notin S)
      BY <2>4, <2>5, <2>7, <2>8
    <3>4. Good(s, Append(t, x))
      BY <2>4, <3>2, <3>3
    <3>5. i \in 0..n
      OBVIOUS
    <3> HIDE DEF Good
    <3> QED BY <2>5, <3>1, <3>4, <3>5
  <2>9. CASE x # Null /\ ~ Contains(s, x)
    <3>1. g[i] = Append(s, x)
      BY <1>3, <2>1, <2>3, <2>9
    <3>2. x \in S \ {Null} /\ x \notin ToSet(s)
      BY <2>5, <2>7, <2>9
    <3>3. /\ Append(s, x) \in Seq(S \ {Null}) /\ ToSet(Append(s, x)) = ToSet(s) \cup {x}
          /\ Distinct(Append(s, x))
      BY <2>4, <3>2, AppendedIds
    <3>4. Good(Append(s, x), Append(t, x))
      BY <2>4, <2>6, <2>9, <3>3
    <3>5. i \in 0..n
      OBVIOUS
    <3> HIDE DEF Good
    <3> QED BY <2>5, <3>1, <3>4, <3>5
  <2> QED BY <2>8, <2>9
<1> HIDE DEF Good
<1>6. n \in good
  <2>1. Inductive(good, n)
    BY <1>4, <1>5 DEF Inductive
  <2> HIDE DEF good
  <2> QED BY <2>1, NumberInduction
<1>7. Good(g[n], ids)
  BY <1>1, <1>6, PrefixEnds
<1>8. Deduplicated(ids) = g[n]
  BY <1>1, <1>2, FoldIsDeduplicated DEF Goes
<1> QED BY <1>7, <1>8 DEF Good

LEMMA OnlyInIds ==
    ASSUME NEW S, NEW ids \in Seq(S), NEW T
    PROVE  /\ OnlyIn(ids, T) \in Seq(S)
           /\ Distinct(ids) => Distinct(OnlyIn(ids, T))
           /\ ToSet(OnlyIn(ids, T)) = ToSet(ids) \cap T
           /\ ToSet(ids) \subseteq T => OnlyIn(ids, T) = ids
<1>1. PICK n \in Nat : n = Len(ids) /\ DOMAIN ids = 1..n
  OBVIOUS
<1>2. PICK g : Goes(g, "only", T, <<>>, ids, n)
  BY <1>1, FoldSteps
<1>3. ASSUME NEW i \in 1..n
      PROVE  g[i] = IF ids[i] \in T THEN Append(g[i - 1], ids[i]) ELSE g[i - 1]
  BY <1>2 DEF Step, Goes
<1> DEFINE Good(s, t) == /\ s \in Seq(S)
                         /\ Distinct(ids) => Distinct(s)
                         /\ ToSet(s) = ToSet(t) \cap T
                         /\ ToSet(ids) \subseteq T => s = t
           good == {i \in 0..n : Good(g[i], Prefix(ids, i))}
<1>4. 0 \in good
  <2>1. g[0] = <<>> /\ Prefix(ids, 0) = <<>>
    BY <1>2, PrefixEnds DEF Goes
  <2>2. <<>> \in Seq(S) /\ Distinct(<<>>) /\ ToSet(<<>>) = {}
    BY DEF Distinct, ToSet
  <2>3. 0 \in 0..n
    OBVIOUS
  <2> QED BY <2>1, <2>2, <2>3
<1>5. ASSUME NEW i \in 1..n, i - 1 \in good PROVE i \in good
  <2>1. PICK s : s = g[i - 1]
    OBVIOUS
  <2>2. PICK t : t = Prefix(ids, i - 1)
    OBVIOUS
  <2>3. PICK x : x = ids[i]
    OBVIOUS
  <2>4. Good(s, t)
    BY <1>5, <2>1, <2>2
  <2>5. /\ Prefix(ids, i) = Append(t, x) /\ t \in Seq(S) /\ x \in S
        /\ Distinct(ids) => x \notin ToSet(t)
    BY <1>1, <2>2, <2>3, PrefixIds
  <2>6. ToSet(Append(t, x)) = ToSet(t) \cup {x} /\ x \in ToSet(ids)
    BY <1>1, <2>3, <2>5, AppendedIds DEF ToSet
  <2>7. i \in 0..n
    OBVIOUS
  <2>8. CASE x \notin T
    <3>1. g[i] = s
      BY <1>3, <2>1, <2>3, <2>8
    <3>2. Good(s, Append(t, x))
      BY <2>4, <2>6, <2>8
    <3> HIDE DEF Good
    <3> QED BY <2>5, <2>7, <3>1, <3>2
  <2>9. CASE x \in T
    <3>1. g[i] = Append(s, x)
      BY <1>3, <2>1, <2>3, <2>9
    <3>2. /\ Append(s, x) \in Seq(S) /\ ToSet(Append(s, x)) = ToSet(s) \cup {x}
          /\ Distinct(s) /\ x \notin ToSet(s) => Distinct(Append(s, x))
      BY <2>4, <2>5, AppendedIds
    <3>3. Good(Append(s, x), Append(t, x))
      BY <2>4, <2>5, <2>6, <2>9, <3>2
    <3> HIDE DEF Good
    <3> QED BY <2>5, <2>7, <3>1, <3>3
  <2> QED BY <2>8, <2>9
<1> HIDE DEF Good
<1>6. n \in good
  <2>1. Inductive(good, n)
    BY <1>4, <1>5 DEF Inductive
  <2> HIDE DEF good
  <2> QED BY <2>1, NumberInduction
<1>7. Good(g[n], ids)
  BY <1>1, <1>6, PrefixEnds
<1>8. OnlyIn(ids, T) = g[n]
  BY <1>1, <1>2, FoldIsOnlyIn DEF Goes
<1> QED BY <1>7, <1>8 DEF Good

-----------------------------------------------------------------------------
(* The type of a document's registers, and what RoundTrip needs to know: no *)
(* line is listed or remembered twice, and every line that has a value is   *)
(* remembered.                                                              *)
Payloads == Values \cup {Null}

Neat(s) ==
    /\ Shape(s)
    /\ s.reg \in [Keys -> RegisterType]
    /\ s.order \in OrderType /\ Distinct(s.order.value)
    /\ s.seen \in Seq(Lines) /\ Distinct(s.seen)
    /\ \A l \in Lines : s.reg[l].value # Null => l \in ToSet(s.seen)

LEMMA UpdateTyped ==
    ASSUME NEW reg \in RegisterType, NEW v \in Payloads, NEW clk \in Nat, NEW id \in Nat
    PROVE  Update(reg, v, clk, id) \in RegisterType
  BY DEF Update, Register, RegisterType, Payloads

(* Registers written, of keys that are remembered if they are lines. *)
LEMMA WriteNeat ==
    ASSUME NEW s, Neat(s), NEW t, Shape(t), t.order = s.order, t.seen = s.seen,
           \A k \in Keys : t.reg[k] \in RegisterType,
           \A l \in Lines : t.reg[l] = s.reg[l] \/ l \in ToSet(s.seen)
    PROVE  Neat(t)
<1>1. t.reg \in [Keys -> RegisterType]
  BY DEF Shape
<1> QED BY <1>1 DEF Neat

LEMMA PutNeat ==
    ASSUME NEW s, Neat(s), NEW key \in Keys, NEW v \in Payloads,
           NEW clk \in Nat, NEW id \in Nat, key \in Lines => key \in ToSet(s.seen)
    PROVE  /\ Neat(Put(s, key, v, clk, id))
           /\ Put(s, key, v, clk, id).order = s.order
           /\ Put(s, key, v, clk, id).seen = s.seen
<1>1. PICK r \in RegisterType : r = Update(s.reg[key], v, clk, id)
  BY UpdateTyped DEF Neat
<1>2. PICK t : t = [s EXCEPT !.reg[key] = r]
  OBVIOUS
<1>3. Put(s, key, v, clk, id) = t
  BY <1>1, <1>2 DEF Put
<1>4. /\ t = [reg |-> [s.reg EXCEPT ![key] = r], order |-> s.order, seen |-> s.seen]
  BY <1>2 DEF Neat, Shape
<1>5. \A k \in Keys : t.reg[k] = IF k = key THEN r ELSE s.reg[k]
  BY <1>4 DEF Neat
<1>6. Shape(t) /\ t.order = s.order /\ t.seen = s.seen
  BY <1>4 DEF Neat, Shape
<1>7. Lines \subseteq Keys
  BY DEF Keys
<1>8. \A k \in Keys : t.reg[k] \in RegisterType
  BY <1>5 DEF Neat
<1>9. \A l \in Lines : t.reg[l] = s.reg[l] \/ l \in ToSet(s.seen)
  BY <1>5, <1>7
<1> QED BY <1>3, <1>6, <1>8, <1>9, WriteNeat

LEMMA SeenNeat ==
    ASSUME NEW s, Neat(s), NEW line \in Lines
    PROVE  /\ Neat(Seen(s, line)) /\ line \in ToSet(Seen(s, line).seen)
           /\ Seen(s, line).order = s.order /\ Seen(s, line).reg = s.reg
<1>1. PICK old \in Seq(Lines) : old = s.seen
  BY DEF Neat
<1>2. PICK new : new = IF Contains(old, line) THEN old ELSE Append(old, line)
  OBVIOUS
<1>3. PICK t : t = Seen(s, line)
  OBVIOUS
<1>4. t = [reg |-> s.reg, order |-> s.order, seen |-> new]
  BY <1>1, <1>2, <1>3 DEF Neat, Shape, Seen
<1>5. Contains(old, line) <=> line \in ToSet(old)
  <2>1. DOMAIN old = 1..Len(old)
    OBVIOUS
  <2> QED BY <2>1 DEF Contains, ToSet
<1>6. /\ new \in Seq(Lines) /\ Distinct(new)
      /\ line \in ToSet(new) /\ ToSet(old) \subseteq ToSet(new)
  BY <1>1, <1>2, <1>5, AppendedIds DEF Neat
<1>7. Shape(t) /\ t.reg = s.reg /\ t.order = s.order /\ t.seen = new
  BY <1>4 DEF Neat, Shape
<1>8. Neat(t)
  BY <1>1, <1>6, <1>7 DEF Neat
<1> QED BY <1>3, <1>6, <1>7, <1>8

(* The order updated with a list of ids, which may have None and repetitions. *)
LEMMA OrderNeat ==
    ASSUME NEW s, Neat(s), NEW ids \in Seq(Lines \cup {Null}),
           NEW clk \in Nat, NEW id \in Nat
    PROVE  Neat([s EXCEPT !.order = UpdateOrder(@, ids, clk, id)])
<1>1. PICK o : o = UpdateOrder(s.order, ids, clk, id)
  OBVIOUS
<1>2. Deduplicated(ids) \in Seq((Lines \cup {Null}) \ {Null}) /\ Distinct(Deduplicated(ids))
  BY DeduplicatedIds
<1>3. (Lines \cup {Null}) \ {Null} = Lines
  BY KeysAssumption DEF Keys
<1>4. Deduplicated(ids) \in Seq(Lines)
  BY <1>2, <1>3
<1>5. o \in OrderType /\ Distinct(o.value)
  BY <1>1, <1>2, <1>4 DEF UpdateOrder, Update, Register, OrderType, Neat
<1>6. PICK t : t = [s EXCEPT !.order = UpdateOrder(@, ids, clk, id)]
  OBVIOUS
<1>7. t = [reg |-> s.reg, order |-> o, seen |-> s.seen]
  BY <1>1, <1>6 DEF Neat, Shape
<1>8. Shape(t) /\ t.reg = s.reg /\ t.order = o /\ t.seen = s.seen
  BY <1>7 DEF Neat, Shape
<1>9. Neat(t)
  BY <1>5, <1>8 DEF Neat
<1> QED BY <1>6, <1>9

-----------------------------------------------------------------------------
(* Where a line goes. *)
LEMMA PlacedIds ==
    ASSUME NEW ids \in Seq(Lines), NEW op, op.key \in Lines
    PROVE  Placed(ids, op) \in Seq(Lines)
<1>1. PICK n \in Nat : n = Len(ids) /\ DOMAIN ids = 1..n
  OBVIOUS
<1>2. PlacedAt(ids, op) \in 0..n
  <2>1. CASE op.index \in Int
    BY <1>1, <2>1 DEF PlacedAt
  <2>2. CASE op.index \notin Int /\ Contains(ids, op.after)
    <3>1. \E i \in DOMAIN ids : ids[i] = op.after
      BY <1>1, <2>2 DEF Contains
    <3>2. PlacedAt(ids, op) = CHOOSE i \in DOMAIN ids : ids[i] = op.after
      BY <2>2 DEF PlacedAt
    <3> QED BY <1>1, <3>1, <3>2
  <2>3. CASE op.index \notin Int /\ ~ Contains(ids, op.after)
    BY <1>1, <2>3 DEF PlacedAt
  <2> QED BY <2>1, <2>2, <2>3
<1>3. PICK i \in 0..n : i = PlacedAt(ids, op)
  BY <1>2
<1>4. PICK x \in Lines : x = op.key
  OBVIOUS
<1>5. SubSeq(ids, 1, i) \in Seq(Lines) /\ SubSeq(ids, i + 1, n) \in Seq(Lines)
  BY <1>1
<1>6. Placed(ids, op) = SubSeq(ids, 1, i) \o << x >> \o SubSeq(ids, i + 1, n)
  <2>1. (i + 1) - 1 = i
    OBVIOUS
  <2> QED BY <1>1, <1>3, <1>4, <2>1 DEF Placed, InsertAt
<1>7. << x >> \in Seq(Lines)
  OBVIOUS
<1>8. \A a, b \in Seq(Lines) : a \o b \in Seq(Lines)
  OBVIOUS
<1> QED BY <1>5, <1>6, <1>7, <1>8

LEMMA WithoutIds ==
    ASSUME NEW ids \in Seq(Lines), NEW line
    PROVE  Without(ids, line) \in Seq(Lines)
  BY OnlyInIds DEF Without

-----------------------------------------------------------------------------
(* The handlers. *)

LEMMA FieldSetNeat ==
    ASSUME NEW s, Neat(s), NEW clk \in Nat, NEW op \in Performed,
           op.kind = "scene.field.set"
    PROVE  Neat(OpSceneFieldSet(s, op, clk).store)
<1>1. CASE op.key \notin Fields
  BY <1>1 DEF OpSceneFieldSet, Outcome
<1>2. CASE op.key \in Fields
  <2>1. Writes(op) = {op.key} /\ Written(op, op.key) = op.value
    BY <1>2 DEF Writes, Written
  <2>2. op.value \in Payloads /\ op.id \in Nat
    BY <2>1, PerformedFacts DEF Payloads
  <2>3. op.key \in Keys /\ op.key \notin Lines
    BY <1>2, KeysAssumption DEF Keys
  <2>4. Neat(Put(s, op.key, op.value, clk, op.id))
    BY <2>2, <2>3, PutNeat
  <2> QED BY <1>2, <2>4 DEF OpSceneFieldSet, Outcome
<1> QED BY <1>1, <1>2

LEMMA NodeNeat ==
    ASSUME NEW s, Neat(s), NEW clk \in Nat, NEW op \in Performed, NEW v,
           op.key \in Nodes => v \in Payloads
    PROVE  Neat(OpGraphNode(s, op, clk, v).store)
<1>1. CASE op.key \notin Nodes
  BY <1>1 DEF OpGraphNode, Outcome
<1>2. CASE op.key \in Nodes
  <2>1. op.id \in Nat
    BY PerformedFacts
  <2>2. op.key \in Keys /\ op.key \notin Lines
    BY <1>2, KeysAssumption DEF Keys
  <2>3. Neat(Put(s, op.key, v, clk, op.id))
    BY <1>2, <2>1, <2>2, PutNeat
  <2> QED BY <1>2, <2>3 DEF OpGraphNode, Outcome
<1> QED BY <1>1, <1>2

LEMMA MetaUpdateNeat ==
    ASSUME NEW s, Neat(s), NEW clk \in Nat, NEW op \in Performed,
           op.kind = "scene.meta.update"
    PROVE  Neat(OpSceneMetaUpdate(s, op, clk).store)
<1> DEFINE keys == DOMAIN op.meta \cap MetaKeys
<1>1. PICK t : t = [s EXCEPT !.reg = [k \in Keys |->
                IF k \in keys THEN Update(s.reg[k], op.meta[k], clk, op.id) ELSE s.reg[k]]]
  OBVIOUS
<1>2. t = [ reg |-> [k \in Keys |-> IF k \in keys
                                    THEN Update(s.reg[k], op.meta[k], clk, op.id)
                                    ELSE s.reg[k]],
            order |-> s.order, seen |-> s.seen ]
  BY <1>1 DEF Neat, Shape
<1>3. \A k \in keys : op.meta[k] \in Payloads
  BY PerformedFacts DEF Writes, Written, Payloads
<1>4. op.id \in Nat
  BY PerformedFacts
<1>5. ASSUME NEW k \in Keys PROVE t.reg[k] \in RegisterType
  <2>1. s.reg[k] \in RegisterType
    BY DEF Neat
  <2>2. t.reg[k] = IF k \in keys THEN Update(s.reg[k], op.meta[k], clk, op.id) ELSE s.reg[k]
    BY <1>2
  <2> HIDE DEF keys
  <2> QED BY <1>3, <1>4, <2>1, <2>2, UpdateTyped
<1>6. ASSUME NEW l \in Lines PROVE t.reg[l] = s.reg[l]
  <2>1. l \in Keys /\ l \notin keys
    BY KeysAssumption DEF Keys
  <2> QED BY <1>2, <2>1
<1>7. Shape(t) /\ t.order = s.order /\ t.seen = s.seen
  BY <1>2 DEF Shape
<1>8. Neat(t)
  BY <1>5, <1>6, <1>7, WriteNeat
<1>9. OpSceneMetaUpdate(s, op, clk).store = t
  BY <1>1 DEF OpSceneMetaUpdate, Outcome
<1> QED BY <1>8, <1>9

LEMMA OrderReplaceNeat ==
    ASSUME NEW s, Neat(s), NEW clk \in Nat, NEW op \in Performed,
           op.kind = "script.order.replace"
    PROVE  Neat(OpScriptOrderReplace(s, op, clk).store)
<1>1. op.order \in Seq(Lines \cup {Null}) /\ op.id \in Nat
  BY PerformedFacts
<1>2. Neat([s EXCEPT !.order = UpdateOrder(@, op.order, clk, op.id)])
  BY <1>1, OrderNeat
<1> QED BY <1>2 DEF OpScriptOrderReplace, Outcome

LEMMA ScriptLineNeat ==
    ASSUME NEW s, Neat(s), NEW clk \in Nat, NEW op \in Performed,
           NEW v, NEW mustOrder, NEW ids,
           op.key \in Lines => v \in Payloads /\ ids \in Seq(Lines)
    PROVE  Neat(OpScriptLine(s, op, clk, v, mustOrder, ids).store)
<1>1. CASE op.key \notin Lines
  BY <1>1 DEF OpScriptLine, Outcome
<1>2. CASE op.key \in Lines
  <2>1. op.id \in Nat /\ op.key \in Keys
    BY <1>2, PerformedFacts DEF Keys
  <2>2. PICK x : x = Seen(s, op.key)
    OBVIOUS
  <2>3. Neat(x) /\ op.key \in ToSet(x.seen)
    BY <1>2, <2>2, SeenNeat
  <2>4. PICK t : t = Put(x, op.key, v, clk, op.id)
    OBVIOUS
  <2>5. Neat(t)
    BY <1>2, <2>1, <2>3, <2>4, PutNeat
  <2>6. PICK u : u = [t EXCEPT !.order = UpdateOrder(@, ids, clk, op.id)]
    OBVIOUS
  <2>7. ids \in Seq(Lines \cup {Null})
    BY <1>2
  <2>8. Neat(u)
    BY <2>1, <2>5, <2>6, <2>7, OrderNeat
  <2>9. OpScriptLine(s, op, clk, v, mustOrder, ids).store = IF mustOrder THEN u ELSE t
    BY <1>2, <2>2, <2>4, <2>6 DEF OpScriptLine, Outcome
  <2> QED BY <2>5, <2>8, <2>9
<1> QED BY <1>1, <1>2

LEMMA LineUpsertNeat ==
    ASSUME NEW s, Neat(s), NEW clk \in Nat, NEW op \in Performed,
           op.kind = "script.line.upsert"
    PROVE  Neat(OpScriptLineUpsert(s, op, clk).store)
<1>1. s.order.value \in Seq(Lines)
  BY DEF Neat, OrderType
<1>2. ASSUME op.key \in Lines
      PROVE  op.value \in Payloads /\ Placed(s.order.value, op) \in Seq(Lines)
  <2>1. Writes(op) = {op.key} /\ Written(op, op.key) = op.value
    BY <1>2 DEF Writes, Written
  <2> QED BY <1>1, <1>2, <2>1, PlacedIds, PerformedFacts DEF Payloads
<1> QED BY <1>2, ScriptLineNeat DEF OpScriptLineUpsert

LEMMA LineRemoveNeat ==
    ASSUME NEW s, Neat(s), NEW clk \in Nat, NEW op \in Performed,
           op.kind = "script.line.remove"
    PROVE  Neat(OpScriptLineRemove(s, op, clk).store)
<1>1. s.order.value \in Seq(Lines)
  BY DEF Neat, OrderType
<1>2. Null \in Payloads /\ Without(s.order.value, op.key) \in Seq(Lines)
  BY <1>1, WithoutIds DEF Payloads
<1> QED BY <1>2, ScriptLineNeat DEF OpScriptLineRemove

LEMMA HandleNeat ==
    ASSUME NEW s, Neat(s), NEW clk \in Nat, NEW op \in Performed
    PROVE  Neat(Handle(s, op, clk).store)
<1>1. CASE op.kind = "scene.field.set"
  BY <1>1, FieldSetNeat DEF Handle
<1>2. CASE op.kind = "scene.meta.update"
  BY <1>2, MetaUpdateNeat DEF Handle
<1>3. CASE op.kind = "graph.node.upsert"
  <2>1. ASSUME op.key \in Nodes PROVE op.value \in Payloads
    <3>1. Writes(op) = {op.key} /\ Written(op, op.key) = op.value
      BY <1>3, <2>1 DEF Writes, Written
    <3> QED BY <3>1, PerformedFacts DEF Payloads
  <2>2. Neat(OpGraphNode(s, op, clk, op.value).store)
    BY <2>1, NodeNeat
  <2> QED BY <1>3, <2>2 DEF Handle, OpGraphNodeUpsert
<1>4. CASE op.kind = "graph.node.remove"
  <2>1. Null \in Payloads
    BY DEF Payloads
  <2>2. Neat(OpGraphNode(s, op, clk, Null).store)
    BY <2>1, NodeNeat
  <2> QED BY <1>4, <2>2 DEF Handle, OpGraphNodeRemove
<1>5. CASE op.kind = "script.line.upsert"
  BY <1>5, LineUpsertNeat DEF Handle
<1>6. CASE op.kind = "script.line.remove"
  BY <1>6, LineRemoveNeat DEF Handle
<1>7. CASE op.kind = "script.order.replace"
  BY <1>7, OrderReplaceNeat DEF Handle
<1>8. CASE op.kind \notin SceneKinds
  BY <1>8 DEF Handle, SceneKinds, Outcome
<1> QED BY <1>1, <1>2, <1>3, <1>4, <1>5, <1>6, <1>7, <1>8 DEF SceneKinds

-----------------------------------------------------------------------------
(* A document that is bootstrapped. *)

LEMMA BootLineIsOne ==
    ASSUME NEW scene, NEW n \in Nat, DOMAIN scene.lines = 1..n,
           NEW line \in ToSet(LineIds(scene))
    PROVE  \E i \in 1..n : scene.lines[i].id = line /\ BootLine(scene, line) = scene.lines[i].value
<1> DEFINE at == {i \in DOMAIN scene.lines : scene.lines[i].id = line}
<1>1. at \in SUBSET (1..n) /\ at # {}
  BY DEF ToSet, LineIds
<1>2. Max(at) \in at /\ \A j \in at : j <= Max(at)
  <2> HIDE DEF at
  <2> QED BY <1>1, LastOf
<1>3. PICK i : i = CHOOSE k \in at : \A j \in at : j <= k
  OBVIOUS
<1>4. i \in at
  <2> HIDE DEF at
  <2> QED BY <1>2, <1>3
<1>5. BootLine(scene, line) = scene.lines[i].value
  BY <1>3 DEF BootLine
<1> QED BY <1>1, <1>4, <1>5

LEMMA ElementIn == ASSUME NEW S, NEW s \in Seq(S), NEW i \in DOMAIN s PROVE s[i] \in S
  OBVIOUS

LEMMA LineIdsTyped ==
    ASSUME NEW scene, scene.lines \in Seq([id : Lines, value : Payloads])
    PROVE  LineIds(scene) \in Seq(Lines) /\ Len(LineIds(scene)) = Len(scene.lines)
<1>1. PICK n \in Nat : n = Len(scene.lines) /\ DOMAIN scene.lines = 1..n
  OBVIOUS
<1>2. ASSUME NEW i \in 1..n PROVE scene.lines[i].id \in Lines
  <2>1. scene.lines[i] \in [id : Lines, value : Payloads]
    BY <1>1, ElementIn
  <2> QED BY <2>1
<1>3. LineIds(scene) = [i \in 1..n |-> scene.lines[i].id]
  BY <1>1 DEF LineIds
<1>4. [i \in 1..n |-> scene.lines[i].id] \in Seq(Lines)
  BY <1>2
<1> QED BY <1>1, <1>3, <1>4

Sane(scene) ==
    /\ scene.clock \in Nat /\ scene.version \in Nat
    /\ {scene.title, scene.start} \subseteq Payloads
    /\ DOMAIN scene.meta \subseteq MetaKeys /\ DOMAIN scene.nodes \subseteq Nodes
    /\ \A k \in DOMAIN scene.meta  : scene.meta[k] \in Payloads
    /\ \A k \in DOMAIN scene.nodes : scene.nodes[k] \in Payloads
    /\ scene.lines \in Seq([id : Lines, value : Payloads])

LEMMA InitialSane == ASSUME NEW scene \in InitialScenes PROVE Sane(scene)
  BY DocAssumption DEF Sane, Payloads

(* Where the value of a key comes from. *)
LEMMA BootSources ==
    ASSUME NEW scene, Sane(scene), NEW k \in Keys, k \in BootKeys(scene)
    PROVE  \/ k = "title" /\ BootValue(scene, k) = BootTitle(scene.title)
           \/ k = "start" /\ BootValue(scene, k) = StartOf(scene.start)
           \/ k \in MetaKeys \cap DOMAIN scene.meta /\ BootValue(scene, k) = scene.meta[k]
           \/ k \in Nodes \cap DOMAIN scene.nodes /\ BootValue(scene, k) = scene.nodes[k]
           \/ k \in Lines /\ k \in ToSet(LineIds(scene)) /\ BootValue(scene, k) = BootLine(scene, k)
<1>1. ToSet(LineIds(scene)) \subseteq Lines
  <2>1. LineIds(scene) \in Seq(Lines)
    BY LineIdsTyped DEF Sane
  <2> QED BY <2>1 DEF ToSet
<1>2. CASE k \in Fields
  <2>1. k \notin MetaKeys /\ k \notin Nodes /\ k \notin Lines
    BY <1>2, KeysAssumption
  <2>2. k = "title" \/ k = "start"
    BY <1>2 DEF Fields
  <2>3. k = "title" => BootValue(scene, k) = BootTitle(scene.title)
    BY <2>1 DEF BootValue
  <2>4. k = "start" => BootValue(scene, k) = StartOf(scene.start)
    BY <2>1 DEF BootValue
  <2> QED BY <2>2, <2>3, <2>4
<1>3. CASE k \in MetaKeys
  <2>1. k \notin Fields /\ k \notin Nodes /\ k \notin Lines
    BY <1>3, KeysAssumption
  <2>2. k \in DOMAIN scene.meta
    BY <1>1, <2>1 DEF BootKeys, Sane
  <2>3. k # "title" /\ k # "start"
    BY <2>1 DEF Fields
  <2>4. BootValue(scene, k) = scene.meta[k]
    BY <1>3, <2>1, <2>3 DEF BootValue
  <2> QED BY <1>3, <2>2, <2>4
<1>4. CASE k \in Nodes
  <2>1. k \notin Fields /\ k \notin MetaKeys /\ k \notin Lines
    BY <1>4, KeysAssumption
  <2>2. k \in DOMAIN scene.nodes
    BY <1>1, <2>1 DEF BootKeys, Sane
  <2>3. k # "title" /\ k # "start"
    BY <2>1 DEF Fields
  <2>4. BootValue(scene, k) = scene.nodes[k]
    BY <1>4, <2>1, <2>3 DEF BootValue
  <2> QED BY <1>4, <2>2, <2>4
<1>5. CASE k \in Lines
  <2>1. k \notin Fields /\ k \notin MetaKeys /\ k \notin Nodes
    BY <1>5, KeysAssumption
  <2>2. k \in ToSet(LineIds(scene))
    BY <2>1 DEF BootKeys, Sane
  <2>3. k # "title" /\ k # "start"
    BY <2>1 DEF Fields
  <2>4. BootValue(scene, k) = BootLine(scene, k)
    BY <2>1, <2>3 DEF BootValue
  <2> QED BY <1>5, <2>2, <2>4
<1> QED BY <1>2, <1>3, <1>4, <1>5 DEF Keys

LEMMA BootTyped ==
    ASSUME NEW scene, Sane(scene), NEW k \in Keys, k \in BootKeys(scene)
    PROVE  BootValue(scene, k) \in Payloads
<1>1. PICK n \in Nat : n = Len(scene.lines) /\ DOMAIN scene.lines = 1..n
  <2>1. PICK lines \in Seq([id : Lines, value : Payloads]) : lines = scene.lines
    BY DEF Sane
  <2>2. Len(lines) \in Nat /\ DOMAIN lines = 1..Len(lines)
    OBVIOUS
  <2> QED BY <2>1, <2>2
<1>2. BootTitle(scene.title) \in Payloads /\ StartOf(scene.start) \in Payloads
  BY OperationsAssumption DEF BootTitle, StartOf, Sane, Payloads
<1>3. ASSUME k \in ToSet(LineIds(scene)) PROVE BootLine(scene, k) \in Payloads
  <2>1. PICK i \in 1..n : BootLine(scene, k) = scene.lines[i].value
    BY <1>1, <1>3, BootLineIsOne
  <2>2. scene.lines[i] \in [id : Lines, value : Payloads]
    BY <1>1, ElementIn DEF Sane
  <2> QED BY <2>1, <2>2
<1> QED BY <1>2, <1>3, BootSources DEF Sane

LEMMA BootstrapNeat ==
    ASSUME NEW scene, Sane(scene)
    PROVE  Neat(Bootstrap(scene))
<1>1. PICK ids \in Seq(Lines) : ids = LineIds(scene)
  BY LineIdsTyped DEF Sane
<1>2. PICK once : once = Deduplicated(ids)
  OBVIOUS
<1>3. Lines \ {Null} = Lines
  BY KeysAssumption DEF Keys
<1>4. once \in Seq(Lines) /\ Distinct(once) /\ ToSet(once) = ToSet(ids) \ {Null}
  <2>1. once \in Seq(Lines \ {Null}) /\ Distinct(once) /\ ToSet(once) = ToSet(ids) \ {Null}
    BY <1>2, DeduplicatedIds
  <2> QED BY <1>3, <2>1
<1>5. PICK b : b = Bootstrap(scene)
  OBVIOUS
<1>6. Shape(b) /\ b.seen = once
  BY <1>1, <1>2, <1>5 DEF Bootstrap, Shape
<1>7. \A k \in Keys : b.reg[k] = IF k \in BootKeys(scene)
                                 THEN Register(BootValue(scene, k), scene.clock, 0)
                                 ELSE EmptyRegister
  BY <1>5 DEF Bootstrap
<1>8. ASSUME NEW k \in Keys PROVE b.reg[k] \in RegisterType
  <2>1. CASE k \in BootKeys(scene)
    <3>1. BootValue(scene, k) \in Payloads
      BY <2>1, BootTyped
    <3>2. b.reg[k] = [value |-> BootValue(scene, k), clock |-> scene.clock, op |-> 0]
      BY <1>7, <2>1 DEF Register
    <3> QED BY <3>1, <3>2 DEF RegisterType, Sane, Payloads
  <2>2. CASE k \notin BootKeys(scene)
    <3>1. b.reg[k] = [value |-> Null, clock |-> 0, op |-> 0]
      BY <1>7, <2>2 DEF EmptyRegister, Register
    <3> QED BY <3>1 DEF RegisterType
  <2> QED BY <2>1, <2>2
<1>9. b.reg \in [Keys -> RegisterType]
  BY <1>6, <1>8 DEF Shape
<1>10. b.order \in OrderType /\ Distinct(b.order.value)
  <2>1. b.order = IF scene.lines = <<>> THEN Register(<<>>, 0, 0)
                  ELSE Register(once, scene.clock, 0)
    BY <1>1, <1>2, <1>5 DEF Bootstrap
  <2>2. <<>> \in Seq(Lines) /\ Distinct(<<>>)
    BY DEF Distinct
  <2> QED BY <1>4, <2>1, <2>2 DEF Register, OrderType, Sane
<1>11. ASSUME NEW l \in Lines, b.reg[l].value # Null PROVE l \in ToSet(once)
  <2>1. l \in Keys /\ l \notin Fields /\ l \notin MetaKeys /\ l \notin Nodes /\ l # Null
    BY KeysAssumption DEF Keys
  <2>2. ASSUME l \notin BootKeys(scene) PROVE b.reg[l].value = Null
    <3>1. b.reg[l] = [value |-> Null, clock |-> 0, op |-> 0]
      BY <1>7, <2>1, <2>2 DEF EmptyRegister, Register
    <3> QED BY <3>1
  <2>3. l \in ToSet(LineIds(scene))
    BY <1>11, <2>1, <2>2 DEF BootKeys, Sane
  <2> QED BY <1>1, <1>4, <2>1, <2>3
<1> QED BY <1>4, <1>5, <1>6, <1>9, <1>10, <1>11 DEF Neat

-----------------------------------------------------------------------------
(* The document's state is well typed. *)

TypeInv == ClockInv /\ LogInv /\ Neat(store)

LEMMA InitTypeInv == DocInit => TypeInv
<1> SUFFICES ASSUME DocInit PROVE TypeInv
  OBVIOUS
<1>1. PICK scene \in InitialScenes : store = Bootstrap(scene)
  BY DEF DocInit
<1>2. Neat(store)
  BY <1>1, InitialSane, BootstrapNeat
<1>3. history = <<>> /\ logIndex = <<>>
  BY DEF DocInit
<1>4. LogInv
  BY <1>3, DocAssumption DEF LogInv, Mirrors
<1> QED BY <1>2, <1>4, InitClockInv DEF TypeInv

LEMMA NextTypeInv == TypeInv /\ [DocNext]_docVars => TypeInv'
<1> SUFFICES ASSUME TypeInv, [DocNext]_docVars PROVE TypeInv'
  OBVIOUS
<1>1. ClockInv'
  BY NextClockInv DEF TypeInv
<1>2. ASSUME UNCHANGED docVars PROVE LogInv' /\ Neat(store')
  BY <1>2 DEF docVars, TypeInv, LogInv, Mirrors
<1>3. ASSUME NEW op \in Operations, Duplicate(op) PROVE LogInv' /\ Neat(store')
  BY <1>2, <1>3 DEF Duplicate
<1>4. ASSUME NEW op \in Operations, Accept(op) PROVE LogInv' /\ Neat(store')
  <2>1. clock' \in Nat
    BY <1>1 DEF ClockInv
  <2>2. PICK done \in Performed : store' = Handle(store, done, clock').store
    BY <1>4, AcceptStep DEF TypeInv
  <2>3. Neat(store')
    BY <2>1, <2>2, HandleNeat DEF TypeInv
  <2> QED BY <1>4, <2>3, AcceptLogInv DEF TypeInv
<1>5. LogInv' /\ Neat(store')
  BY <1>2, <1>3, <1>4 DEF DocNext, ApplyOperation
<1> QED BY <1>1, <1>5 DEF TypeInv, Neat, Shape

(* Types are kept, whatever operations come in whatever order. *)
THEOREM DocumentTyped == DocSpec => []TypeOK
<1>1. TypeInv => TypeOK
  <2> SUFFICES ASSUME TypeInv PROVE TypeOK
    OBVIOUS
  <2>1. DOMAIN store = {"reg", "order", "seen"}
    BY DEF TypeInv, Neat, Shape
  <2>2. \A i \in DOMAIN history : history[i].op \in Operations
    <3>1. PICK log \in Seq(Records) : log = history
      BY DEF TypeInv, LogInv
    <3>2. \A i \in DOMAIN log : log[i] \in Records
      OBVIOUS
    <3>3. \A rec \in Records : rec.op \in Operations
      BY DEF Records
    <3> QED BY <3>1, <3>2, <3>3
  <2>3. \A id \in DOMAIN logIndex : logIndex[id].op.id = id
    BY DEF TypeInv, LogInv, Mirrors
  <2> QED BY <2>1, <2>2, <2>3 DEF TypeOK, TypeInv, ClockInv, LogInv, Neat
<1> QED BY <1>1, InitTypeInv, NextTypeInv, PTL DEF DocSpec

-----------------------------------------------------------------------------
(* A scene that is written and bootstrapped again. *)

LEMMA ConcatIds ==
    ASSUME NEW S, NEW s \in Seq(S), NEW t \in Seq(S), Distinct(s), Distinct(t),
           ToSet(s) \cap ToSet(t) = {}
    PROVE  /\ s \o t \in Seq(S) /\ Distinct(s \o t) /\ ToSet(s \o t) = ToSet(s) \cup ToSet(t)
<1>1. PICK m \in Nat : m = Len(s) /\ DOMAIN s = 1..m
  OBVIOUS
<1>2. PICK n \in Nat : n = Len(t) /\ DOMAIN t = 1..n
  OBVIOUS
<1>3. PICK u : u = s \o t
  OBVIOUS
<1>4. /\ u \in Seq(S) /\ Len(u) = m + n /\ DOMAIN u = 1..(m + n)
      /\ \A i \in 1..m : u[i] = s[i]
      /\ \A i \in 1..n : u[m + i] = t[i]
  BY <1>1, <1>2, <1>3
<1>5. \A i \in 1..(m + n) : i \in 1..m \/ (i - m \in 1..n /\ i = m + (i - m))
  OBVIOUS
<1>6. \A i \in 1..(m + n) : \/ i \in 1..m /\ u[i] = s[i] /\ u[i] \in ToSet(s)
                            \/ i - m \in 1..n /\ u[i] = t[i - m] /\ u[i] \in ToSet(t)
  <2> TAKE i \in 1..(m + n)
  <2>1. CASE i \in 1..m
    BY <1>1, <1>4, <2>1 DEF ToSet
  <2>2. CASE i - m \in 1..n
    <3>1. u[m + (i - m)] = t[i - m] /\ m + (i - m) = i
      BY <1>4, <2>2
    <3> QED BY <1>2, <2>2, <3>1 DEF ToSet
  <2> QED BY <1>5, <2>1, <2>2
<1>7. ToSet(u) = ToSet(s) \cup ToSet(t)
  <2>1. ToSet(u) \subseteq ToSet(s) \cup ToSet(t)
    BY <1>4, <1>6 DEF ToSet
  <2>2. \A i \in 1..m : u[i] = s[i] /\ i \in 1..(m + n)
    BY <1>4
  <2>3. \A i \in 1..n : u[m + i] = t[i] /\ m + i \in 1..(m + n)
    BY <1>4
  <2>4. ToSet(s) \subseteq ToSet(u)
    BY <1>1, <1>4, <2>2 DEF ToSet
  <2>5. ToSet(t) \subseteq ToSet(u)
    BY <1>2, <1>4, <2>3 DEF ToSet
  <2> QED BY <2>1, <2>4, <2>5
<1>8. Distinct(u)
  <2> SUFFICES ASSUME NEW i \in 1..(m + n), NEW j \in 1..(m + n), u[i] = u[j] PROVE i = j
    BY <1>4 DEF Distinct
  <2>1. CASE u[i] \in ToSet(s)
    <3>1. i \in 1..m /\ j \in 1..m /\ s[i] = s[j]
      BY <1>6, <2>1
    <3> QED BY <1>1, <3>1 DEF Distinct
  <2>2. CASE u[i] \in ToSet(t)
    <3>1. i - m \in 1..n /\ j - m \in 1..n /\ t[i - m] = t[j - m]
      BY <1>6, <2>2
    <3>2. i - m = j - m
      BY <1>2, <3>1 DEF Distinct
    <3> QED BY <3>2
  <2> QED BY <1>6, <2>1, <2>2
<1> QED BY <1>3, <1>4, <1>7, <1>8

Valued(s) == {l \in Lines : s.reg[l].value # Null}

LEMMA VisibleIsValued ==
    ASSUME NEW s, Neat(s)
    PROVE  /\ VisibleIds(s) \in Seq(Lines) /\ Distinct(VisibleIds(s))
           /\ ToSet(VisibleIds(s)) = Valued(s)
<1>1. PICK listed \in Seq(Lines) : listed = s.order.value
  BY DEF Neat, OrderType
<1>2. PICK extra : extra = OnlyIn(s.seen, Lines \ ToSet(listed))
  OBVIOUS
<1>3. /\ extra \in Seq(Lines) /\ Distinct(extra)
      /\ ToSet(extra) = ToSet(s.seen) \cap (Lines \ ToSet(listed))
  BY <1>2, OnlyInIds DEF Neat
<1>4. PICK all : all = listed \o extra
  OBVIOUS
<1>5. all \in Seq(Lines) /\ Distinct(all) /\ ToSet(all) = ToSet(listed) \cup ToSet(extra)
  BY <1>1, <1>3, <1>4, ConcatIds DEF Neat
<1>6. VisibleIds(s) = OnlyIn(all, Valued(s))
  BY <1>1, <1>2, <1>4 DEF VisibleIds, Valued
<1>7. Valued(s) \subseteq ToSet(all)
  BY <1>3, <1>5 DEF Valued, Neat
<1>8. PICK some : some = OnlyIn(all, Valued(s))
  OBVIOUS
<1>9. some \in Seq(Lines) /\ Distinct(some) /\ ToSet(some) = ToSet(all) \cap Valued(s)
  BY <1>5, <1>8, OnlyInIds
<1> QED BY <1>6, <1>7, <1>8, <1>9

LEMMA SnapshotLines ==
    ASSUME NEW s, Neat(s), NEW clk, NEW ver
    PROVE  /\ LineIds(Snapshot(s, clk, ver)) = VisibleIds(s)
           /\ \A i \in DOMAIN VisibleIds(s) :
                 Snapshot(s, clk, ver).lines[i]
                    = [id |-> VisibleIds(s)[i], value |-> s.reg[VisibleIds(s)[i]].value]
           /\ DOMAIN Snapshot(s, clk, ver).lines = DOMAIN VisibleIds(s)
<1>1. PICK ids : ids = VisibleIds(s)
  OBVIOUS
<1>2. ids \in Seq(Lines)
  BY <1>1, VisibleIsValued
<1>3. PICK lines : lines = [i \in DOMAIN ids |-> [id |-> ids[i], value |-> s.reg[ids[i]].value]]
  OBVIOUS
<1>4. Snapshot(s, clk, ver).lines = lines
  BY <1>1, <1>3 DEF Snapshot, VisibleLines
<1>5. LineIds(Snapshot(s, clk, ver)) = [i \in DOMAIN ids |-> ids[i]]
  BY <1>3, <1>4 DEF LineIds
<1>6. ids = [i \in DOMAIN ids |-> ids[i]]
  BY <1>2
<1> QED BY <1>1, <1>3, <1>4, <1>5, <1>6

LEMMA SnapshotSane ==
    ASSUME NEW s, Neat(s), NEW clk \in Nat, NEW ver \in Nat
    PROVE  Sane(Snapshot(s, clk, ver))
<1>1. PICK scene : scene = Snapshot(s, clk, ver)
  OBVIOUS
<1>2. PICK ids : ids = VisibleIds(s)
  OBVIOUS
<1>3. ids \in Seq(Lines)
  BY <1>2, VisibleIsValued
<1>4. \A k \in Keys : s.reg[k].value \in Payloads
  BY DEF Neat, RegisterType, Payloads
<1>5. scene.lines \in Seq([id : Lines, value : Payloads])
  <2>1. PICK n \in Nat : DOMAIN ids = 1..n /\ n = Len(ids)
    BY <1>3
  <2>2. \A i \in 1..n : ids[i] \in Lines /\ ids[i] \in Keys
    BY <1>3, <2>1 DEF Keys
  <2>3. \A i \in 1..n : [id |-> ids[i], value |-> s.reg[ids[i]].value] \in [id : Lines, value : Payloads]
    BY <1>4, <2>2
  <2>4. scene.lines = [i \in 1..n |-> [id |-> ids[i], value |-> s.reg[ids[i]].value]]
    BY <1>1, <1>2, <2>1 DEF Snapshot, VisibleLines
  <2> HIDE DEF Payloads
  <2> QED BY <2>3, <2>4
<1>6. scene.clock \in Nat /\ scene.version \in Nat
  BY <1>1 DEF Snapshot
<1>7. scene.title \in Payloads /\ scene.start \in Payloads
  <2>1. s.reg["title"].value \in Payloads /\ s.reg["start"].value \in Payloads
    BY <1>4 DEF Keys, Fields
  <2> QED BY <1>1, <2>1, OperationsAssumption DEF Snapshot, StartOf, Payloads
<1>8. /\ DOMAIN scene.meta \subseteq MetaKeys
      /\ \A k \in DOMAIN scene.meta : scene.meta[k] \in Payloads
  BY <1>1, <1>4 DEF Snapshot, Present, Keys
<1>9. /\ DOMAIN scene.nodes \subseteq Nodes
      /\ \A k \in DOMAIN scene.nodes : scene.nodes[k] \in Payloads
  BY <1>1, <1>4 DEF Snapshot, Present, Keys
<1> QED BY <1>1, <1>5, <1>6, <1>7, <1>8, <1>9 DEF Sane

(* The value of every register of the document that is made of it. *)
Shown(k, v) == CASE k = "title" -> BootTitle(v)
                 [] k = "start" -> StartOf(v)
                 [] OTHER       -> v

LEMMA AgainValue ==
    ASSUME NEW s, Neat(s), NEW clk \in Nat, NEW ver \in Nat, NEW k \in Keys
    PROVE  Bootstrap(Snapshot(s, clk, ver)).reg[k].value
              = Shown(k, s.reg[k].value)
<1>1. PICK scene : scene = Snapshot(s, clk, ver)
  OBVIOUS
<1>2. Sane(scene)
  BY <1>1, SnapshotSane
<1>3. PICK b : b = Bootstrap(scene)
  OBVIOUS
<1>4. b.reg[k].value = IF k \in BootKeys(scene) THEN BootValue(scene, k) ELSE Null
  BY <1>3 DEF Bootstrap, Register, EmptyRegister
<1>5. /\ scene.title = s.reg["title"].value /\ scene.start = StartOf(s.reg["start"].value)
      /\ DOMAIN scene.meta = {x \in MetaKeys : s.reg[x].value # Null}
      /\ \A x \in DOMAIN scene.meta : scene.meta[x] = s.reg[x].value
      /\ DOMAIN scene.nodes = {x \in Nodes : s.reg[x].value # Null}
      /\ \A x \in DOMAIN scene.nodes : scene.nodes[x] = s.reg[x].value
  BY <1>1 DEF Snapshot, Present
<1>6. ToSet(LineIds(scene)) = Valued(s)
  BY <1>1, SnapshotLines, VisibleIsValued
<1>7. ASSUME k \in BootKeys(scene)
      PROVE  BootValue(scene, k) = Shown(k, s.reg[k].value)
  <2>1. k \in Lines \/ k \in MetaKeys \/ k \in Nodes => k # "title" /\ k # "start"
    BY KeysAssumption DEF Fields
  <2>2. ASSUME k \in ToSet(LineIds(scene)) PROVE BootLine(scene, k) = s.reg[k].value
    <3>1. PICK ids \in Seq(Lines) : ids = VisibleIds(s)
      BY VisibleIsValued
    <3>2. PICK n \in Nat : DOMAIN ids = 1..n
      BY <3>1
    <3>3. /\ DOMAIN scene.lines = 1..n
          /\ \A i \in 1..n : scene.lines[i] = [id |-> ids[i], value |-> s.reg[ids[i]].value]
      BY <1>1, <3>1, <3>2, SnapshotLines
    <3>4. PICK i \in 1..n : scene.lines[i].id = k /\ BootLine(scene, k) = scene.lines[i].value
      BY <2>2, <3>3, BootLineIsOne
    <3>5. scene.lines[i].id = ids[i] /\ scene.lines[i].value = s.reg[ids[i]].value
      <4>1. scene.lines[i] = [id |-> ids[i], value |-> s.reg[ids[i]].value]
        BY <3>3
      <4> QED BY <4>1
    <3> QED BY <3>4, <3>5
  <2>3. StartOf(StartOf(s.reg["start"].value)) = StartOf(s.reg["start"].value)
    BY OperationsAssumption DEF StartOf
  <2> QED BY <1>2, <1>5, <1>7, <2>1, <2>2, <2>3, BootSources DEF Shown
<1>8. ASSUME k \notin BootKeys(scene) PROVE s.reg[k].value = Null /\ k \notin Fields
  <2>1. k \notin Fields /\ k \notin DOMAIN scene.meta /\ k \notin DOMAIN scene.nodes
        /\ k \notin Valued(s)
    BY <1>6, <1>8 DEF BootKeys
  <2>2. k \in MetaKeys \/ k \in Nodes \/ k \in Lines
    BY <2>1 DEF Keys
  <2> QED BY <1>5, <2>1, <2>2 DEF Valued
<1> QED BY <1>1, <1>3, <1>4, <1>7, <1>8 DEF Shown, Fields

LEMMA AgainLines ==
    ASSUME NEW s, Neat(s), NEW clk \in Nat, NEW ver \in Nat
    PROVE  VisibleLines(Bootstrap(Snapshot(s, clk, ver))) = VisibleLines(s)
<1>1. PICK scene : scene = Snapshot(s, clk, ver)
  OBVIOUS
<1>2. PICK b : b = Bootstrap(scene)
  OBVIOUS
<1>3. PICK ids : ids = VisibleIds(s)
  OBVIOUS
<1>4. ids \in Seq(Lines) /\ Distinct(ids) /\ ToSet(ids) = Valued(s)
  BY <1>3, VisibleIsValued
<1>5. LineIds(scene) = ids /\ DOMAIN scene.lines = DOMAIN ids
  BY <1>1, <1>3, SnapshotLines
<1>6. Null \notin Lines
  BY KeysAssumption DEF Keys
<1>7. Deduplicated(ids) = ids
  BY <1>4, <1>6, DeduplicatedIds
<1>8. b.seen = ids
  BY <1>2, <1>5, <1>7 DEF Bootstrap
<1>9. b.order.value = ids
  <2>1. CASE scene.lines = <<>>
    <3>1. DOMAIN ids = {}
      BY <1>5, <2>1
    <3>2. ids = <<>>
      BY <1>4, <3>1
    <3> QED BY <1>2, <2>1, <3>2 DEF Bootstrap, Register
  <2>2. CASE scene.lines # <<>>
    BY <1>2, <1>5, <1>7, <2>2 DEF Bootstrap, Register
  <2> QED BY <2>1, <2>2
<1>10. \A l \in Lines : b.reg[l].value = s.reg[l].value
  <2> TAKE l \in Lines
  <2>1. l \in Keys /\ l # "title" /\ l # "start"
    BY KeysAssumption DEF Keys, Fields
  <2> QED BY <1>1, <1>2, <2>1, AgainValue DEF Shown
<1>11. Valued(b) = ToSet(ids)
  BY <1>4, <1>10 DEF Valued
<1>12. PICK extra : extra = OnlyIn(ids, Lines \ ToSet(ids))
  OBVIOUS
<1>13. extra = <<>>
  <2>1. extra \in Seq(Lines) /\ ToSet(extra) = ToSet(ids) \cap (Lines \ ToSet(ids))
    BY <1>4, <1>12, OnlyInIds
  <2>2. ToSet(extra) = {}
    BY <2>1
  <2>3. DOMAIN extra = {}
    BY <2>2 DEF ToSet
  <2> QED BY <2>1, <2>3
<1>14. ids \o extra = ids
  BY <1>4, <1>13
<1>15. VisibleIds(b) = OnlyIn(ids, Valued(b))
  BY <1>8, <1>9, <1>12, <1>14 DEF VisibleIds, Valued
<1>16. VisibleIds(b) = ids
  BY <1>4, <1>11, <1>15, OnlyInIds
<1>17. \A i \in DOMAIN ids : ids[i] \in Lines
  BY <1>4
<1>18. VisibleLines(b) = [i \in DOMAIN ids |-> [id |-> ids[i], value |-> b.reg[ids[i]].value]]
  BY <1>16 DEF VisibleLines
<1>19. VisibleLines(s) = [i \in DOMAIN ids |-> [id |-> ids[i], value |-> s.reg[ids[i]].value]]
  BY <1>3 DEF VisibleLines
<1>20. \A i \in DOMAIN ids : b.reg[ids[i]].value = s.reg[ids[i]].value
  BY <1>10, <1>17
<1> QED BY <1>1, <1>2, <1>18, <1>19, <1>20

(* Writing the scene and bootstrapping another document from it gives the   *)
(* same scene, but for an empty title and a start that is None, whatever    *)
(* operations made it and in whatever order its lines were added, removed   *)
(* and listed.                                                              *)
THEOREM RoundTripExact == DocSpec => []RoundTrip
<1>1. TypeInv => RoundTrip
  <2> SUFFICES ASSUME TypeInv PROVE RoundTrip
    OBVIOUS
  <2>1. Neat(store) /\ clock \in Nat /\ version \in Nat
    BY DEF TypeInv, ClockInv
  <2>2. "title" \in Keys /\ "start" \in Keys
    BY DEF Keys, Fields
  <2>3. PICK again : again = Bootstrap(Snapshot(store, clock, version))
    OBVIOUS
  <2>4. VisibleLines(again) = VisibleLines(store)
    BY <2>1, <2>3, AgainLines
  <2>5. /\ again.reg["title"].value = BootTitle(store.reg["title"].value)
        /\ again.reg["start"].value = StartOf(store.reg["start"].value)
    BY <2>1, <2>2, <2>3, AgainValue DEF Shown
  <2>6. \A k \in Keys \ Fields : again.reg[k].value = store.reg[k].value
    BY <2>1, <2>3, AgainValue DEF Shown, Fields
  <2> QED BY <2>3, <2>4, <2>5, <2>6 DEF RoundTrip
<1> QED BY <1>1, InitTypeInv, NextTypeInv, PTL DEF DocSpec
=============================================================================
