--------------------------- MODULE CollabDocument ---------------------------
(***************************************************************************)
(* CRDTDocument of comfyvn/collab/crdt.py: one scene, in the memory of the *)
(* server, from the moment it is bootstrapped.  Every field, meta entry,   *)
(* node and line is a last-writer-wins register; the order of the lines is *)
(* one more.  The document keeps a Lamport clock, a version that counts    *)
(* the operations that changed something, and a bounded log of the         *)
(* operations it has seen, indexed by operation id.                        *)
(*                                                                         *)
(* A register that does not exist yet is the register LWWRegister() makes: *)
(* None at clock 0.  What the creation of a line register does leave       *)
(* behind, its place in the dictionary, is store.seen.                     *)
(* Operations carry an id; one that comes without gets a fresh one         *)
(* (uuid4) and behaves as an operation that nobody sends again.            *)
(***************************************************************************)
EXTENDS SceneOps, FiniteSets

CONSTANTS
    InitialScenes,  \* what the loader may return
    MaxHistory,     \* max_history (512 in the code)
    MaxClock        \* bound: the Lamport clock stops here

ASSUME DocAssumption ==
    /\ MaxHistory \in Nat /\ MaxClock \in Nat
    /\ \A scene \in InitialScenes :
          /\ scene.clock \in Nat /\ scene.version \in Nat
          /\ {scene.title, scene.start} \subseteq Values \cup {Null}
          /\ DOMAIN scene.meta \subseteq MetaKeys /\ DOMAIN scene.nodes \subseteq Nodes
          /\ \A k \in DOMAIN scene.meta  : scene.meta[k] \in Values \cup {Null}
          /\ \A k \in DOMAIN scene.nodes : scene.nodes[k] \in Values \cup {Null}
          /\ scene.lines \in Seq([id : Lines, value : Values \cup {Null}])

VARIABLES
    clock,      \* self.clock
    version,    \* self.version
    store,      \* the registers, the line order and the keys of self._lines
    history,    \* self._history
    logIndex    \* self._log_index

docVars == << clock, version, store, history, logIndex >>

-----------------------------------------------------------------------------
(* LWWRegister and OrderRegister *)

Register(v, clk, id) == [value |-> v, clock |-> clk, op |-> id]

EmptyRegister == Register(Null, 0, 0)

(* Mutant: the clocks are not compared, only the ids. *)
Wins_ByIdOnly(reg, clk, id) == id > reg.op

Wins(reg, clk, id) == clk > reg.clock \/ (clk = reg.clock /\ id > reg.op)

Update(reg, v, clk, id) ==
    IF Wins(reg, clk, id) THEN Register(v, clk, id) ELSE reg

UpdateOrder(reg, ids, clk, id) == Update(reg, Deduplicated(ids), clk, id)

-----------------------------------------------------------------------------
(* bootstrap(initial) and snapshot() / persistable().  A scene at rest is a *)
(* record; its lines are a sequence of [id, value].                         *)

LineIds(scene) == [i \in DOMAIN scene.lines |-> scene.lines[i].id]

(* str(initial.get("title") or initial.get("name") or self.scene_id): an    *)
(* empty title is replaced by the scene's id, a value like any other.       *)
BootTitle(title) == IF title \in {Null, Empty} THEN SceneId ELSE title

(* str(initial.get("start") or ""), and self._start.value or "": None is    *)
(* shown, written and read as the empty string.                             *)
StartOf(start) == IF start = Null THEN Empty ELSE start

(* The last entry of a line id wins, as in the loop of bootstrap. *)
BootLine(scene, line) ==
    LET at == {i \in DOMAIN scene.lines : scene.lines[i].id = line}
    IN  scene.lines[CHOOSE i \in at : \A j \in at : j <= i].value

BootValue(scene, key) ==
    CASE key = "title"    -> BootTitle(scene.title)
      [] key = "start"    -> StartOf(scene.start)
      [] key \in MetaKeys -> scene.meta[key]
      [] key \in Nodes    -> scene.nodes[key]
      [] OTHER            -> BootLine(scene, key)

BootKeys(scene) == Fields \cup DOMAIN scene.meta \cup DOMAIN scene.nodes
                          \cup ToSet(LineIds(scene))

Bootstrap(scene) ==
    [ reg   |-> [k \in Keys |->
                    IF k \in BootKeys(scene)
                    THEN Register(BootValue(scene, k), scene.clock, 0)
                    ELSE EmptyRegister],
      order |-> IF scene.lines = <<>> THEN Register(<<>>, 0, 0)
                ELSE Register(Deduplicated(LineIds(scene)), scene.clock, 0),
      seen  |-> Deduplicated(LineIds(scene)) ]

(* The values of the registers and the order of the lines. *)
ContentOf(s) == [ value |-> [k \in Keys |-> s.reg[k].value],
                  lines |-> s.order.value ]

Content == ContentOf(store)

(* Mutant: lines the order does not list are left out of the snapshot. *)
VisibleIds_ListedOnly(s) ==
    OnlyIn(s.order.value, {l \in Lines : s.reg[l].value # Null})

(* The lines of a snapshot: the listed ones in order, then those the order  *)
(* does not list, in the order their registers were made; no removed line.  *)
VisibleIds(s) ==
    LET listed == s.order.value
        extra  == OnlyIn(s.seen, Lines \ ToSet(listed))
    IN  OnlyIn(listed \o extra, {l \in Lines : s.reg[l].value # Null})

VisibleLines(s) ==
    LET ids == VisibleIds(s)
    IN  [i \in DOMAIN ids |-> [id |-> ids[i], value |-> s.reg[ids[i]].value]]

Present(s, keys) ==
    [k \in {x \in keys : s.reg[x].value # Null} |-> s.reg[k].value]

Snapshot(s, clk, ver) ==
    [ clock |-> clk, version |-> ver,
      title |-> s.reg["title"].value, start |-> StartOf(s.reg["start"].value),
      meta  |-> Present(s, MetaKeys), nodes |-> Present(s, Nodes),
      lines |-> VisibleLines(s), order |-> s.order.value ]

-----------------------------------------------------------------------------
(* The handlers: what operation op does to the registers s at server clock  *)
(* clk, and whether it reports a change.                                    *)

Outcome(s, changed) == [store |-> s, changed |-> changed]

(* One register written, at the server's clock under the operation's id. *)
Put(s, key, v, clk, id) == [s EXCEPT !.reg[key] = Update(@, v, clk, id)]

Changed(s, t, key) == t.reg[key].value # s.reg[key].value

OpSceneFieldSet(s, op, clk) ==
    IF op.key \notin Fields THEN Outcome(s, FALSE)
    ELSE LET t == Put(s, op.key, op.value, clk, op.id)
         IN  Outcome(t, Changed(s, t, op.key))

OpSceneMetaUpdate(s, op, clk) ==
    LET keys == DOMAIN op.meta \cap MetaKeys
        t == [s EXCEPT !.reg = [k \in Keys |->
                IF k \in keys THEN Update(s.reg[k], op.meta[k], clk, op.id)
                ELSE s.reg[k]]]
    IN  Outcome(t, \E k \in keys : Changed(s, t, k))

OpGraphNode(s, op, clk, v) ==
    IF op.key \notin Nodes THEN Outcome(s, FALSE)
    ELSE LET t == Put(s, op.key, v, clk, op.id)
         IN  Outcome(t, Changed(s, t, op.key))

OpGraphNodeUpsert(s, op, clk) == OpGraphNode(s, op, clk, op.value)

OpGraphNodeRemove(s, op, clk) == OpGraphNode(s, op, clk, Null)

(* self._lines.setdefault(line_id, ...) *)
Seen(s, line) ==
    [s EXCEPT !.seen = IF Contains(@, line) THEN @ ELSE Append(@, line)]

(* Mutant: an upsert that only places a line reports no change. *)
OpScriptLine_OrderIgnored(s, op, clk, v, mustOrder, ids) ==
    LET t == Put(Seen(s, op.key), op.key, v, clk, op.id)
        u == IF mustOrder
             THEN [t EXCEPT !.order = UpdateOrder(@, ids, clk, op.id)]
             ELSE t
    IN  IF op.key \notin Lines THEN Outcome(s, FALSE)
        ELSE Outcome(u, Changed(s, u, op.key))

(* The line's register is written, then the order, if it must change. *)
OpScriptLine(s, op, clk, v, mustOrder, ids) ==
    LET t == Put(Seen(s, op.key), op.key, v, clk, op.id)
        u == IF mustOrder
             THEN [t EXCEPT !.order = UpdateOrder(@, ids, clk, op.id)]
             ELSE t
    IN  IF op.key \notin Lines THEN Outcome(s, FALSE)
        ELSE Outcome(u, Changed(s, u, op.key) \/ u.order.value # s.order.value)

OpScriptLineUpsert(s, op, clk) ==
    LET ids == s.order.value
    IN  OpScriptLine(s, op, clk, op.value,
                     ~Contains(ids, op.key), Placed(ids, op))

OpScriptLineRemove(s, op, clk) ==
    LET ids == s.order.value
    IN  OpScriptLine(s, op, clk, Null,
                     Contains(ids, op.key), Without(ids, op.key))

OpScriptOrderReplace(s, op, clk) ==
    LET t == [s EXCEPT !.order = UpdateOrder(@, op.order, clk, op.id)]
    IN  Outcome(t, t.order.value # s.order.value)

(* self._handlers: an operation of an unknown kind is only observed. *)
Handle(s, op, clk) ==
    CASE op.kind = "scene.field.set"      -> OpSceneFieldSet(s, op, clk)
      [] op.kind = "scene.meta.update"    -> OpSceneMetaUpdate(s, op, clk)
      [] op.kind = "graph.node.upsert"    -> OpGraphNodeUpsert(s, op, clk)
      [] op.kind = "graph.node.remove"    -> OpGraphNodeRemove(s, op, clk)
      [] op.kind = "script.line.upsert"   -> OpScriptLineUpsert(s, op, clk)
      [] op.kind = "script.line.remove"   -> OpScriptLineRemove(s, op, clk)
      [] op.kind = "script.order.replace" -> OpScriptOrderReplace(s, op, clk)
      [] OTHER                            -> Outcome(s, FALSE)

-----------------------------------------------------------------------------
(* apply_operation *)

(* max(self.clock, max(0, operation.clock)) + 1 *)
ServerClock(op) ==
    LET incoming == IF op.clock > 0 THEN op.clock ELSE 0
    IN  (IF incoming > clock THEN incoming ELSE clock) + 1

LogRecord(op, ver, clk, applied) ==
    [op |-> op, version |-> ver, serverClock |-> clk, applied |-> applied]

(* Mutant: nothing is ever trimmed. *)
Remember_Untrimmed(rec) ==
    /\ history' = Append(history, rec)
    /\ logIndex' = [id \in DOMAIN logIndex \cup {rec.op.id} |->
                       IF id = rec.op.id THEN rec ELSE logIndex[id]]

(* Mutant: the log is trimmed and the index is not. *)
Remember_IndexKept(rec) ==
    /\ history' = LET log == Append(history, rec)
                  IN  IF Len(log) > MaxHistory THEN Tail(log) ELSE log
    /\ logIndex' = [id \in DOMAIN logIndex \cup {rec.op.id} |->
                       IF id = rec.op.id THEN rec ELSE logIndex[id]]

(* Mutant: the log is trimmed one record too early. *)
Remember_OneShort(rec) ==
    LET log   == Append(history, rec)
        index == [id \in DOMAIN logIndex \cup {rec.op.id} |->
                     IF id = rec.op.id THEN rec ELSE logIndex[id]]
    IN  IF Len(log) >= MaxHistory
        THEN /\ history'  = Tail(log)
             /\ logIndex' = [id \in DOMAIN index \ {Head(log).op.id} |->
                                 index[id]]
        ELSE history' = log /\ logIndex' = index

(* _remember: the oldest record falls out of the log and out of the index. *)
Remember(rec) ==
    LET log   == Append(history, rec)
        index == [id \in DOMAIN logIndex \cup {rec.op.id} |->
                     IF id = rec.op.id THEN rec ELSE logIndex[id]]
    IN  IF Len(log) > MaxHistory
        THEN /\ history'  = Tail(log)
             /\ logIndex' = [id \in DOMAIN index \ {Head(log).op.id} |->
                                 index[id]]
        ELSE history' = log /\ logIndex' = index

(* No node, line or entry of the order has this id, or had it. *)
Unused(key) == /\ store.reg[key] = EmptyRegister
               /\ ~Contains(store.seen, key) /\ ~Contains(store.order.value, key)

(* What op may be performed as in this state.  Bound: Nodes and Lines have  *)
(* only so many fresh ids, and an unnamed upsert waits when there is none.  *)
Completed(op) == {done \in Completions(op) : Unnamed(op) => Unused(done.key)}

(* Mutant: the clock moves only with the version. *)
Accept_ClockOnChange(op) ==
    LET clk == ServerClock(op)
    IN  /\ op.id \notin DOMAIN logIndex
        /\ clk <= MaxClock
        /\ \E done \in Completed(op) :
               LET out == Handle(store, done, clk)
                   ver == IF out.changed THEN version + 1 ELSE version
               IN  /\ clock' = IF out.changed THEN clk ELSE clock
                   /\ store' = out.store
                   /\ version' = ver
                   /\ Remember(LogRecord(op, ver, clk, out.changed))

(* The log keeps the operation as it came, without the id it was given. *)
Accept(op) ==
    LET clk == ServerClock(op)
    IN  /\ op.id \notin DOMAIN logIndex
        /\ clk <= MaxClock
        /\ clock' = clk
        /\ \E done \in Completed(op) :
               LET out == Handle(store, done, clk)
                   ver == IF out.changed THEN version + 1 ELSE version
               IN  /\ store' = out.store
                   /\ version' = ver
                   /\ Remember(LogRecord(op, ver, clk, out.changed))

(* An operation the log still knows is answered from its record. *)
Duplicate(op) ==
    /\ op.id \in DOMAIN logIndex
    /\ UNCHANGED docVars

ApplyOperation(op) == Accept(op) \/ Duplicate(op)

(* The records of log with a greater version than ver, in their order. *)
NewerThan(log, ver) ==
    FoldLeft(LAMBDA newer, rec : IF rec.version > ver THEN Append(newer, rec)
                                 ELSE newer,
             <<>>, log)

(* Mutant: the first missing record is skipped. *)
OperationsSince_SkipsOne(ver) == NewerThan(history, ver + 1)

OperationsSince(ver) == NewerThan(history, ver)

-----------------------------------------------------------------------------
DocInit ==
    \E scene \in InitialScenes :
        /\ clock = scene.clock
        /\ version = scene.version
        /\ store = Bootstrap(scene)
        /\ history = <<>>
        /\ logIndex = <<>>

DocNext == \E op \in Operations : ApplyOperation(op)

DocSpec == DocInit /\ [][DocNext]_docVars
-----------------------------------------------------------------------------
(* Properties *)

RegisterType == [value : Values \cup {Null}, clock : Nat, op : Nat]
OrderType    == [value : Seq(Lines), clock : Nat, op : Nat]

(* Type correctness of the document's state. *)
TypeOK ==
    /\ clock \in Nat /\ version \in Nat
    /\ DOMAIN store = {"reg", "order", "seen"}
    /\ store.reg \in [Keys -> RegisterType]
    /\ store.order \in OrderType
    /\ store.seen \in Seq(Lines)
    /\ Len(history) <= MaxHistory
    /\ \A i \in DOMAIN history : history[i].op \in Operations
    /\ \A id \in DOMAIN logIndex : logIndex[id].op.id = id

(* No register is ahead of the document's clock.  It is what makes the next *)
(* accepted operation, stamped clock + 1 or more, win every register it     *)
(* touches (crdt.py:327, 118).                                              *)
ClockDominates ==
    /\ \A k \in Keys : store.reg[k].clock <= clock
    /\ store.order.clock <= clock

(* The log and its index know the same operations, each of them once, so    *)
(* that trimming the log (crdt.py:374) never forgets an operation the log   *)
(* still holds nor remembers one it dropped.                                *)
IndexMirrorsHistory ==
    /\ DOMAIN logIndex = {history[i].op.id : i \in DOMAIN history}
    /\ \A i \in DOMAIN history : logIndex[history[i].op.id] = history[i]
    /\ \A i, j \in DOMAIN history :
           history[i].op.id = history[j].op.id => i = j

(* Records carry consecutive versions: one more than the record before for  *)
(* an operation that changed something, the same for one that did not, and  *)
(* the last is the document's; so a version names one state of the scene.   *)
HistoryCountsVersions ==
    LET n == Len(history) IN
    /\ n > 0 => /\ history[n].version = version
                /\ history[n].serverClock = clock
    /\ \A i \in 2..n :
           /\ history[i].version = history[i-1].version
                                   + (IF history[i].applied THEN 1 ELSE 0)
           /\ history[i].serverClock > history[i-1].serverClock

(* The log tells the truth about the document, and its index about the log: *)
(* what apply_operation answers to an operation that is sent again and what *)
(* operations_since replays agree with what happened (crdt.py:315, 357).    *)
HistoryExact == IndexMirrorsHistory /\ HistoryCountsVersions

(* The version moves by one exactly when the value of a register or the     *)
(* order of the lines changes, whatever the operation: rooms decide from it *)
(* whether there is anything to persist.  A start that goes from None to    *)
(* the empty string is such a change, although no snapshot shows it.        *)
VersionCountsChanges ==
    [][version' = version + (IF Content' # Content THEN 1 ELSE 0)]_docVars

(* Writing the scene to disk and bootstrapping another document from it     *)
(* gives the same scene, except that an empty title comes back as the       *)
(* scene's id and a start that is None as the empty string.                 *)
RoundTrip ==
    LET again == Bootstrap(Snapshot(store, clock, version))
    IN  /\ VisibleLines(again) = VisibleLines(store)
        /\ again.reg["title"].value = BootTitle(store.reg["title"].value)
        /\ again.reg["start"].value = StartOf(store.reg["start"].value)
        /\ \A k \in Keys \ Fields : again.reg[k].value = store.reg[k].value

(* The document implements the abstract store: operations take effect       *)
(* completely and in the order they are accepted, those that name no node   *)
(* or line under an id that nothing else has.                               *)
Store == INSTANCE SceneStore
            WITH scene <- Content,
                 Scenes <- {ContentOf(Bootstrap(scene)) : scene \in InitialScenes},
                 Requests <- Performed,
                 Applied <- Effect

ImplementsSceneStore == Store!StoreSpec
=============================================================================
