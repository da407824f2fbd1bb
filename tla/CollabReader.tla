---------------------------- MODULE CollabReader ----------------------------
(***************************************************************************)
(* The recovery protocol of docs/COLLAB_EDITING.md over a CollabDocument:  *)
(* clients send operations and may send them again, and one of them keeps  *)
(* a copy of the scene that it brings up to date either with a snapshot    *)
(* (doc.pull) or by replaying the records of operations_since.             *)
(***************************************************************************)
EXTENDS CollabDocument

VARIABLES
    accepted,   \* ids of the operations the document accepted, in order
    copy        \* the reader's last snapshot: version and content

readerVars == << clock, version, store, history, logIndex, accepted, copy >>

Copy(ver, content) == [version |-> ver, content |-> content]

(* A client sends an operation for the first time. *)
Edit(op) ==
    /\ ~Contains(accepted, op.id)
    /\ Accept(op)
    /\ accepted' = Append(accepted, op.id)
    /\ UNCHANGED copy

(* It gets no answer and sends the same operation again. *)
ResendForgotten(op) ==
    /\ Contains(accepted, op.id)
    /\ Accept(op)
    /\ accepted' = Append(accepted, op.id)
    /\ UNCHANGED copy

ResendKnown(op) ==
    /\ Contains(accepted, op.id)
    /\ Duplicate(op)
    /\ UNCHANGED << accepted, copy >>

Resend(op) == ResendForgotten(op) \/ ResendKnown(op)

(* doc.pull: the reader takes the snapshot it is sent. *)
Pull == /\ copy' = Copy(version, Content)
        /\ UNCHANGED << clock, version, store, history, logIndex, accepted >>

ReaderInit == /\ DocInit
              /\ accepted = <<>>
              /\ copy = Copy(version, Content)

ReaderNext == \/ \E op \in Operations : Edit(op) \/ Resend(op)
              \/ Pull

ReaderSpec == ReaderInit /\ [][ReaderNext]_readerVars

-----------------------------------------------------------------------------
(* Replaying one logged operation on a copy.  What was logged without an id *)
(* has no effect on the ids of the room: the reader gives it one of its own.*)
Replay(c, rec) == Copy(rec.version, Effect(rec.op, c.content))

CatchUp(c) == FoldLeft(Replay, c, OperationsSince(c.version))

(* The log still holds every change made since version v. *)
Covers(v) ==
    \A n \in (v + 1)..version :
        \E i \in DOMAIN history : history[i].version = n /\ history[i].applied

(* Each upsert since version v came with the id of its node or line. *)
NamedSince(v) ==
    \A i \in DOMAIN history : history[i].version > v => ~Unnamed(history[i].op)

(* A reader whose missing changes are all in the log, and name what they    *)
(* write, catches up exactly by replaying operations_since(its version):    *)
(* the versions, the "applied" marks and the order of the log are enough to *)
(* rebuild the scene (crdt.py:363).  Without NamedSince it is false: a node *)
(* or line that came without an id was given one (crdt.py:157, 168) that    *)
(* its record does not carry, and a replay gives it another.                *)
CatchUpExact ==
    Covers(copy.version) /\ NamedSince(copy.version)
        => CatchUp(copy) = Copy(version, Content)

(* Each of the last MaxHistory accepted operations is still known, so that  *)
(* sending it again is answered as a duplicate.                             *)
RecentOperationsKnown ==
    \A i \in DOMAIN accepted :
        i > Len(accepted) - MaxHistory => accepted[i] \in DOMAIN logIndex
=============================================================================
