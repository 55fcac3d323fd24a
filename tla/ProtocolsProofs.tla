-------------------------- MODULE ProtocolsProofs --------------------------
(***************************************************************************)
(* Proofs about Protocols for any set of objects, processes and requests.  *)
(*                                                                         *)
(* Two invariants are carried side by side.  Numbering says that the       *)
(* versions of an object have no gap below any of them and that the number *)
(* a request still holds is at most one above them; with the check of the  *)
(* insert it gives the refinement of ProtocolVersions.  Undoable says what *)
(* a request alone on its process may rely on: what it would put back is   *)
(* the row, and the snapshot it writes is the record.                      *)
(***************************************************************************)
EXTENDS Protocols, TLAPS

FinalizePhase == {"check", "assign", "number", "assemble", "snapshot",
                  "commit", "undo"}
Working(c, p) == request[c].phase # "idle" /\ request[c].process = p

\* Below a version of an object every version is taken, by one row each.
Closed ==
  \A q \in protocols : \A u \in 1..q.version : u \in Versions(q.object)
OneRow ==
  \A q, s \in protocols :
    q.object = s.object /\ q.version = s.version => q = s
Owned == \A q \in protocols : q.object = ObjectOf[q.process]

\* The number a request was given is at most one above the last version.
Numbered ==
  \A c \in Client : request[c].phase \in {"assemble", "snapshot", "commit"} =>
    /\ request[c].version \in Nat \ {0}
    /\ \A u \in 1..(request[c].version - 1) :
         u \in Versions(ObjectOf[request[c].process])

Numbering ==
  /\ Closed /\ OneRow /\ Owned /\ Numbered
  /\ AnsweredIsStored /\ FinalizedHasProtocol

\* Of processes nothing disturbed: one request at a time, which found the
\* row in memory and writes what memory says.
Alone ==
  \A p \in Process \ disturbed : \A c, d \in Client :
    Working(c, p) /\ Working(d, p) => c = d
Found ==
  \A c \in Client :
    request[c].phase \in FinalizePhase /\ request[c].process \notin disturbed
      => request[c].before = table[request[c].process]
Snapped ==
  \A c \in Client :
    request[c].phase \in {"commit", "write"} /\ request[c].process \notin disturbed
      => request[c].snapshot = memory[request[c].process]

Undoable == Alone /\ Found /\ Snapped /\ RefusedIsUndone

IInv == TypeOK /\ Numbering /\ Undoable

-----------------------------------------------------------------------------
(* Requests that move, end and begin.                                      *)

LEMMA IdleTyped == Idle \in Request /\ Blank \in Record
  BY ProtocolsAssumption DEF Idle, Blank, Request, Record, Phase, State

\* A request that goes on keeps Undoable, whatever it makes of its record.
LEMMA Moves ==
  ASSUME TypeOK, Undoable, NEW c \in Client, NEW m \in Record, NEW j \in Request,
         request[c].phase # "idle", j.phase # "idle",
         j.process = request[c].process, j.before = request[c].before,
         j.phase \in FinalizePhase => request[c].phase \in FinalizePhase,
         j.phase \in {"commit", "write"} => j.snapshot = m,
         memory' = [memory EXCEPT ![j.process] = m],
         request' = [request EXCEPT ![c] = j],
         table' = table, disturbed' = disturbed
  PROVE Undoable'
<1>1. /\ request \in [Client -> Request] /\ memory \in [Process -> Record]
      /\ j.process \in Process
  BY DEF TypeOK, Request
<1>2. \A d \in Client : request'[d] = IF d = c THEN j ELSE request[d]
  BY <1>1
<1>3. \A p \in Process : memory'[p] = IF p = j.process THEN m ELSE memory[p]
  BY <1>1
<1>4. \A d \in Client, p \in Process : Working(d, p)' <=> Working(d, p)
  BY <1>1, <1>2 DEF Working
<1>5. Alone'
  BY <1>4 DEF Alone, Undoable
<1>6. Found'
  BY <1>2 DEF Found, Undoable
<1>7. Snapped'
  <2> SUFFICES ASSUME NEW d \in Client, request'[d].phase \in {"commit", "write"},
                      request'[d].process \notin disturbed
               PROVE  request'[d].snapshot = memory'[request'[d].process]
    BY DEF Snapped
  <2>1. request'[d].process \in Process
    BY <1>1, <1>2 DEF Request
  <2>2. CASE d = c
    BY <2>2, <1>2, <1>3, <2>1
  <2>3. CASE d # c
    <3>1. request'[d] = request[d]
      BY <2>3, <1>2
    <3>2. request[d].process # j.process
      BY <2>3, <2>1, <3>1 DEF Alone, Undoable, Working
    <3> QED
      BY <3>1, <3>2, <1>3, <2>1 DEF Snapped, Undoable
  <2> QED
    BY <2>2, <2>3
<1>8. RefusedIsUndone'
  <2> SUFFICES ASSUME NEW p \in Process \ disturbed
               PROVE  Busy(p)' \/ memory'[p] = table[p]
    BY DEF RefusedIsUndone
  <2>1. CASE p = j.process
    BY <2>1, <1>2 DEF Busy
  <2>2. CASE p # j.process
    <3>1. Busy(p)' <=> Busy(p)
      BY <1>4 DEF Busy, Working
    <3> QED
      BY <3>1, <2>2, <1>3 DEF RefusedIsUndone, Undoable
  <2> QED
    BY <2>1, <2>2
<1> QED
  BY <1>5, <1>6, <1>7, <1>8 DEF Undoable

\* A request that ends keeps it if memory and row agree then, or the process
\* is given up as disturbed.
LEMMA Ends ==
  ASSUME TypeOK, Undoable, NEW c \in Client, NEW m \in Record, NEW t \in Record,
         NEW p \in Process, request[c].phase # "idle", p = request[c].process,
         disturbed' \in {disturbed, disturbed \cup {p}},
         m = t \/ p \in disturbed',
         memory' = [memory EXCEPT ![p] = m],
         table' = [table EXCEPT ![p] = t],
         request' = [request EXCEPT ![c] = Idle]
  PROVE Undoable'
<1>1. /\ request \in [Client -> Request] /\ memory \in [Process -> Record]
      /\ table \in [Process -> Record]
  BY DEF TypeOK
<1>2. \A d \in Client : request'[d] = IF d = c THEN Idle ELSE request[d]
  BY <1>1
<1>3. \A q \in Process : /\ memory'[q] = IF q = p THEN m ELSE memory[q]
                         /\ table'[q] = IF q = p THEN t ELSE table[q]
  BY <1>1
<1>4. Idle.phase = "idle"
  BY DEF Idle
<1>5. \A d \in Client, q \in Process : Working(d, q)' => Working(d, q) /\ d # c
  BY <1>2, <1>4 DEF Working
<1>6. \A d \in Client : d # c /\ request[d].phase # "idle"
                          /\ request[d].process \notin disturbed'
        => request[d].process \in Process \ {p}
  <2> SUFFICES ASSUME NEW d \in Client, d # c, request[d].phase # "idle",
                      request[d].process \notin disturbed'
               PROVE  request[d].process \in Process \ {p}
    OBVIOUS
  <2>1. request[d].process \in Process
    BY <1>1 DEF Request
  <2>2. request[d].process \notin disturbed
    OBVIOUS
  <2> QED
    BY <2>1, <2>2 DEF Alone, Undoable, Working
<1>7. Alone'
  BY <1>5 DEF Alone, Undoable
<1>8. Found'
  <2> SUFFICES ASSUME NEW d \in Client, request'[d].phase \in FinalizePhase,
                      request'[d].process \notin disturbed'
               PROVE  request'[d].before = table'[request'[d].process]
    BY DEF Found
  <2>1. d # c /\ request'[d] = request[d]
    BY <1>2, <1>4 DEF FinalizePhase
  <2>2. request[d].process \in Process \ {p} /\ request[d].process \notin disturbed
    BY <2>1, <1>6 DEF FinalizePhase
  <2> QED
    BY <2>1, <2>2, <1>3 DEF Found, Undoable
<1>9. Snapped'
  <2> SUFFICES ASSUME NEW d \in Client, request'[d].phase \in {"commit", "write"},
                      request'[d].process \notin disturbed'
               PROVE  request'[d].snapshot = memory'[request'[d].process]
    BY DEF Snapped
  <2>1. d # c /\ request'[d] = request[d]
    BY <1>2, <1>4
  <2>2. request[d].process \in Process \ {p} /\ request[d].process \notin disturbed
    BY <2>1, <1>6
  <2> QED
    BY <2>1, <2>2, <1>3 DEF Snapped, Undoable
<1>10. RefusedIsUndone'
  <2> SUFFICES ASSUME NEW q \in Process \ disturbed'
               PROVE  Busy(q)' \/ memory'[q] = table'[q]
    BY DEF RefusedIsUndone
  <2>1. CASE q = p
    BY <2>1, <1>3
  <2>2. CASE q # p
    <3>1. Busy(q) => Busy(q)'
      <4> SUFFICES ASSUME NEW d \in Client, Working(d, q) PROVE Busy(q)'
        BY DEF Busy, Working
      <4>1. d # c
        BY <2>2 DEF Working
      <4> QED
        BY <4>1, <1>2 DEF Busy, Working
    <3> QED
      BY <3>1, <2>2, <1>3 DEF RefusedIsUndone, Undoable
  <2> QED
    BY <2>1, <2>2
<1> QED
  BY <1>7, <1>8, <1>9, <1>10 DEF Undoable

\* A request that begins on a busy process disturbs it.
LEMMA Begins ==
  ASSUME TypeOK, Undoable, NEW c \in Client, NEW p \in Process, NEW m \in Record,
         NEW phase \in {"check", "persist"}, Begin(c, p, phase),
         phase = "check" => m = memory[p],
         memory' = [memory EXCEPT ![p] = m], table' = table
  PROVE Undoable'
<1> DEFINE j == [Idle EXCEPT !.phase = phase, !.process = p, !.before = memory[p]]
<1>1. /\ request \in [Client -> Request] /\ memory \in [Process -> Record]
  BY DEF TypeOK
<1>2. /\ j.phase = phase /\ j.process = p /\ j.before = memory[p]
  BY DEF Idle
<1> HIDE DEF j
<1>3. \A d \in Client : request'[d] = IF d = c THEN j ELSE request[d]
  BY <1>1 DEF Begin, j
<1>4. \A q \in Process : memory'[q] = IF q = p THEN m ELSE memory[q]
  BY <1>1
<1>5. /\ request[c].phase = "idle"
      /\ disturbed' = IF Busy(p) THEN disturbed \cup {p} ELSE disturbed
  BY DEF Begin
<1>6. \A d \in Client, q \in Process :
        Working(d, q)' <=> IF d = c THEN q = p ELSE Working(d, q)
  BY <1>2, <1>3 DEF Working
<1>7. p \notin disturbed' => (\A d \in Client : ~Working(d, p)) /\ memory[p] = table[p]
  BY <1>5 DEF Busy, Working, RefusedIsUndone, Undoable
<1>8. disturbed \subseteq disturbed' /\ disturbed' \subseteq disturbed \cup {p}
  BY <1>5
<1>9. Alone'
  BY <1>6, <1>7, <1>8 DEF Alone, Undoable
<1>10. Found'
  <2> SUFFICES ASSUME NEW d \in Client, request'[d].phase \in FinalizePhase,
                      request'[d].process \notin disturbed'
               PROVE  request'[d].before = table[request'[d].process]
    BY DEF Found
  <2>1. CASE d = c
    BY <2>1, <1>2, <1>3, <1>7
  <2>2. CASE d # c
    BY <2>2, <1>3, <1>8 DEF Found, Undoable
  <2> QED
    BY <2>1, <2>2
<1>11. Snapped'
  <2> SUFFICES ASSUME NEW d \in Client, request'[d].phase \in {"commit", "write"},
                      request'[d].process \notin disturbed'
               PROVE  request'[d].snapshot = memory'[request'[d].process]
    BY DEF Snapped
  <2>1. d # c /\ request'[d] = request[d]
    BY <1>2, <1>3
  <2>2. request[d].process \in Process /\ request[d].process # p
    BY <2>1, <1>1, <1>7 DEF Working, Request
  <2> QED
    BY <2>1, <2>2, <1>4, <1>8 DEF Snapped, Undoable
<1>12. RefusedIsUndone'
  <2> SUFFICES ASSUME NEW q \in Process \ disturbed'
               PROVE  Busy(q)' \/ memory'[q] = table[q]
    BY DEF RefusedIsUndone
  <2>1. CASE q = p
    BY <2>1, <1>6 DEF Busy, Working
  <2>2. CASE q # p
    <3>1. Busy(q) => Busy(q)'
      <4> SUFFICES ASSUME NEW d \in Client, Working(d, q) PROVE Busy(q)'
        BY DEF Busy, Working
      <4>1. d # c
        BY <1>5 DEF Working
      <4> QED
        BY <4>1, <1>3 DEF Busy, Working
    <3> QED
      BY <3>1, <2>2, <1>4, <1>8 DEF RefusedIsUndone, Undoable
  <2> QED
    BY <2>1, <2>2
<1> QED
  BY <1>9, <1>10, <1>11, <1>12 DEF Undoable

-----------------------------------------------------------------------------
(* Every action keeps the types.                                           *)

LEMMA NextTyped == TypeOK /\ Numbered /\ [Next]_vars => TypeOK'
<1> SUFFICES ASSUME TypeOK, Numbered, [Next]_vars PROVE TypeOK'
  OBVIOUS
<1> USE ProtocolsAssumption, IdleTyped
<1>1. ASSUME NEW c \in Client, NEW p \in Process, NEW phase \in {"check", "persist"},
             Begin(c, p, phase)
      PROVE  /\ request' \in [Client -> Request]
             /\ disturbed' \subseteq Process /\ requests' \in Nat
  <2> DEFINE j == [Idle EXCEPT !.phase = phase, !.process = p, !.before = memory[p]]
  <2>1. memory[p] \in Record
    BY DEF TypeOK
  <2>2. j \in Request
    BY <2>1 DEF Request, Phase, Idle, State, Record, Blank
  <2> HIDE DEF j
  <2>3. request' = [request EXCEPT ![c] = j]
    BY <1>1 DEF Begin, j
  <2> QED
    BY <2>2, <2>3, <1>1 DEF Begin, TypeOK
<1>2. ASSUME NEW c \in Client, NEW phase \in Phase, Go(c, phase)
      PROVE  request' \in [Client -> Request]
  BY <1>2 DEF Go, TypeOK, Request
<1>3. ASSUME NEW c \in Client, End(c) PROVE request' \in [Client -> Request]
  BY <1>3 DEF End, TypeOK
<1>4. ASSUME NEW c \in Client
      PROVE  /\ request[c] \in Request /\ request[c].process \in Process
             /\ request[c].before \in Record /\ request[c].snapshot \in Record
             /\ request[c].content \in Content /\ request[c].version \in Nat
             /\ memory[request[c].process] \in Record
             /\ cards[request[c].process] \in Content
  BY DEF TypeOK, Request
<1>5. ASSUME NEW c \in Client, NEW p \in Process, StartFinalize(c, p) PROVE TypeOK'
  BY <1>5, <1>1 DEF StartFinalize, TypeOK, stored
<1>6. ASSUME NEW c \in Client, NEW p \in Process, Unfinalize(c, p) PROVE TypeOK'
  BY <1>6, <1>1 DEF Unfinalize, TypeOK, stored
<1>7. ASSUME NEW c \in Client, NEW p \in Process, NEW x \in Content, Change(c, p, x)
      PROVE  TypeOK'
  BY <1>7, <1>1 DEF Change, TypeOK, stored
<1>8. ASSUME NEW c \in Client, Check(c) PROVE TypeOK'
  BY <1>8, <1>2 DEF Check, TypeOK, stored, Phase
<1>9. ASSUME NEW c \in Client, Assign(c) PROVE TypeOK'
  <2>1. memory' \in [Process -> Record]
    BY <1>9, <1>4 DEF Assign, TypeOK, Record, State
  <2> QED
    BY <1>9, <2>1, <1>2 DEF Assign, TypeOK, stored, Phase
<1>10. ASSUME NEW c \in Client, NEW v \in 1..MaxVersion, Number(c, v) PROVE TypeOK'
  <2>1. v \in Nat
    OBVIOUS
  <2>2. request' \in [Client -> Request]
    BY <1>10, <2>1, <1>4 DEF Number, TypeOK, Request, Phase
  <2> QED
    BY <1>10, <2>2 DEF Number, TypeOK, stored
<1>11. ASSUME NEW c \in Client, Assemble(c) PROVE TypeOK'
  <2>1. Identity(request[c].process, request[c].version) \in ProtocolId
    BY <1>11, <1>4 DEF Numbered, Assemble, Identity, ProtocolId
  <2>2. memory' \in [Process -> Record]
    BY <1>11, <2>1, <1>4 DEF Assemble, TypeOK, Record
  <2>3. memory[request[c].process].state \in State
    BY <1>4 DEF Record
  <2>4. request' \in [Client -> Request]
    <3> DEFINE x == cards[request[c].process]
               s == memory[request[c].process].state
               j == [request[c] EXCEPT !.phase = "snapshot", !.content = x, !.status = s]
    <3>1. request' = [request EXCEPT ![c] = j]
      BY <1>11, <1>4 DEF Assemble, TypeOK
    <3>2. x \in Content /\ s \in State /\ "snapshot" \in Phase
      BY <2>3, <1>4 DEF Phase
    <3> HIDE DEF x, s
    <3>3. j \in Request
      BY <3>2, <1>4 DEF Request
    <3> HIDE DEF j
    <3> QED BY <3>1, <3>3 DEF TypeOK
  <2> QED
    BY <1>11, <2>2, <2>4 DEF Assemble, TypeOK, stored
<1>12. ASSUME NEW c \in Client, NEW next \in Phase, TakeSnapshot(c, next) PROVE TypeOK'
  <2>1. request' \in [Client -> Request]
    BY <1>12, <1>4 DEF TakeSnapshot, TypeOK, Request
  <2> QED
    BY <1>12, <2>1 DEF TakeSnapshot, TypeOK, stored
<1>13. ASSUME NEW c \in Client, Store(request[c]), request[c].phase = "commit"
       PROVE  /\ protocols' \subseteq Row /\ outbox' \subseteq Row
              /\ RowOf(request[c]) \in Row /\ table' \in [Process -> Record]
  <2>1. RowOf(request[c]) \in Row
    BY <1>13, <1>4 DEF RowOf, Row, Numbered
  <2> QED
    BY <2>1, <1>13, <1>4 DEF Store, Inserted, TypeOK
<1>14. ASSUME NEW c \in Client, Commit(c) PROVE TypeOK'
  BY <1>14, <1>13, <1>3 DEF Commit, TypeOK
<1>15. ASSUME NEW c \in Client, CommitInDoubt(c) PROVE TypeOK'
  BY <1>15, <1>13, <1>4, <1>2 DEF CommitInDoubt, TypeOK, Phase
<1>16. ASSUME NEW c \in Client, Rollback(c) PROVE TypeOK'
  BY <1>16, <1>2 DEF Rollback, TypeOK, stored, Phase
<1>17. ASSUME NEW c \in Client, Undo(c) PROVE TypeOK'
  <2>1. memory' \in [Process -> Record]
    BY <1>17, <1>4 DEF Undo, PutBack, TypeOK
  <2> QED
    BY <1>17, <2>1, <1>3 DEF Undo, TypeOK, stored
<1>18. ASSUME NEW c \in Client, Write(c) PROVE TypeOK'
  BY <1>18, <1>4, <1>3 DEF Write, TypeOK
<1>19. ASSUME NEW c \in Client, WriteFails(c) PROVE TypeOK'
  BY <1>19, <1>4, <1>3 DEF WriteFails, TypeOK, stored
<1>20. ASSUME Restart PROVE TypeOK'
  BY <1>20 DEF Restart, TypeOK, stored
<1>21. ASSUME UNCHANGED vars PROVE TypeOK'
  BY <1>21 DEF vars, stored, TypeOK
<1>22. ASSUME NEW c \in Client, Snapshot(c) \/ Persist(c) PROVE TypeOK'
  BY <1>22, <1>12 DEF Snapshot, Persist, Phase
<1> QED
  BY <1>5, <1>6, <1>7, <1>8, <1>9, <1>10, <1>11, <1>14, <1>15, <1>16, <1>17,
     <1>18, <1>19, <1>20, <1>21, <1>22 DEF Next, FinalizeStep, OtherStep

-----------------------------------------------------------------------------
(* Numbers.                                                                *)

\* A step that stores nothing and gives nobody a number keeps Numbering.
LEMMA NothingStored ==
  ASSUME Numbering,
         protocols' = protocols, outbox' = outbox, answered' = answered,
         \A d \in Client :
           request'[d].phase \in {"assemble", "snapshot", "commit"} =>
             /\ request[d].phase \in {"assemble", "snapshot", "commit"}
             /\ request'[d].version = request[d].version
             /\ request'[d].process = request[d].process,
         \A p \in Process : table'[p] = table[p] \/ table'[p].state # "FINALIZED"
  PROVE Numbering'
<1>1. \A o : Versions(o)' = Versions(o)
  BY DEF Versions
<1>2. Closed' /\ OneRow' /\ Owned'
  BY <1>1 DEF Closed, OneRow, Owned, Numbering
<1>3. Numbered'
  BY <1>1 DEF Numbered, Numbering
<1>4. AnsweredIsStored' /\ FinalizedHasProtocol'
  BY DEF AnsweredIsStored, FinalizedHasProtocol, Numbering
<1> QED
  BY <1>2, <1>3, <1>4 DEF Numbering

\* The commit inserts the row after the last one, or finds it inserted.
LEMMA StoreIsNext ==
  ASSUME TypeOK, Numbering, NEW c \in Client, request[c].phase = "commit",
         Insertable(request[c]), Store(request[c])
  PROVE  /\ RowOf(request[c]) \in protocols' /\ protocols \subseteq protocols'
         /\ protocols' = outbox'
         /\ \/ protocols' = protocols
            \/ /\ protocols' = protocols \cup {RowOf(request[c])}
               /\ IsNext(ObjectOf[request[c].process], request[c].version)
<1> DEFINE r == request[c]
           o == ObjectOf[r.process]
           v == r.version
<1>1. /\ v \in Nat \ {0} /\ \A u \in 1..(v - 1) : u \in Versions(o)
      /\ protocols \subseteq Row
  BY DEF Numbering, Numbered, TypeOK
<1>2. /\ RowOf(r).process = r.process /\ RowOf(r).version = v
      /\ RowOf(r).object = o
  BY DEF RowOf
<1>3. CASE \E s \in protocols : s.process = r.process /\ s.version = v
  <2>1. PICK s \in protocols : s.process = r.process /\ s.version = v
    BY <1>3
  <2>2. s = RowOf(r)
    BY <2>1 DEF Owned, Numbering, Insertable
  <2>3. Inserted(r) = {}
    BY <1>2, <2>1 DEF Inserted
  <2> QED
    BY <2>2, <2>3 DEF Store, Numbering, AnsweredIsStored
<1>4. CASE ~ \E s \in protocols : s.process = r.process /\ s.version = v
  <2>1. Inserted(r) = {RowOf(r)}
    BY <1>2, <1>4 DEF Inserted
  <2>2. v \notin Versions(o)
    <3> SUFFICES ASSUME NEW q \in protocols, q.object = o, q.version = v PROVE FALSE
      BY DEF Versions
    <3>1. q = RowOf(r)
      BY DEF Insertable
    <3> QED
      BY <3>1, <1>2, <1>4
  <2>3. \A w \in Versions(o) : w < v
    <3> SUFFICES ASSUME NEW q \in protocols, q.object = o PROVE q.version < v
      BY DEF Versions
    <3>1. q.version \in Nat
      BY <1>1 DEF Row
    <3>2. v \in 1..q.version => v \in Versions(o)
      BY DEF Closed, Numbering
    <3> QED
      BY <3>1, <3>2, <2>2, <1>1
  <2>4. v - 1 \in Versions(o) \cup {0}
    BY <1>1
  <2> QED
    BY <2>1, <2>3, <2>4 DEF Store, Numbering, AnsweredIsStored, IsNext
<1> QED
  BY <1>3, <1>4

LEMMA StoreKeeps ==
  ASSUME TypeOK, Numbering, NEW c \in Client, NEW r, r = request[c],
         r.phase = "commit", Safe(r), Insertable(r), Store(r),
         answered' \subseteq answered \cup {RowOf(r)},
         \A d \in Client \ {c} : request'[d] = request[d],
         request'[c].phase \in {"idle", "undo"}
  PROVE  Numbering'
<1> DEFINE o == ObjectOf[r.process]
           v == r.version
<1>1. /\ RowOf(r) \in protocols' /\ protocols \subseteq protocols'
      /\ protocols' = outbox'
      /\ \/ protocols' = protocols
         \/ protocols' = protocols \cup {RowOf(r)} /\ IsNext(o, v)
  BY StoreIsNext
<1>2. /\ v \in Nat \ {0} /\ \A u \in 1..(v - 1) : u \in Versions(o)
      /\ protocols \subseteq Row /\ r.process \in Process
  BY DEF Numbering, Numbered, TypeOK, Request
<1>3. /\ RowOf(r).process = r.process /\ RowOf(r).version = v
      /\ RowOf(r).object = o
  BY DEF RowOf
<1>4. \A n : Versions(n) \subseteq Versions(n)'
  BY <1>1 DEF Versions
<1>5. v \in Versions(o)'
  BY <1>1, <1>3 DEF Versions
<1>6. Closed'
  <2> SUFFICES ASSUME NEW q \in protocols', NEW u \in 1..q.version
               PROVE  u \in Versions(q.object)'
    BY DEF Closed
  <2>1. CASE q \in protocols
    BY <2>1, <1>4 DEF Closed, Numbering
  <2>2. CASE q = RowOf(r)
    <3>1. u = v \/ u \in 1..(v - 1)
      BY <2>2, <1>2, <1>3
    <3> QED
      BY <3>1, <2>2, <1>2, <1>3, <1>4, <1>5
  <2> QED
    BY <2>1, <2>2, <1>1
<1>7. OneRow'
  <2>1. CASE protocols' = protocols
    BY <2>1 DEF OneRow, Numbering
  <2>2. CASE protocols' = protocols \cup {RowOf(r)} /\ IsNext(o, v)
    <3>1. \A q \in protocols : q.object = o => q.version # v
      <4> SUFFICES ASSUME NEW q \in protocols, q.object = o PROVE q.version # v
        OBVIOUS
      <4>1. q.version < v /\ q.version \in Nat
        BY <2>2, <1>2 DEF IsNext, Versions, Row
      <4> QED
        BY <4>1, <1>2
    <3> QED
      BY <3>1, <2>2, <1>3 DEF OneRow, Numbering
  <2> QED
    BY <2>1, <2>2, <1>1
<1>8. Owned'
  BY <1>1, <1>3 DEF Owned, Numbering
<1>9. Numbered'
  <2>1. \A d \in Client : request'[d].phase \in {"assemble", "snapshot", "commit"}
          => d # c /\ request'[d] = request[d]
    OBVIOUS
  <2> QED
    BY <2>1, <1>4 DEF Numbered, Numbering
<1>10. AnsweredIsStored'
  BY <1>1 DEF AnsweredIsStored, Numbering
<1>11. FinalizedHasProtocol'
  <2> SUFFICES ASSUME NEW p \in Process, table'[p].state = "FINALIZED"
               PROVE  \E q \in protocols' : q.process = p
                         /\ table'[p].protocol = Identity(q.process, q.version)
    BY DEF FinalizedHasProtocol
  <2>1. CASE p = r.process
    <3>1. table'[p] = r.snapshot
      BY <2>1, <1>2 DEF Store, TypeOK
    <3>2. r.snapshot.protocol = Identity(r.process, v)
      BY DEF Safe
    <3> QED
      BY <3>1, <3>2, <2>1, <1>1, <1>3
  <2>2. CASE p # r.process
    <3>1. table'[p] = table[p]
      BY <2>2, <1>2 DEF Store, TypeOK
    <3> QED
      BY <3>1, <1>1 DEF FinalizedHasProtocol, Numbering
  <2> QED
    BY <2>1, <2>2
<1> QED
  BY <1>6, <1>7, <1>8, <1>9, <1>10, <1>11 DEF Numbering

\* A request that begins has no number yet.
LEMMA BeginUnnumbered ==
  ASSUME TypeOK, NEW c \in Client, NEW p \in Process,
         NEW phase \in {"check", "persist"}, Begin(c, p, phase)
  PROVE  \A d \in Client :
           request'[d].phase \in {"assemble", "snapshot", "commit"} =>
             d # c /\ request'[d] = request[d]
<1> DEFINE j == [Idle EXCEPT !.phase = phase, !.process = p, !.before = memory[p]]
<1>1. j.phase = phase
  BY DEF Idle
<1> HIDE DEF j
<1>2. request' = [request EXCEPT ![c] = j] /\ request \in [Client -> Request]
  BY DEF Begin, TypeOK, j
<1> QED
  BY <1>1, <1>2

LEMMA NextNumbering == TypeOK /\ Numbering /\ [Next]_vars => Numbering'
<1> SUFFICES ASSUME TypeOK, Numbering, [Next]_vars PROVE Numbering'
  OBVIOUS
<1>1. request \in [Client -> Request] /\ Idle.phase = "idle"
  BY DEF TypeOK, Idle
<1>2. ASSUME NEW c \in Client, NEW p \in Process,
             StartFinalize(c, p) \/ Unfinalize(c, p)
               \/ \E x \in Content : Change(c, p, x)
      PROVE  Numbering'
  <2>1. Begin(c, p, "check") \/ Begin(c, p, "persist")
    BY <1>2 DEF StartFinalize, Unfinalize, Change
  <2>2. \A d \in Client :
          request'[d].phase \in {"assemble", "snapshot", "commit"} =>
            d # c /\ request'[d] = request[d]
    BY <2>1, BeginUnnumbered
  <2> QED
    BY <1>2, <2>2, NothingStored DEF StartFinalize, Unfinalize, Change, stored
<1>3. ASSUME NEW c \in Client,
             Check(c) \/ Assign(c) \/ Rollback(c) \/ Undo(c) \/ WriteFails(c)
               \/ Persist(c)
      PROVE  Numbering'
  <2>1. /\ \A d \in Client : d # c => request'[d] = request[d]
        /\ request'[c].phase \in {"assign", "number", "undo", "idle", "write"}
    <3>1. \/ \E phase \in {"assign", "number", "undo"} : Go(c, phase)
          \/ End(c) \/ TakeSnapshot(c, "write")
      BY <1>3 DEF Check, Assign, Rollback, Undo, WriteFails, Persist
    <3>2. CASE \E phase \in {"assign", "number", "undo"} : Go(c, phase)
      BY <3>2, <1>1 DEF Go, Request
    <3>3. CASE End(c)
      BY <3>3, <1>1 DEF End
    <3>4. CASE TakeSnapshot(c, "write")
      BY <3>4, <1>1 DEF TakeSnapshot, Request
    <3> QED
      BY <3>1, <3>2, <3>3, <3>4
  <2>2. UNCHANGED <<table, protocols, outbox, answered>>
    BY <1>3 DEF Check, Assign, Rollback, Undo, WriteFails, Persist,
                TakeSnapshot, stored
  <2> QED
    BY <2>1, <2>2, NothingStored
<1>4. ASSUME NEW c \in Client, Assemble(c) \/ Snapshot(c) PROVE Numbering'
  <2>1. /\ \A d \in Client : d # c => request'[d] = request[d]
        /\ request[c].phase \in {"assemble", "snapshot"}
        /\ request'[c].version = request[c].version
        /\ request'[c].process = request[c].process
    <3>1. request[c] \in Request
      BY <1>1
    <3>2. CASE Assemble(c)
      BY <3>1, <3>2, <1>1 DEF Assemble, Request
    <3>3. CASE Snapshot(c)
      BY <3>1, <3>3, <1>1 DEF Snapshot, TakeSnapshot, Request
    <3> QED
      BY <1>4, <3>2, <3>3
  <2>2. UNCHANGED <<table, protocols, outbox, answered>>
    BY <1>4 DEF Assemble, Snapshot, TakeSnapshot, stored
  <2> QED
    BY <2>1, <2>2, NothingStored
<1>5. ASSUME NEW c \in Client, NEW v \in 1..MaxVersion, Number(c, v) PROVE Numbering'
  <2> DEFINE o == ObjectOf[request[c].process]
  <2>1. /\ protocols' = protocols /\ outbox' = outbox /\ answered' = answered
        /\ table' = table
    BY <1>5 DEF Number, stored
  <2>2. v \in Nat \ {0} /\ IsNext(o, v)
    BY <1>5 DEF Number
  <2>3. \A n : Versions(n)' = Versions(n)
    BY <2>1 DEF Versions
  <2>4. \A u \in 1..(v - 1) : u \in Versions(o)
    <3> SUFFICES ASSUME NEW u \in 1..(v - 1) PROVE u \in Versions(o)
      OBVIOUS
    <3>1. v - 1 \in Versions(o)
      BY <2>2 DEF IsNext
    <3>2. PICK q \in protocols : q.object = o /\ q.version = v - 1
      BY <3>1 DEF Versions
    <3> QED
      BY <3>2 DEF Closed, Numbering
  <2>5. \A d \in Client : d # c => request'[d] = request[d]
    BY <1>5, <1>1 DEF Number
  <2>6. request'[c].version = v /\ request'[c].process = request[c].process
    BY <1>5, <1>1 DEF Number
  <2>7. Numbered'
    BY <2>2, <2>3, <2>4, <2>5, <2>6 DEF Numbered, Numbering
  <2>8. Closed' /\ OneRow' /\ Owned'
    BY <2>1, <2>3 DEF Closed, OneRow, Owned, Numbering
  <2>9. AnsweredIsStored' /\ FinalizedHasProtocol'
    BY <2>1 DEF AnsweredIsStored, FinalizedHasProtocol, Numbering
  <2> QED
    BY <2>7, <2>8, <2>9 DEF Numbering
<1>6. ASSUME NEW c \in Client, Commit(c) PROVE Numbering'
  BY <1>6, <1>1, StoreKeeps DEF Commit, End
<1>7. ASSUME NEW c \in Client, CommitInDoubt(c) PROVE Numbering'
  <2>1. request'[c].phase = "undo" /\ \A d \in Client \ {c} : request'[d] = request[d]
    BY <1>7, <1>1 DEF CommitInDoubt, Go
  <2> QED
    BY <1>7, <2>1, StoreKeeps DEF CommitInDoubt
<1>8. ASSUME NEW c \in Client, Write(c) PROVE Numbering'
  <2>1. \A p \in Process : table'[p] = table[p] \/ table'[p].state # "FINALIZED"
    BY <1>8 DEF Write, Saveable, TypeOK
  <2> QED
    BY <1>8, <2>1, <1>1, NothingStored DEF Write, End
<1>9. ASSUME Restart PROVE Numbering'
  BY <1>9, <1>1, NothingStored DEF Restart, stored
<1>10. ASSUME UNCHANGED vars PROVE Numbering'
  BY <1>10, NothingStored DEF vars, stored
<1> QED
  BY <1>2, <1>3, <1>4, <1>5, <1>6, <1>7, <1>8, <1>9, <1>10
     DEF Next, FinalizeStep, OtherStep

-----------------------------------------------------------------------------
(* Undoing.                                                                *)

LEMMA NextUndoable == TypeOK /\ Numbered /\ Undoable /\ [Next]_vars => Undoable'
<1> SUFFICES ASSUME TypeOK, Numbered, Undoable, [Next]_vars PROVE Undoable'
  OBVIOUS
<1>1. /\ request \in [Client -> Request] /\ memory \in [Process -> Record]
      /\ table \in [Process -> Record] /\ TypeOK'
  BY NextTyped DEF TypeOK
<1>2. ASSUME NEW c \in Client
      PROVE  /\ request[c] \in Request /\ request[c].process \in Process
             /\ request'[c] \in Request
             /\ memory[request[c].process] \in Record
             /\ table[request[c].process] \in Record
             /\ request[c].before \in Record /\ request[c].snapshot \in Record
  BY <1>1 DEF TypeOK, Request
<1>3. ASSUME NEW c \in Client, NEW p \in Process, StartFinalize(c, p) PROVE Undoable'
  <2>1. memory' = [memory EXCEPT ![p] = memory[p]] /\ memory[p] \in Record
    BY <1>1, <1>3 DEF StartFinalize
  <2> QED
    BY <2>1, <1>3, Begins DEF StartFinalize, stored
<1>4. ASSUME NEW c \in Client, NEW p \in Process, Unfinalize(c, p) PROVE Undoable'
  BY <1>4, Begins, IdleTyped DEF Unfinalize, stored
<1>5. ASSUME NEW c \in Client, NEW p \in Process, NEW x \in Content, Change(c, p, x)
      PROVE  Undoable'
  <2>1. memory' = [memory EXCEPT ![p] = memory[p]] /\ memory[p] \in Record
    BY <1>1, <1>5 DEF Change
  <2> QED
    BY <2>1, <1>5, Begins DEF Change, stored
<1>6. ASSUME NEW c \in Client, NEW m \in Record, NEW phase \in Phase, Go(c, phase),
             request[c].phase # "idle", phase \notin {"idle", "commit", "write"},
             phase \in FinalizePhase => request[c].phase \in FinalizePhase,
             memory' = [memory EXCEPT ![request[c].process] = m],
             table' = table, disturbed' = disturbed
      PROVE  Undoable'
  <2> DEFINE j == [request[c] EXCEPT !.phase = phase]
  <2>1. j \in Request /\ j.phase = phase /\ j.process = request[c].process
          /\ j.before = request[c].before
    BY <1>2 DEF Request
  <2>2. request' = [request EXCEPT ![c] = j]
    BY <1>6 DEF Go
  <2> HIDE DEF j
  <2> QED
    BY <2>1, <2>2, <1>6, Moves
<1>7. ASSUME NEW c \in Client, Check(c) \/ Rollback(c) PROVE Undoable'
  <2>1. memory' = [memory EXCEPT ![request[c].process] = memory[request[c].process]]
    BY <1>7, <1>1 DEF Check, Rollback
  <2>2. /\ \E phase \in {"assign", "undo"} : Go(c, phase)
        /\ request[c].phase \in {"check", "commit"}
        /\ table' = table /\ disturbed' = disturbed
    BY <1>7 DEF Check, Rollback, stored
  <2> QED
    BY <2>1, <2>2, <1>2, <1>6 DEF FinalizePhase, Phase
<1>8. ASSUME NEW c \in Client, Assign(c) PROVE Undoable'
  <2> DEFINE m == [memory[request[c].process] EXCEPT !.state = "FINALIZED"]
  <2>1. m \in Record
    BY <1>2 DEF Record, State
  <2>2. memory' = [memory EXCEPT ![request[c].process] = m]
    BY <1>8 DEF Assign
  <2> HIDE DEF m
  <2>3. /\ Go(c, "number") /\ request[c].phase = "assign"
        /\ table' = table /\ disturbed' = disturbed
    BY <1>8 DEF Assign, stored
  <2> QED
    BY <2>1, <2>2, <2>3, <1>6 DEF FinalizePhase, Phase
<1>9. ASSUME NEW c \in Client, NEW v \in 1..MaxVersion, Number(c, v) PROVE Undoable'
  <2> DEFINE j == [request[c] EXCEPT !.phase = "assemble", !.version = v]
  <2>0. v \in Nat
    OBVIOUS
  <2>1. j \in Request /\ j.phase = "assemble" /\ j.process = request[c].process
          /\ j.before = request[c].before
    BY <2>0, <1>2 DEF Request, Phase
  <2>2. /\ request' = [request EXCEPT ![c] = j] /\ request[c].phase = "number"
        /\ table' = table /\ disturbed' = disturbed
    BY <1>9 DEF Number, stored
  <2>3. memory' = [memory EXCEPT ![j.process] = memory[j.process]]
    BY <1>9, <1>1 DEF Number
  <2> HIDE DEF j
  <2> QED
    BY <2>1, <2>2, <2>3, <1>2, Moves DEF FinalizePhase
<1>10. ASSUME NEW c \in Client, Assemble(c) PROVE Undoable'
  <2> DEFINE j == [request[c] EXCEPT !.phase = "snapshot",
                     !.content = cards[request[c].process],
                     !.status = memory[request[c].process].state]
             m == [memory[request[c].process] EXCEPT !.protocol =
                     Identity(request[c].process, request[c].version)]
  <2>1. /\ j.phase = "snapshot" /\ j.process = request[c].process
        /\ j.before = request[c].before
    BY <1>2 DEF Request
  <2>2. request' = [request EXCEPT ![c] = j]
    BY <1>10 DEF Assemble
  <2>3. memory' = [memory EXCEPT ![request[c].process] = m]
    BY <1>10 DEF Assemble
  <2>4. /\ request[c].phase = "assemble"
        /\ table' = table /\ disturbed' = disturbed
    BY <1>10 DEF Assemble, stored
  <2> HIDE DEF j, m
  <2>5. j \in Request /\ m \in Record
    BY <2>2, <2>3, <1>1, <1>2 DEF TypeOK
  <2> QED
    BY <2>1, <2>2, <2>3, <2>4, <2>5, Moves DEF FinalizePhase
<1>11. ASSUME NEW c \in Client, Snapshot(c) \/ Persist(c) PROVE Undoable'
  <2>1. PICK next \in {"commit", "write"} :
          /\ TakeSnapshot(c, next)
          /\ \/ next = "commit" /\ request[c].phase = "snapshot"
             \/ next = "write" /\ request[c].phase = "persist"
    BY <1>11 DEF Snapshot, Persist
  <2> DEFINE p == request[c].process
             j == [request[c] EXCEPT !.phase = next, !.snapshot = memory[p]]
  <2>2. /\ j.phase = next /\ j.process = p /\ j.before = request[c].before
        /\ j.snapshot = memory[p]
    BY <1>2 DEF Request
  <2>3. /\ request' = [request EXCEPT ![c] = j]
        /\ table' = table /\ disturbed' = disturbed
    BY <2>1 DEF TakeSnapshot, stored
  <2>4. memory' = [memory EXCEPT ![p] = memory[p]] /\ memory[p] \in Record
    BY <2>1, <1>1, <1>2 DEF TakeSnapshot
  <2> HIDE DEF j
  <2>5. j \in Request
    BY <2>3, <1>1, <1>2
  <2> QED
    BY <2>1, <2>2, <2>3, <2>4, <2>5, Moves DEF FinalizePhase
<1>12. ASSUME NEW c \in Client, Commit(c) \/ Write(c) PROVE Undoable'
  <2> DEFINE p == request[c].process
             t == request[c].snapshot
             m == memory[p]
  <2>1. /\ table' = [table EXCEPT ![p] = t] /\ End(c) /\ memory' = memory
        /\ disturbed' = disturbed /\ request[c].phase \in {"commit", "write"}
    BY <1>12 DEF Commit, Write, Store
  <2>2. m = t \/ p \in disturbed'
    BY <2>1 DEF Snapped, Undoable
  <2>3. memory' = [memory EXCEPT ![p] = m]
    BY <2>1, <1>1
  <2>4. p \in Process /\ t \in Record /\ m \in Record
    BY <1>2
  <2>5. request' = [request EXCEPT ![c] = Idle]
    BY <2>1 DEF End
  <2> QED
    BY <2>1, <2>2, <2>3, <2>4, <2>5, Ends
<1>13. ASSUME NEW c \in Client, Undo(c) PROVE Undoable'
  <2> DEFINE p == request[c].process
             m == request[c].before
  <2>1. /\ memory' = [memory EXCEPT ![p] = m] /\ table' = table
        /\ disturbed' = disturbed /\ request[c].phase = "undo"
        /\ request' = [request EXCEPT ![c] = Idle]
    BY <1>13 DEF Undo, PutBack, End, stored
  <2>2. m = table[p] \/ p \in disturbed'
    BY <2>1 DEF Found, Undoable, FinalizePhase
  <2>3. table' = [table EXCEPT ![p] = table[p]]
    BY <2>1, <1>1
  <2>4. p \in Process /\ table[p] \in Record /\ m \in Record
    BY <1>2
  <2> QED
    BY <2>1, <2>2, <2>3, <2>4, Ends
<1>14. ASSUME NEW c \in Client, WriteFails(c) PROVE Undoable'
  <2> DEFINE p == request[c].process
  <2>1. /\ memory' = memory /\ table' = table
        /\ disturbed' = disturbed \cup {p} /\ request[c].phase = "write"
        /\ request' = [request EXCEPT ![c] = Idle]
    BY <1>14 DEF WriteFails, End, stored
  <2>2. /\ table' = [table EXCEPT ![p] = table[p]]
        /\ memory' = [memory EXCEPT ![p] = memory[p]]
    BY <2>1, <1>1
  <2>3. p \in Process /\ table[p] \in Record /\ memory[p] \in Record
    BY <1>2
  <2>4. p \in disturbed'
    BY <2>1
  <2> QED
    BY <2>1, <2>2, <2>3, <2>4, Ends
<1>15. ASSUME NEW c \in Client, CommitInDoubt(c) PROVE Undoable'
  <2> DEFINE p == request[c].process
  <2>1. /\ table' = [table EXCEPT ![p] = request[c].snapshot] /\ Go(c, "undo")
        /\ memory' = memory /\ disturbed' = disturbed \cup {p}
        /\ request[c].phase = "commit"
    BY <1>15 DEF CommitInDoubt, Store
  <2>2. \A q \in Process \ disturbed' : q # p /\ q \notin disturbed
                                         /\ table'[q] = table[q]
    BY <2>1, <1>1
  <2>3. /\ \A d \in Client : d # c => request'[d] = request[d]
        /\ request'[c].process = p /\ request'[c].phase = "undo"
    BY <2>1, <1>1, <1>2 DEF Go, Request
  <2>4. \A d \in Client, q \in Process : Working(d, q)' <=> Working(d, q)
    BY <2>1, <2>3 DEF Working
  <2>5. \A d \in Client : request'[d].process \notin disturbed'
          => /\ d # c /\ request'[d] = request[d]
             /\ request[d].process \in Process \ disturbed'
    BY <2>1, <2>3, <1>2
  <2>6. Alone'
    BY <2>2, <2>4 DEF Alone, Undoable
  <2>7. Found' /\ Snapped'
    BY <2>1, <2>2, <2>5 DEF Found, Snapped, Undoable
  <2>8. RefusedIsUndone'
    <3> SUFFICES ASSUME NEW q \in Process \ disturbed'
                 PROVE  Busy(q)' \/ memory'[q] = table'[q]
      BY DEF RefusedIsUndone
    <3>1. Busy(q)' <=> Busy(q)
      BY <2>4 DEF Busy, Working
    <3> QED
      BY <3>1, <2>1, <2>2 DEF RefusedIsUndone, Undoable
  <2> QED
    BY <2>6, <2>7, <2>8 DEF Undoable
<1>16. ASSUME Restart PROVE Undoable'
  <2>1. /\ memory' = table /\ table' = table
        /\ \A d \in Client : request'[d].phase = "idle"
    BY <1>16 DEF Restart, stored, Idle
  <2> QED
    BY <2>1 DEF Undoable, Alone, Working, Found, Snapped, RefusedIsUndone,
                FinalizePhase
<1>17. ASSUME UNCHANGED vars PROVE Undoable'
  BY <1>17 DEF vars, stored, Undoable, Alone, Working, Found, Snapped,
               RefusedIsUndone, Busy
<1> QED
  BY <1>3, <1>4, <1>5, <1>7, <1>8, <1>9, <1>10, <1>11, <1>12, <1>13, <1>14,
     <1>15, <1>16, <1>17 DEF Next, FinalizeStep, OtherStep

-----------------------------------------------------------------------------
LEMMA InitIInv == Init => IInv
<1> SUFFICES ASSUME Init PROVE IInv
  OBVIOUS
<1>1. \A c \in Client : request[c].phase = "idle"
  BY DEF Init, Idle
<1>2. TypeOK
  BY IdleTyped DEF Init, TypeOK
<1>3. Blank.state = "COMPLETED"
  BY DEF Blank
<1>4. Numbering
  BY <1>1, <1>3 DEF Init, Numbering, Closed, OneRow, Owned, Numbered,
                    AnsweredIsStored, FinalizedHasProtocol
<1>5. Undoable
  BY <1>1 DEF Init, Undoable, Alone, Working, Found, Snapped, RefusedIsUndone,
              FinalizePhase
<1> QED
  BY <1>2, <1>4, <1>5 DEF IInv

LEMMA NextIInv == IInv /\ [Next]_vars => IInv'
  BY NextTyped, NextNumbering, NextUndoable DEF IInv, Numbering

LEMMA Invariant == Spec => []IInv
  BY InitIInv, NextIInv, PTL DEF Spec

\* Records, rows and requests have their shape; in particular a protocol
\* never gets a version below 1 (protocol_identity).
THEOREM Typed == Spec => []TypeOK
<1>1. IInv => TypeOK
  BY DEF IInv
<1> QED
  BY <1>1, Invariant, PTL

\* What finalize answered stays stored, with the payload it answered for.
THEOREM AnswersStored == Spec => []AnsweredIsStored
<1>1. IInv => AnsweredIsStored
  BY DEF IInv, Numbering
<1> QED
  BY <1>1, Invariant, PTL

\* A finalized row names a materialized protocol of its process.
THEOREM FinalizedMaterialized == Spec => []FinalizedHasProtocol
<1>1. IInv => FinalizedHasProtocol
  BY DEF IInv, Numbering
<1> QED
  BY <1>1, Invariant, PTL

\* A refused finalization leaves the process as its row says.
THEOREM RefusalUndone == Spec => []RefusedIsUndone
<1>1. IInv => RefusedIsUndone
  BY DEF IInv, Undoable
<1> QED
  BY <1>1, Invariant, PTL

LEMMA StoreRefines ==
  ASSUME IInv, NEW c \in Client, request[c].phase = "commit",
         Insertable(request[c]), Store(request[c])
  PROVE  [Series!Next]_protocols
<1> DEFINE r == request[c]
           o == ObjectOf[r.process]
<1>1. \/ protocols' = protocols
      \/ protocols' = protocols \cup {RowOf(r)} /\ IsNext(o, r.version)
  BY StoreIsNext DEF IInv
<1>2. \A n : Series!Versions(n) = Versions(n)
  BY DEF Series!Versions, Versions
<1>3. ASSUME protocols' = protocols \cup {RowOf(r)}, IsNext(o, r.version)
      PROVE  Series!Next
  <2>1. /\ o \in Object /\ r.process \in Process /\ r.content \in Content
        /\ r.version \in Nat \ {0}
    BY ProtocolsAssumption DEF IInv, TypeOK, Request, Numbering, Numbered
  <2>2. Series!Publish(o, r.process, r.version, r.content)
    BY <1>2, <1>3 DEF Series!Publish, Series!Follows, IsNext, RowOf
  <2>3. r.version \in {w + 1 : w \in Series!Versions(o) \cup {0}}
    <3>1. r.version - 1 \in Series!Versions(o) \cup {0}
      BY <1>2, <1>3 DEF IsNext
    <3>2. r.version = (r.version - 1) + 1
      BY <2>1
    <3> QED
      BY <3>1, <3>2
  <2> QED
    BY <2>1, <2>2, <2>3 DEF Series!Next
<1> QED
  BY <1>1, <1>3

\* The protocols of an object are a series to which versions are appended and
\* in which nothing else ever happens.
THEOREM ProtocolsAreSeries == Spec => ImplementsProtocolVersions
<1>1. Init => Series!Init
  BY DEF Init, Series!Init
<1>2. IInv /\ [Next]_vars => [Series!Next]_protocols
  <2> SUFFICES ASSUME IInv, [Next]_vars PROVE [Series!Next]_protocols
    OBVIOUS
  <2>1. ASSUME NEW c \in Client, Commit(c) \/ CommitInDoubt(c)
        PROVE  [Series!Next]_protocols
    BY <2>1, StoreRefines DEF Commit, CommitInDoubt
  <2>2. CASE protocols' = protocols
    BY <2>2
  <2>3. \/ \E c \in Client : Commit(c) \/ CommitInDoubt(c)
        \/ protocols' = protocols
    BY DEF Next, vars, stored, FinalizeStep, OtherStep, StartFinalize, Unfinalize,
           Change, Check, Assign, Number, Assemble, Snapshot, TakeSnapshot,
           Rollback, Undo, Persist, Write, WriteFails, Restart
  <2> QED
    BY <2>1, <2>2, <2>3
<1> QED
  BY <1>1, <1>2, Invariant, PTL DEF Spec, ImplementsProtocolVersions, Series!Spec

=============================================================================
