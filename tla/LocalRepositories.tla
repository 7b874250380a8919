------------------------- MODULE LocalRepositories -------------------------
(* The IndexedDB repositories of the local conversation                    *)
(* (src/storage/indexed-db.ts) and the integrity an export demands of them *)
(* (src/storage/export.ts).                                                *)
(*                                                                         *)
(* A store is a set of rows with distinct identifiers, and a database is   *)
(* the record of its stores.  Every operator below is one IndexedDB        *)
(* transaction: it returns the stores the transaction leaves, all of its   *)
(* rows or none of them.  Of a conclusion only its provenance is kept (the *)
(* turns it cites), of a turn its thread, author, delivery state and       *)
(* position.  "to" is not stored by the code: it names the turn that a     *)
(* specular turn answers, so that replies can be counted.                  *)
EXTENDS Naturals, Sequences, FiniteSets

CONSTANT None

EmptyDb == [threads |-> {}, turns |-> {}, capsules |-> {}]

AddRow(store, row) == store \cup {row}   \* mutant
Put(store, row) == {r \in store : r.id # row.id} \cup {row}
Remove(store, id) == {r \in store : r.id # id}
Get(store, id) == IF \E r \in store : r.id = id
                  THEN CHOOSE r \in store : r.id = id ELSE None

TurnsOf(db, t) == {r \in db.turns : r.thread = t}
ActiveThreads(db) == {r \in db.threads : r.state = "active"}

NewThread(id, conclusion) ==
    [id |-> id, state |-> "active", turnIds |-> <<>>, conclusion |-> conclusion]
UserTurn(id, t, position, state) ==
    [id |-> id, thread |-> t, role |-> "user", state |-> state,
     position |-> position, to |-> None]
SpecularTurn(id, t, position, to) ==
    [id |-> id, thread |-> t, role |-> "specular", state |-> "accepted",
     position |-> position, to |-> to]

(***************************************************************************)
(* The transactions.  A write that its assertion refuses, and one that     *)
(* aborts, leave the stores as they were and are told apart from success   *)
(* by the caller.                                                          *)
(***************************************************************************)
Lists(thread, turn) == /\ turn.thread = thread.id
                       /\ \E i \in DOMAIN thread.turnIds : thread.turnIds[i] = turn.id

PendingAllowed(thread, turn) ==
    /\ thread.state = "active"
    /\ turn.role = "user" /\ turn.state = "pending"
    /\ Lists(thread, turn)
PersistPendingTurn(db, thread, turn) ==
    [db EXCEPT !.turns = Put(@, turn), !.threads = Put(@, thread)]

ExchangeAllowed(thread, user, reply) ==
    /\ thread.state = "active"
    /\ user.role = "user" /\ user.state = "accepted"
    /\ reply.role = "specular" /\ reply.state = "accepted"
    /\ user.position < reply.position
    /\ Lists(thread, user) /\ Lists(thread, reply)
AcceptReplyOnly(db, thread, user, reply) ==   \* mutant
    [db EXCEPT !.turns = Put(@, reply), !.threads = Put(@, thread)]
AcceptExchange(db, thread, user, reply) ==
    [db EXCEPT !.turns = Put(Put(@, user), reply), !.threads = Put(@, thread)]

SpecularAllowed(thread, reply) ==
    /\ thread.state = "active"
    /\ reply.role = "specular" /\ reply.state = "accepted"
    /\ Lists(thread, reply)
PersistSpecularTurn(db, thread, reply) ==
    [db EXCEPT !.turns = Put(@, reply), !.threads = Put(@, thread)]

FinishAllowed(completed, fresh, capsule) ==
    /\ completed.state = "completed" /\ fresh.state = "active"
    /\ fresh.id # completed.id
    /\ fresh.turnIds = <<>> /\ fresh.conclusion = None
    /\ capsule # None => capsule.thread = completed.id
FinishAndStart(db, completed, fresh, capsule) ==
    [db EXCEPT !.threads = Put(Put(@, completed), fresh),
               !.capsules = IF capsule = None THEN @ ELSE Put(@, capsule)]

PutThread(db, thread) == [db EXCEPT !.threads = Put(@, thread)]
PutTurn(db, turn) == [db EXCEPT !.turns = Put(@, turn)]
PutCapsule(db, capsule) == [db EXCEPT !.capsules = Put(@, capsule)]

DeleteThreadRow(db, t) == [db EXCEPT !.threads = Remove(@, t)]   \* mutant
(* A thread is deleted with the turns the index lists under it.            *)
DeleteThread(db, t) ==
    [db EXCEPT !.threads = Remove(@, t), !.turns = @ \ TurnsOf(db, t)]
DeleteCapsule(db, c) == [db EXCEPT !.capsules = Remove(@, c)]
DeleteOwnerRows(db) == EmptyDb

(***************************************************************************)
(* parseSpecularExport: what an archive must satisfy to be exported.       *)
(***************************************************************************)
TurnIntegrity(db) ==
    /\ \A r \in db.turns : Get(db.threads, r.thread) # None
    /\ \A r, s \in db.turns :
          r.thread = s.thread /\ r.position = s.position => r = s

ThreadIntegrity(db) == \A t \in db.threads :
    LET listed == t.turnIds
        At(i) == Get(db.turns, listed[i])
    IN  /\ \A i \in DOMAIN listed : At(i) # None /\ At(i).thread = t.id
        /\ \A i, j \in DOMAIN listed :
              i < j => At(i).position < At(j).position
        /\ \A r \in TurnsOf(db, t.id) : \E i \in DOMAIN listed : listed[i] = r.id

CapsuleIntegrity(db) == \A c \in db.capsules :
    LET cited == {c.first, c.last} \cup c.provenance
        Position(id) == Get(db.turns, id).position
    IN  IF Get(db.threads, c.thread) = None
        THEN \A id \in cited : Get(db.turns, id) = None
        ELSE /\ \A id \in cited : /\ Get(db.turns, id) # None
                                  /\ Get(db.turns, id).thread = c.thread
             /\ \A id \in cited : Position(id) \in Position(c.first) .. Position(c.last)

Exportable(db) == /\ TurnIntegrity(db)
                  /\ ThreadIntegrity(db)
                  /\ CapsuleIntegrity(db)
=============================================================================
