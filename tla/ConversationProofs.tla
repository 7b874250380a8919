------------------------- MODULE ConversationProofs -------------------------
(***************************************************************************)
(* Theorems about Conversation, for any numbers of threads, turns and      *)
(* capsules and any gathering limit, of one page and its voice session:    *)
(* what is stored can always be exported, every accepted turn has its one  *)
(* reply, an idle page shows what is stored, and a finished thread is      *)
(* final.                                                                  *)
(*                                                                         *)
(* The invariant has three parts: what the stores say of each other        *)
(* (Stores), what a call knows of them at each of its awaits (CallInv),    *)
(* and how the page's call, its voice exchange and its view fit together   *)
(* (PageInv).  A lemma per transaction says what it makes of the stores, a *)
(* lemma per action what it makes of the three.                            *)
(***************************************************************************)
EXTENDS Conversation, FiniteSetTheorems, SequenceTheorems, NaturalsInduction, WellFoundedInduction, TLAPS

(* The page that is modelled alone: of two pages neither disables the      *)
(* other's controls, so each may write by what it read before the other    *)
(* wrote.  Within a page the section from a call's last reads to its write *)
(* is not interrupted by the other call's (no "overlap").                  *)
OnePage == /\ \A p, q \in Page : p = q
           /\ "overlap" \notin Environment

(* The rows of the stores.                                                 *)
ThreadRow == [id : Nat, state : {"active", "completed"}, turnIds : Seq(Nat),
              conclusion : {None} \cup SUBSET Nat]
TurnRow == [id : Nat, thread : Nat, role : {"user", "specular"},
            state : {"pending", "failed", "accepted"}, position : Nat, to : {None} \cup Nat]
CapsuleRow == [id : Nat, thread : Nat, first : Nat, last : Nat, provenance : SUBSET Nat]

(* What is cited are accepted turns of the user's, or turns deleted since. *)
Accepted(r) == r.role = "user" /\ r.state = "accepted"
Sound(d, n, G) == /\ G \in SUBSET (1 .. n.turn)
                  /\ \A r \in d.turns : r.id \in G => Accepted(r)
SoundOrNone(d, n, G) == G = None \/ Sound(d, n, G)

(* Types: stores of rows with distinct identifiers, all of them drawn.     *)
Distinct(store) == \A r, s \in store : r.id = s.id => r = s
Typed(d, n) ==
    /\ d \in [threads : SUBSET ThreadRow, turns : SUBSET TurnRow, capsules : SUBSET CapsuleRow]
    /\ n \in [thread : Nat, turn : Nat, capsule : Nat]
    /\ IsFiniteSet(d.threads) /\ IsFiniteSet(d.turns)
    /\ Distinct(d.threads) /\ Distinct(d.turns) /\ Distinct(d.capsules)
    /\ Ids(d.threads) \subseteq 1 .. n.thread
    /\ Ids(d.turns) \subseteq 1 .. n.turn
    /\ Ids(d.capsules) \subseteq 1 .. n.capsule

(* A thread lists turns of its own, in the order of their positions, and   *)
(* every turn is listed by its thread.                                     *)
AreListed(d) == \A t \in d.threads : \A i \in DOMAIN t.turnIds :
    \E r \in d.turns : r.id = t.turnIds[i] /\ r.thread = t.id
InOrder(d) == \A t \in d.threads : \A i, j \in DOMAIN t.turnIds : i < j =>
    \A r, s \in d.turns : r.id = t.turnIds[i] /\ s.id = t.turnIds[j] => r.position < s.position
HaveThreads(d) == \A r \in d.turns : \E t \in d.threads :
    t.id = r.thread /\ \E i \in DOMAIN t.turnIds : t.turnIds[i] = r.id
(* Conclusions and capsules cite what may be cited; a capsule cites within *)
(* its range while its thread is stored.                                   *)
Conclusions(d, n) == \A t \in d.threads : SoundOrNone(d, n, t.conclusion)
CapsuleOf(d, n, c) ==
    /\ c.thread \in 1 .. n.thread /\ {c.first, c.last} \subseteq 1 .. n.turn
    /\ Sound(d, n, c.provenance)
    /\ \A r \in d.turns : r.id \in {c.first, c.last} \cup c.provenance => r.thread = c.thread
    /\ c.thread \in Ids(d.threads) =>
         /\ {c.first, c.last} \cup c.provenance \subseteq Ids(d.turns)
         /\ \A r, f, l \in d.turns :
              r.id \in {c.first, c.last} \cup c.provenance /\ f.id = c.first /\ l.id = c.last =>
                 f.position <= r.position /\ r.position <= l.position
(* A reply is in the thread of the turn it answers, and the accepted turns *)
(* of the user's have exactly one.                                         *)
Replies(d, n) ==
    /\ \A s \in d.turns : s.to \in {None} \cup 1 .. n.turn /\ (s.role = "user" => s.to = None)
    /\ \A r, s \in d.turns : s.to = r.id => s.thread = r.thread
    /\ \A r \in d.turns : r.role = "user" =>
         IF r.state = "accepted" THEN \E s \in d.turns : \A q \in d.turns : q.to = r.id <=> q = s
                                 ELSE \A s \in d.turns : s.to # r.id
Rows(d, n) == /\ Typed(d, n) /\ AreListed(d) /\ InOrder(d) /\ HaveThreads(d)
              /\ Conclusions(d, n) /\ \A c \in d.capsules : CapsuleOf(d, n, c)
Stores(d, n) == Rows(d, n) /\ Replies(d, n)

-----------------------------------------------------------------------------
(* None is a value without structure, as undefined is: no number, no set   *)
(* of identifiers and no row.                                              *)
NoneIsNull == None \notin Nat /\ None \notin SUBSET Nat /\ None # [x \in DOMAIN None |-> None[x]]

LEMMA RowsAreSome ==
    ASSUME NoneIsNull
    PROVE  /\ \A r \in ThreadRow : r # None
           /\ \A r \in TurnRow : r # None
           /\ \A r \in CapsuleRow : r # None
BY DEF NoneIsNull, ThreadRow, TurnRow, CapsuleRow

(* A read finds the row there is.                                          *)
LEMMA GetIs == ASSUME NEW store, Distinct(store), NEW r \in store PROVE Get(store, r.id) = r
BY DEF Get, Distinct

LEMMA GetSome ==
    ASSUME NEW store, NEW id, Get(store, id) # None
    PROVE  Get(store, id) \in store /\ Get(store, id).id = id
BY DEF Get

LEMMA GetNone ==
    ASSUME NEW store, NEW id, \A r \in store : r.id # id PROVE Get(store, id) = None
BY DEF Get

(* A put replaces the row there is.                                        *)
LEMMA PutIs ==
    ASSUME NEW store, NEW row
    PROVE  /\ \A r : r \in Put(store, row) <=> r = row \/ (r \in store /\ r.id # row.id)
           /\ Distinct(store) => Distinct(Put(store, row))
           /\ IsFiniteSet(store) => IsFiniteSet(Put(store, row))
<1>1. \A r : r \in Put(store, row) <=> r = row \/ (r \in store /\ r.id # row.id)
  BY DEF Put
<1>2. Distinct(store) => Distinct(Put(store, row))
  BY <1>1 DEF Distinct
<1>3. ASSUME IsFiniteSet(store) PROVE IsFiniteSet(Put(store, row))
  <2>1. {r \in store : r.id # row.id} \subseteq store
    OBVIOUS
  <2>2. IsFiniteSet({r \in store : r.id # row.id})
    BY <1>3, <2>1, FS_Subset
  <2> QED BY <2>2, FS_AddElement DEF Put
<1> QED BY <1>1, <1>2, <1>3

(* What happened to the stores between two states: no identifier is used   *)
(* twice, and an accepted user turn stays one.                             *)
Later(d, n, e, m) ==
    /\ n.thread <= m.thread /\ n.turn <= m.turn
    /\ \A r \in e.turns : r.id \in 1 .. n.turn =>
          \E s \in d.turns : s.id = r.id /\ (Accepted(s) => Accepted(r))
(* Only thread a and its turns changed.                                    *)
Only(d, e, a) ==
    /\ \A t : t # a => TurnsOf(e, t) = TurnsOf(d, t)
    /\ \A r : r.id # a => (r \in e.threads <=> r \in d.threads)

LEMMA SoundStays ==
    ASSUME NEW d, NEW n \in [thread : Nat, turn : Nat, capsule : Nat],
           NEW e, NEW m \in [thread : Nat, turn : Nat, capsule : Nat], Later(d, n, e, m),
           NEW G
    PROVE  /\ Sound(d, n, G) => Sound(e, m, G)
           /\ SoundOrNone(d, n, G) => SoundOrNone(e, m, G)
BY DEF Later, Sound, SoundOrNone

LEMMA CapsuleStays ==
    ASSUME NEW d, NEW n \in [thread : Nat, turn : Nat, capsule : Nat],
           NEW e, NEW m \in [thread : Nat, turn : Nat, capsule : Nat], Later(d, n, e, m),
           NEW c \in CapsuleRow, CapsuleOf(d, n, c),
           \A r \in e.turns : r.id \in 1 .. n.turn =>
               \E s \in d.turns : s.id = r.id /\ s.thread = r.thread /\ s.position = r.position,
           c.thread \in Ids(e.threads) => /\ c.thread \in Ids(d.threads)
                                          /\ \A r \in TurnsOf(d, c.thread) : r.id \in Ids(e.turns)
    PROVE  CapsuleOf(e, m, c)
<1> DEFINE cited == {c.first, c.last} \cup c.provenance
<1>1. cited \subseteq 1 .. n.turn /\ n.turn <= m.turn /\ n.thread <= m.thread
  BY DEF CapsuleOf, Sound, Later
<1>2. c.thread \in 1 .. m.thread /\ {c.first, c.last} \subseteq 1 .. m.turn
  BY <1>1 DEF CapsuleOf
<1>3. Sound(e, m, c.provenance)
  BY SoundStays DEF CapsuleOf
<1>4. ASSUME NEW r \in e.turns, r.id \in cited PROVE r.thread = c.thread
  BY <1>1, <1>4 DEF CapsuleOf
<1>5. ASSUME c.thread \in Ids(e.threads)
      PROVE  /\ cited \subseteq Ids(e.turns)
             /\ \A r, f, l \in e.turns : r.id \in cited /\ f.id = c.first /\ l.id = c.last =>
                  f.position <= r.position /\ r.position <= l.position
  <2>1. c.thread \in Ids(d.threads) /\ \A r \in TurnsOf(d, c.thread) : r.id \in Ids(e.turns)
    BY <1>5
  <2>2. ASSUME NEW id \in cited PROVE id \in Ids(e.turns)
    <3>1. PICK r \in d.turns : r.id = id
      BY <2>1, <2>2 DEF CapsuleOf, Ids
    <3>2. r \in TurnsOf(d, c.thread)
      BY <2>2, <3>1 DEF CapsuleOf, TurnsOf
    <3> QED BY <2>1, <3>1, <3>2
  <2>3. ASSUME NEW r \in e.turns, NEW f \in e.turns, NEW l \in e.turns,
               r.id \in cited, f.id = c.first, l.id = c.last
        PROVE  f.position <= r.position /\ r.position <= l.position
    <3>1. PICK r0 \in d.turns : r0.id = r.id /\ r0.position = r.position
      BY <1>1, <2>3
    <3>2. PICK f0 \in d.turns : f0.id = f.id /\ f0.position = f.position
      BY <1>1, <2>3
    <3>3. PICK l0 \in d.turns : l0.id = l.id /\ l0.position = l.position
      BY <1>1, <2>3
    <3> QED BY <2>1, <2>3, <3>1, <3>2, <3>3 DEF CapsuleOf
  <2> QED BY <2>2, <2>3
<1> QED BY <1>2, <1>3, <1>4, <1>5 DEF CapsuleOf

-----------------------------------------------------------------------------
(* The transactions on the stores, one lemma each.                         *)

(* A thread without turns begins, with the conclusion it takes over.       *)
LEMMA ThreadStarted ==
    ASSUME NoneIsNull, NEW d, NEW n, Stores(d, n), NEW G, SoundOrNone(d, n, G),
           NEW e, e = PutThread(d, NewThread(n.thread + 1, G)),
           NEW m \in [thread : Nat, turn : Nat, capsule : Nat],
           m.thread = n.thread + 1, m.turn = n.turn, m.capsule = n.capsule
    PROVE  /\ Stores(e, m) /\ Later(d, n, e, m) /\ Only(d, e, n.thread + 1)
           /\ NewThread(n.thread + 1, G) \in e.threads
           /\ TurnsOf(e, n.thread + 1) = {}
           /\ e.turns = d.turns /\ e.capsules = d.capsules
           /\ d.threads \subseteq e.threads
<1> DEFINE t == NewThread(n.thread + 1, G)
<1>1. /\ Typed(d, n) /\ AreListed(d) /\ InOrder(d) /\ HaveThreads(d) /\ Conclusions(d, n)
      /\ Replies(d, n) /\ \A c \in d.capsules : CapsuleOf(d, n, c)
  BY DEF Stores, Rows
<1>2. /\ d \in [threads : SUBSET ThreadRow, turns : SUBSET TurnRow, capsules : SUBSET CapsuleRow]
      /\ n \in [thread : Nat, turn : Nat, capsule : Nat]
  BY <1>1 DEF Typed
<1>3. /\ m \in [thread : Nat, turn : Nat, capsule : Nat]
      /\ m.thread = n.thread + 1 /\ m.turn = n.turn /\ m.capsule = n.capsule
  BY <1>2
<1>4. G \in {None} \cup SUBSET Nat
  BY <1>2 DEF SoundOrNone, Sound
<1>5. /\ t.id = n.thread + 1 /\ t.state = "active" /\ t.turnIds = << >> /\ t.conclusion = G
      /\ t \in ThreadRow
  BY <1>2, <1>4 DEF NewThread, ThreadRow
<1> HIDE DEF t
<1>6. \A r \in d.threads : r.id \in 1 .. n.thread /\ r.id # t.id
  BY <1>1, <1>2, <1>5 DEF Typed, Ids
<1>7. e.threads = Put(d.threads, t) /\ e.turns = d.turns /\ e.capsules = d.capsules
  BY <1>2 DEF PutThread, t
<1>8. \A r : r \in e.threads <=> r = t \/ r \in d.threads
  BY <1>6, <1>7, PutIs
<1>9. e \in [threads : SUBSET ThreadRow, turns : SUBSET TurnRow, capsules : SUBSET CapsuleRow]
  <2>1. e = [d EXCEPT !.threads = Put(d.threads, t)]
    BY DEF PutThread, t
  <2>2. Put(d.threads, t) \in SUBSET ThreadRow
    BY <1>2, <1>5, <1>7, <1>8
  <2> QED BY <1>2, <2>1, <2>2
<1>10. Typed(e, m)
  <2>1. IsFiniteSet(e.threads) /\ Distinct(e.threads)
    BY <1>1, <1>7, PutIs DEF Typed
  <2>2. Ids(e.threads) \subseteq 1 .. m.thread
    BY <1>2, <1>3, <1>5, <1>6, <1>8 DEF Ids
  <2> QED BY <1>1, <1>3, <1>7, <1>9, <2>1, <2>2 DEF Typed
<1>11. Later(d, n, e, m)
  BY <1>2, <1>3, <1>7 DEF Later
<1>12. AreListed(e) /\ InOrder(e) /\ HaveThreads(e)
  <2>1. DOMAIN t.turnIds = {}
    BY <1>5
  <2> QED BY <1>1, <1>7, <1>8, <2>1 DEF AreListed, InOrder, HaveThreads
<1>13. Conclusions(e, m)
  BY <1>1, <1>2, <1>3, <1>5, <1>8, <1>11, SoundStays DEF Conclusions
<1>14. ASSUME NEW c \in e.capsules PROVE CapsuleOf(e, m, c)
  <2>1. c \in CapsuleRow /\ CapsuleOf(d, n, c)
    BY <1>1, <1>2, <1>7
  <2>2. c.thread \in Ids(e.threads) => c.thread \in Ids(d.threads)
    BY <1>2, <1>5, <1>8, <2>1 DEF Ids, CapsuleOf
  <2>3. \A r \in TurnsOf(d, c.thread) : r.id \in Ids(e.turns)
    BY <1>7 DEF TurnsOf, Ids
  <2> QED BY <1>2, <1>3, <1>7, <1>11, <2>1, <2>2, <2>3, CapsuleStays
<1>15. Replies(e, m)
  BY <1>1, <1>3, <1>7 DEF Replies
<1>16. TurnsOf(e, n.thread + 1) = {}
  BY <1>1, <1>5, <1>6, <1>7 DEF HaveThreads, TurnsOf
<1>17. Only(d, e, n.thread + 1)
  BY <1>5, <1>7, <1>8 DEF Only, TurnsOf
<1> QED
  BY <1>7, <1>8, <1>10, <1>11, <1>12, <1>13, <1>14, <1>15, <1>16, <1>17 DEF Stores, Rows, t

(* A thread changes its state or its conclusion.                           *)
LEMMA ThreadRewritten ==
    ASSUME NEW d, NEW n, Stores(d, n), NEW t \in d.threads,
           NEW row \in ThreadRow, row.id = t.id, row.turnIds = t.turnIds,
           SoundOrNone(d, n, row.conclusion),
           NEW e, e = PutThread(d, row)
    PROVE  /\ Stores(e, n) /\ Later(d, n, e, n) /\ Only(d, e, t.id)
           /\ row \in e.threads /\ e.turns = d.turns /\ e.capsules = d.capsules
<1>1. /\ Typed(d, n) /\ AreListed(d) /\ InOrder(d) /\ HaveThreads(d) /\ Conclusions(d, n)
      /\ Replies(d, n) /\ \A c \in d.capsules : CapsuleOf(d, n, c)
  BY DEF Stores, Rows
<1>2. /\ d \in [threads : SUBSET ThreadRow, turns : SUBSET TurnRow, capsules : SUBSET CapsuleRow]
      /\ n \in [thread : Nat, turn : Nat, capsule : Nat]
  BY <1>1 DEF Typed
<1>7. e.threads = Put(d.threads, row) /\ e.turns = d.turns /\ e.capsules = d.capsules
  BY <1>2 DEF PutThread
<1>8. \A r : r \in e.threads <=> r = row \/ (r \in d.threads /\ r.id # t.id)
  BY <1>7, PutIs
<1>9. e \in [threads : SUBSET ThreadRow, turns : SUBSET TurnRow, capsules : SUBSET CapsuleRow]
  <2>1. Put(d.threads, row) \in SUBSET ThreadRow
    BY <1>2, <1>7, <1>8
  <2> QED BY <1>2, <2>1 DEF PutThread
<1>6. Ids(e.threads) = Ids(d.threads)
  BY <1>8 DEF Ids
<1>10. Typed(e, n)
  BY <1>1, <1>6, <1>7, <1>9, PutIs DEF Typed
<1>11. Later(d, n, e, n)
  BY <1>2, <1>7 DEF Later
<1>12. AreListed(e) /\ InOrder(e)
  BY <1>1, <1>7, <1>8 DEF AreListed, InOrder
<1>16. HaveThreads(e)
  <2> SUFFICES ASSUME NEW r \in d.turns
               PROVE  \E u \in e.threads : u.id = r.thread /\ \E i \in DOMAIN u.turnIds : u.turnIds[i] = r.id
    BY <1>7 DEF HaveThreads
  <2>1. PICK u \in d.threads : u.id = r.thread /\ \E i \in DOMAIN u.turnIds : u.turnIds[i] = r.id
    BY <1>1 DEF HaveThreads
  <2>2. u.id = t.id => u = t
    BY <1>1 DEF Typed, Distinct
  <2> QED BY <1>8, <2>1, <2>2
<1>13. Conclusions(e, n)
  BY <1>1, <1>2, <1>8, <1>11, SoundStays DEF Conclusions
<1>14. ASSUME NEW c \in e.capsules PROVE CapsuleOf(e, n, c)
  <2>1. c \in CapsuleRow /\ CapsuleOf(d, n, c)
    BY <1>1, <1>2, <1>7
  <2>3. \A r \in TurnsOf(d, c.thread) : r.id \in Ids(e.turns)
    BY <1>7 DEF TurnsOf, Ids
  <2> QED BY <1>2, <1>6, <1>7, <1>11, <2>1, <2>3, CapsuleStays
<1>15. Replies(e, n)
  BY <1>1, <1>7 DEF Replies
<1>17. Only(d, e, t.id)
  BY <1>7, <1>8 DEF Only, TurnsOf
<1> QED
  BY <1>7, <1>8, <1>10, <1>11, <1>12, <1>13, <1>14, <1>15, <1>16, <1>17 DEF Stores, Rows

(* A turn that is in no list of a row yet is appended to it.               *)
LEMMA ListedIsDrawn ==
    ASSUME NEW d, NEW n, Rows(d, n), NEW t \in d.threads
    PROVE  /\ t.turnIds \in Seq(Nat)
           /\ \A i \in DOMAIN t.turnIds : t.turnIds[i] \in 1 .. n.turn
<1>1. t.turnIds \in Seq(Nat)
  BY DEF Rows, Typed, ThreadRow
<1>2. \A i \in DOMAIN t.turnIds : t.turnIds[i] \in 1 .. n.turn
  BY DEF Rows, Typed, AreListed, Ids
<1> QED BY <1>1, <1>2

LEMMA AppendsId ==
    ASSUME NEW ids \in Seq(Nat), NEW id \in Nat, \A i \in DOMAIN ids : ids[i] # id
    PROVE  /\ AppendTurnId(ids, id) = Append(ids, id)
           /\ Append(ids, id) \in Seq(Nat)
           /\ DOMAIN ids = 1 .. Len(ids) /\ Len(ids) \in Nat
           /\ DOMAIN Append(ids, id) = 1 .. Len(ids) + 1
           /\ \A i \in DOMAIN ids : Append(ids, id)[i] = ids[i]
           /\ Append(ids, id)[Len(ids) + 1] = id
<1>1. AppendTurnId(ids, id) = Append(ids, id)
  BY DEF AppendTurnId
<1> QED BY <1>1, AppendProperties, LenProperties

(* A new turn comes after every turn of its thread.                        *)
LEMMA TurnAdded ==
    ASSUME NEW d, NEW n, Rows(d, n), NEW t \in d.threads,
           NEW x \in TurnRow, x.id = n.turn + 1, x.thread = t.id,
           \A r \in TurnsOf(d, t.id) : r.position < x.position,
           NEW row \in ThreadRow, row.id = t.id, row.turnIds = AppendTurnId(t.turnIds, x.id),
           SoundOrNone(d, n, row.conclusion),
           NEW e, e = PersistPendingTurn(d, row, x),
           NEW m \in [thread : Nat, turn : Nat, capsule : Nat],
           m.thread = n.thread, m.turn = n.turn + 1, m.capsule = n.capsule
    PROVE  /\ Rows(e, m) /\ Later(d, n, e, m) /\ Only(d, e, t.id)
           /\ row \in e.threads /\ e.turns = d.turns \cup {x} /\ x \notin d.turns
           /\ e.threads = Put(d.threads, row) /\ e.capsules = d.capsules
           /\ TurnsOf(e, t.id) = TurnsOf(d, t.id) \cup {x}
<1>1. /\ Typed(d, n) /\ AreListed(d) /\ InOrder(d) /\ HaveThreads(d) /\ Conclusions(d, n)
      /\ \A c \in d.capsules : CapsuleOf(d, n, c)
  BY DEF Rows
<1>2. /\ d \in [threads : SUBSET ThreadRow, turns : SUBSET TurnRow, capsules : SUBSET CapsuleRow]
      /\ n \in [thread : Nat, turn : Nat, capsule : Nat]
  BY <1>1 DEF Typed
<1>3. /\ m \in [thread : Nat, turn : Nat, capsule : Nat]
      /\ m.thread = n.thread /\ m.turn = n.turn + 1 /\ m.capsule = n.capsule
  BY <1>2
<1>4. \A r \in d.turns : r.id \in 1 .. n.turn /\ r.id # x.id
  BY <1>1, <1>2 DEF Typed, Ids
<1>5. /\ row.turnIds = Append(t.turnIds, x.id) /\ row.turnIds \in Seq(Nat)
      /\ DOMAIN t.turnIds = 1 .. Len(t.turnIds) /\ Len(t.turnIds) \in Nat
      /\ DOMAIN row.turnIds = 1 .. Len(t.turnIds) + 1
      /\ \A i \in DOMAIN t.turnIds : row.turnIds[i] = t.turnIds[i]
      /\ row.turnIds[Len(t.turnIds) + 1] = x.id
  <2>1. t.turnIds \in Seq(Nat) /\ x.id \in Nat /\ \A i \in DOMAIN t.turnIds : t.turnIds[i] # x.id
    BY <1>2, ListedIsDrawn
  <2> DEFINE ids == t.turnIds  id == x.id
  <2>3. ids \in Seq(Nat) /\ id \in Nat /\ \A i \in DOMAIN ids : ids[i] # id
    BY <2>1
  <2>4. row.turnIds = AppendTurnId(ids, id)
    OBVIOUS
  <2> HIDE DEF ids, id
  <2>5. /\ AppendTurnId(ids, id) = Append(ids, id)
        /\ Append(ids, id) \in Seq(Nat)
        /\ DOMAIN ids = 1 .. Len(ids) /\ Len(ids) \in Nat
        /\ DOMAIN Append(ids, id) = 1 .. Len(ids) + 1
        /\ \A i \in DOMAIN ids : Append(ids, id)[i] = ids[i]
        /\ Append(ids, id)[Len(ids) + 1] = id
    BY <2>3, AppendsId
  <2> QED BY <2>4, <2>5 DEF ids, id
<1>6. e.threads = Put(d.threads, row) /\ e.turns = Put(d.turns, x) /\ e.capsules = d.capsules
  BY <1>2 DEF PersistPendingTurn
<1>7. \A r : r \in e.threads <=> r = row \/ (r \in d.threads /\ r.id # t.id)
  BY <1>6, PutIs
<1>8. e.turns = d.turns \cup {x} /\ x \notin d.turns
  BY <1>4, <1>6, PutIs
<1>9. e \in [threads : SUBSET ThreadRow, turns : SUBSET TurnRow, capsules : SUBSET CapsuleRow]
  <2>1. Put(d.threads, row) \in SUBSET ThreadRow /\ Put(d.turns, x) \in SUBSET TurnRow
    BY <1>2, <1>6, <1>7, <1>8
  <2> QED BY <1>2, <2>1 DEF PersistPendingTurn
<1>10. Ids(e.threads) = Ids(d.threads) /\ Ids(e.turns) = Ids(d.turns) \cup {n.turn + 1}
  BY <1>7, <1>8 DEF Ids
<1>11. Typed(e, m)
  <2>1. Ids(e.turns) \subseteq 1 .. m.turn
    BY <1>1, <1>2, <1>3, <1>10 DEF Typed
  <2> QED BY <1>1, <1>3, <1>6, <1>9, <1>10, <2>1, PutIs DEF Typed
<1>12. Later(d, n, e, m)
  BY <1>2, <1>3, <1>8 DEF Later
<1>13. \A u \in d.threads : u.id = t.id => u = t
  BY <1>1 DEF Typed, Distinct
<1>14. AreListed(e)
  <2> SUFFICES ASSUME NEW u \in e.threads, NEW i \in DOMAIN u.turnIds
               PROVE  \E r \in e.turns : r.id = u.turnIds[i] /\ r.thread = u.id
    BY DEF AreListed
  <2>1. CASE u = row /\ i = Len(t.turnIds) + 1
    BY <1>5, <1>8, <2>1
  <2>2. CASE u = row /\ i # Len(t.turnIds) + 1
    <3>1. i \in DOMAIN t.turnIds
      BY <1>5, <2>2
    <3> QED BY <1>1, <1>5, <1>8, <2>2, <3>1 DEF AreListed
  <2>3. CASE u # row
    BY <1>1, <1>7, <1>8, <2>3 DEF AreListed
  <2> QED BY <2>1, <2>2, <2>3
<1>21. /\ \A i \in DOMAIN row.turnIds : i # Len(t.turnIds) + 1 => i \in DOMAIN t.turnIds
       /\ \A i, j \in DOMAIN row.turnIds : i < j => i \in DOMAIN t.turnIds
  <2> DEFINE L == Len(t.turnIds)  D == DOMAIN t.turnIds  R == DOMAIN row.turnIds
  <2>1. D = 1 .. L /\ R = 1 .. L + 1 /\ L \in Nat
    BY <1>5
  <2> HIDE DEF L, D, R
  <2>2. (\A i \in R : i # L + 1 => i \in D) /\ (\A i, j \in R : i < j => i \in D)
    BY <2>1
  <2> QED BY <2>2 DEF L, D, R
<1>15. InOrder(e)
  <2> SUFFICES ASSUME NEW u \in e.threads, NEW i \in DOMAIN u.turnIds, NEW j \in DOMAIN u.turnIds, i < j,
                      NEW r \in e.turns, NEW s \in e.turns, r.id = u.turnIds[i], s.id = u.turnIds[j]
               PROVE  r.position < s.position
    BY DEF InOrder
  <2>1. CASE u = row /\ j = Len(t.turnIds) + 1
    <3>1. i \in DOMAIN t.turnIds /\ u.turnIds[i] = t.turnIds[i]
      BY <1>5, <1>21, <2>1
    <3>2. PICK q \in d.turns : q.id = t.turnIds[i] /\ q.thread = t.id
      BY <1>1, <3>1 DEF AreListed
    <3>3. r = q
      BY <1>4, <1>8, <1>11, <3>1, <3>2 DEF Typed, Distinct
    <3>4. s = x
      BY <1>4, <1>5, <1>8, <2>1
    <3> QED BY <3>2, <3>3, <3>4 DEF TurnsOf
  <2>2. CASE u = row /\ j # Len(t.turnIds) + 1
    <3>1. i \in DOMAIN t.turnIds /\ j \in DOMAIN t.turnIds
      BY <1>21, <2>2
    <3>2. r.id = t.turnIds[i] /\ s.id = t.turnIds[j]
      BY <1>5, <2>2, <3>1
    <3>3. r \in d.turns /\ s \in d.turns
      BY <1>2, <1>8, <3>1, <3>2, ListedIsDrawn
    <3> QED BY <1>1, <3>1, <3>2, <3>3 DEF InOrder
  <2>3. CASE u # row
    <3>1. u \in d.threads
      BY <1>7, <2>3
    <3>2. r \in d.turns /\ s \in d.turns
      BY <1>2, <1>8, <3>1, ListedIsDrawn
    <3> QED BY <1>1, <3>1, <3>2 DEF InOrder
  <2> QED BY <2>1, <2>2, <2>3
<1>16. HaveThreads(e)
  <2> SUFFICES ASSUME NEW r \in e.turns
               PROVE  \E u \in e.threads : u.id = r.thread /\ \E i \in DOMAIN u.turnIds : u.turnIds[i] = r.id
    BY DEF HaveThreads
  <2>1. CASE r = x
    BY <1>5, <1>7, <2>1
  <2>2. CASE r # x
    <3>1. PICK u \in d.threads : u.id = r.thread /\ \E i \in DOMAIN u.turnIds : u.turnIds[i] = r.id
      BY <1>1, <1>8, <2>2 DEF HaveThreads
    <3>2. CASE u.id = t.id
      <4>1. PICK i \in DOMAIN t.turnIds : t.turnIds[i] = r.id
        BY <1>13, <3>1, <3>2
      <4>2. i \in DOMAIN row.turnIds /\ row.turnIds[i] = r.id
        BY <1>5, <4>1
      <4> QED BY <1>7, <3>1, <3>2, <4>2
    <3>3. CASE u.id # t.id
      BY <1>7, <3>1, <3>3
    <3> QED BY <3>2, <3>3
  <2> QED BY <2>1, <2>2
<1>17. Conclusions(e, m)
  BY <1>1, <1>2, <1>3, <1>7, <1>12, SoundStays DEF Conclusions
<1>18. ASSUME NEW c \in e.capsules PROVE CapsuleOf(e, m, c)
  <2>1. c \in CapsuleRow /\ CapsuleOf(d, n, c)
    BY <1>1, <1>2, <1>6
  <2>2. \A r \in TurnsOf(d, c.thread) : r.id \in Ids(e.turns)
    BY <1>8 DEF TurnsOf, Ids
  <2>3. \A r \in e.turns : r.id \in 1 .. n.turn =>
               \E s \in d.turns : s.id = r.id /\ s.thread = r.thread /\ s.position = r.position
    BY <1>2, <1>8
  <2>4. c.thread \in Ids(e.threads) => c.thread \in Ids(d.threads)
    BY <1>10
  <2>5. c.thread \in Ids(e.threads) => /\ c.thread \in Ids(d.threads)
                                       /\ \A r \in TurnsOf(d, c.thread) : r.id \in Ids(e.turns)
    BY <2>2, <2>4
  <2>6. n \in [thread : Nat, turn : Nat, capsule : Nat] /\ m \in [thread : Nat, turn : Nat, capsule : Nat]
    BY <1>2, <1>3
  <2> QED BY <2>6, <1>12, <2>1, <2>3, <2>5, CapsuleStays
<1>19. Only(d, e, t.id)
  BY <1>7, <1>8 DEF Only, TurnsOf
<1>20. TurnsOf(e, t.id) = TurnsOf(d, t.id) \cup {x}
  BY <1>8 DEF TurnsOf
<1> QED
  BY <1>6, <1>7, <1>8, <1>11, <1>12, <1>14, <1>15, <1>16, <1>17, <1>18, <1>19, <1>20 DEF Rows

(* A turn of the user's that is not accepted changes its state.            *)
LEMMA TurnSettled ==
    ASSUME NEW d, NEW n, Rows(d, n), NEW r \in d.turns, ~Accepted(r),
           NEW x \in TurnRow, x.id = r.id, x.thread = r.thread, x.position = r.position,
           x.role = r.role, x.to = r.to,
           NEW e, e = PutTurn(d, x)
    PROVE  /\ Rows(e, n) /\ Later(d, n, e, n) /\ Only(d, e, r.thread)
           /\ e.turns = (d.turns \ {r}) \cup {x}
           /\ e.threads = d.threads /\ e.capsules = d.capsules
<1>1. /\ Typed(d, n) /\ AreListed(d) /\ InOrder(d) /\ HaveThreads(d) /\ Conclusions(d, n)
      /\ \A c \in d.capsules : CapsuleOf(d, n, c)
  BY DEF Rows
<1>2. /\ d \in [threads : SUBSET ThreadRow, turns : SUBSET TurnRow, capsules : SUBSET CapsuleRow]
      /\ n \in [thread : Nat, turn : Nat, capsule : Nat] /\ r \in TurnRow
  BY <1>1 DEF Typed
<1>4. e.threads = d.threads /\ e.turns = Put(d.turns, x) /\ e.capsules = d.capsules
  BY <1>2 DEF PutTurn
<1>5. \A q \in d.turns : q.id = r.id => q = r
  BY <1>1 DEF Typed, Distinct
<1>6. e.turns = (d.turns \ {r}) \cup {x}
  <2>1. \A q : q \in Put(d.turns, x) <=> q = x \/ (q \in d.turns /\ q.id # x.id)
    BY PutIs
  <2>2. \A q : q \in e.turns <=> q = x \/ (q \in d.turns /\ q # r)
    BY <1>4, <1>5, <2>1
  <2> QED BY <2>2
<1>7. \A q \in e.turns : \E s \in d.turns :
        /\ s.id = q.id /\ s.thread = q.thread /\ s.position = q.position
        /\ Accepted(s) => Accepted(q)
  BY <1>6
<1>8. e \in [threads : SUBSET ThreadRow, turns : SUBSET TurnRow, capsules : SUBSET CapsuleRow]
  <2>1. Put(d.turns, x) \in SUBSET TurnRow
    BY <1>2, <1>4, <1>6
  <2> QED BY <1>2, <2>1 DEF PutTurn
<1>9. Ids(e.turns) = Ids(d.turns)
  BY <1>6 DEF Ids
<1>10. Typed(e, n)
  BY <1>1, <1>4, <1>8, <1>9, PutIs DEF Typed
<1>11. Later(d, n, e, n)
  BY <1>2, <1>7 DEF Later
<1>17. \A s \in d.turns : \E q \in e.turns : q.id = s.id /\ q.thread = s.thread
  BY <1>6
<1>12. AreListed(e) /\ HaveThreads(e)
  <2>1. AreListed(e)
    BY <1>1, <1>4, <1>17 DEF AreListed
  <2>2. HaveThreads(e)
    <3> SUFFICES ASSUME NEW q \in e.turns
                 PROVE  \E u \in d.threads : u.id = q.thread /\ \E i \in DOMAIN u.turnIds : u.turnIds[i] = q.id
      BY <1>4 DEF HaveThreads
    <3>1. PICK s \in d.turns : s.id = q.id /\ s.thread = q.thread
      BY <1>7
    <3> QED BY <1>1, <3>1 DEF HaveThreads
  <2> QED BY <2>1, <2>2
<1>13. InOrder(e)
  <2> SUFFICES ASSUME NEW u \in d.threads, NEW i \in DOMAIN u.turnIds, NEW j \in DOMAIN u.turnIds, i < j,
                      NEW q \in e.turns, NEW s \in e.turns, q.id = u.turnIds[i], s.id = u.turnIds[j]
               PROVE  q.position < s.position
    BY <1>4 DEF InOrder
  <2>1. PICK q0 \in d.turns : q0.id = q.id /\ q0.position = q.position
    BY <1>7
  <2>2. PICK s0 \in d.turns : s0.id = s.id /\ s0.position = s.position
    BY <1>7
  <2> QED BY <1>1, <2>1, <2>2 DEF InOrder
<1>14. Conclusions(e, n)
  BY <1>1, <1>2, <1>4, <1>11, SoundStays DEF Conclusions
<1>15. ASSUME NEW c \in e.capsules PROVE CapsuleOf(e, n, c)
  <2>1. c \in CapsuleRow /\ CapsuleOf(d, n, c)
    BY <1>1, <1>2, <1>4
  <2>2. \A q \in TurnsOf(d, c.thread) : q.id \in Ids(e.turns)
    BY <1>9 DEF TurnsOf, Ids
  <2> QED BY <1>2, <1>4, <1>7, <1>11, <2>1, <2>2, CapsuleStays
<1>16. Only(d, e, r.thread)
  BY <1>4, <1>6 DEF Only, TurnsOf
<1> QED
  BY <1>4, <1>6, <1>10, <1>11, <1>12, <1>13, <1>14, <1>15, <1>16 DEF Rows

(* Turns that answer nothing and that nothing has answered come and go     *)
(* without a reply being lost.                                             *)
LEMMA UnansweredTurn ==
    ASSUME NoneIsNull, NEW d, NEW n, Stores(d, n), NEW x \in TurnRow, ~Accepted(x), x.to = None,
           NEW r, r.id = x.id, r.id \in Nat,
           r \in d.turns => r.role = "user" /\ x.role = "user" /\ r.state # "accepted",
           r \notin d.turns => x.id \notin 1 .. n.turn,
           NEW e, e.turns = (d.turns \ {r}) \cup {x},
           NEW m, m.turn \in Nat, n.turn <= m.turn
    PROVE  Replies(e, m)
<1>1. /\ \A s \in d.turns : s \in TurnRow /\ s.to \in {None} \cup 1 .. n.turn /\ (s.role = "user" => s.to = None)
      /\ \A q, s \in d.turns : s.to = q.id => s.thread = q.thread
      /\ n.turn \in Nat
  BY DEF Stores, Rows, Typed, Replies
<1>2. \A s \in d.turns : s.to # x.id
  <2>1. CASE r \in d.turns
    BY <2>1 DEF Stores, Replies
  <2>2. CASE r \notin d.turns
    BY <1>1, <2>2 DEF NoneIsNull, TurnRow
  <2> QED BY <2>1, <2>2
<1>3. None \notin Nat /\ x.id \in Nat
  BY DEF NoneIsNull, TurnRow
<1>4. \A s \in e.turns : s.to \in {None} \cup 1 .. m.turn /\ (s.role = "user" => s.to = None)
  BY <1>1
<1>5. ASSUME NEW q \in e.turns, NEW s \in e.turns, s.to = q.id PROVE s.thread = q.thread
  <2>1. q.id \in Nat
    BY <1>1 DEF TurnRow
  <2>2. s # x
    BY <1>3, <1>5, <2>1
  <2>3. q # x
    BY <1>2, <1>5, <2>2
  <2> QED BY <1>1, <1>5, <2>2, <2>3
<1>6. ASSUME NEW q \in e.turns, q.role = "user"
      PROVE  IF q.state = "accepted" THEN \E s \in e.turns : \A y \in e.turns : y.to = q.id <=> y = s
                                     ELSE \A s \in e.turns : s.to # q.id
  <2>1. CASE q = x
    BY <1>2, <1>3, <1>6, <2>1 DEF Accepted
  <2>2. CASE q # x
    <3>1. q \in d.turns /\ q.id \in Nat
      BY <1>1, <2>2 DEF TurnRow
    <3>2. CASE q.state # "accepted"
      <4>1. \A s \in d.turns : s.to # q.id
        BY <1>6, <3>1, <3>2 DEF Stores, Replies
      <4> QED BY <1>3, <3>1, <3>2, <4>1
    <3>3. CASE q.state = "accepted"
      <4>1. PICK s \in d.turns : \A y \in d.turns : y.to = q.id <=> y = s
        BY <1>6, <3>1, <3>3 DEF Stores, Replies
      <4>2. s # r
        BY <1>1, <1>3, <3>1, <4>1
      <4>3. s \in e.turns /\ \A y \in e.turns : y.to = q.id <=> y = s
        BY <1>3, <1>2, <3>1, <4>1, <4>2
      <4> QED BY <3>3, <4>3
    <3> QED BY <3>2, <3>3
  <2> QED BY <2>1, <2>2
<1> QED BY <1>4, <1>5, <1>6 DEF Replies

(* The user's turn is accepted together with the only reply to it.         *)
LEMMA AnsweredTurn ==
    ASSUME NoneIsNull, NEW d, NEW n, Stores(d, n),
           NEW x \in TurnRow, Accepted(x), x.to = None,
           NEW y \in TurnRow, y.role = "specular", y.to = x.id, y.thread = x.thread,
           NEW r, r.id = x.id,
           \A s \in d.turns : s.id = x.id => s = r /\ s.role = "user" /\ s.state # "accepted",
           \A s \in d.turns : s.id # y.id,
           r \notin d.turns => x.id \notin 1 .. n.turn,
           NEW e, e.turns = ((d.turns \ {r}) \cup {x}) \cup {y},
           NEW m, m.turn \in Nat, n.turn <= m.turn, x.id \in 1 .. m.turn, y.id \notin 1 .. n.turn, y.id # x.id
    PROVE  Replies(e, m)
<1>1. /\ \A s \in d.turns : s \in TurnRow /\ s.to \in {None} \cup 1 .. n.turn /\ (s.role = "user" => s.to = None)
      /\ \A q, s \in d.turns : s.to = q.id => s.thread = q.thread
      /\ n.turn \in Nat
  BY DEF Stores, Rows, Typed, Replies
<1>2. None \notin Nat /\ x.id \in Nat /\ y.id \in Nat
  BY DEF NoneIsNull, TurnRow
<1>3. \A s \in d.turns : s.to # x.id
  <2>1. CASE r \in d.turns
    BY <2>1 DEF Stores, Replies
  <2>2. CASE r \notin d.turns
    BY <1>1, <1>2, <2>2
  <2> QED BY <2>1, <2>2
<1>4. \A s \in d.turns : s.to # y.id
  BY <1>1, <1>2
<1>5. \A s \in e.turns : s.to \in {None} \cup 1 .. m.turn /\ (s.role = "user" => s.to = None)
  BY <1>1 DEF Accepted
<1>6. ASSUME NEW q \in e.turns, NEW s \in e.turns, s.to = q.id PROVE s.thread = q.thread
  <2>1. q.id \in Nat
    BY <1>1 DEF TurnRow
  <2>2. s # x
    BY <1>2, <1>6, <2>1
  <2>3. CASE s = y
    BY <1>6, <2>3, <1>2
  <2>4. CASE s # y
    BY <1>1, <1>3, <1>4, <1>6, <2>2, <2>4
  <2> QED BY <2>3, <2>4
<1>7. ASSUME NEW q \in e.turns, q.role = "user"
      PROVE  IF q.state = "accepted" THEN \E s \in e.turns : \A z \in e.turns : z.to = q.id <=> z = s
                                     ELSE \A s \in e.turns : s.to # q.id
  <2>1. CASE q = x
    <3>1. y \in e.turns /\ \A z \in e.turns : z.to = q.id <=> z = y
      BY <1>2, <1>3, <2>1
    <3> QED BY <2>1, <3>1 DEF Accepted
  <2>2. CASE q # x
    <3>1. q \in d.turns /\ q.id \in Nat /\ q.id # x.id
      BY <1>1, <1>7, <2>2 DEF TurnRow
    <3>2. CASE q.state # "accepted"
      <4>1. \A s \in d.turns : s.to # q.id
        BY <1>7, <3>1, <3>2 DEF Stores, Replies
      <4> QED BY <1>2, <3>1, <3>2, <4>1
    <3>3. CASE q.state = "accepted"
      <4>1. PICK s \in d.turns : \A z \in d.turns : z.to = q.id <=> z = s
        BY <1>7, <3>1, <3>3 DEF Stores, Replies
      <4>2. s # r
        BY <1>1, <1>2, <3>1, <4>1
      <4>3. s \in e.turns /\ \A z \in e.turns : z.to = q.id <=> z = s
        BY <1>2, <3>1, <4>1, <4>2
      <4> QED BY <3>3, <4>3
    <3> QED BY <3>2, <3>3
  <2> QED BY <2>1, <2>2
<1> QED BY <1>5, <1>6, <1>7 DEF Replies

(* A thread goes with its turns, and nothing of another thread's does.     *)
LEMMA ThreadDeleted ==
    ASSUME NEW d, NEW n, Stores(d, n), NEW a, NEW e, e = DeleteThread(d, a)
    PROVE  /\ Stores(e, n) /\ Later(d, n, e, n) /\ Only(d, e, a)
           /\ \A t \in e.threads : t.id # a
           /\ TurnsOf(e, a) = {} /\ e.capsules = d.capsules
<1>1. /\ Typed(d, n) /\ AreListed(d) /\ InOrder(d) /\ HaveThreads(d) /\ Conclusions(d, n)
      /\ Replies(d, n) /\ \A c \in d.capsules : CapsuleOf(d, n, c)
  BY DEF Stores, Rows
<1>2. /\ d \in [threads : SUBSET ThreadRow, turns : SUBSET TurnRow, capsules : SUBSET CapsuleRow]
      /\ n \in [thread : Nat, turn : Nat, capsule : Nat]
  BY <1>1 DEF Typed
<1>3. /\ e.threads = Remove(d.threads, a) /\ e.turns = d.turns \ TurnsOf(d, a) /\ e.capsules = d.capsules
      /\ e \in [threads : SUBSET ThreadRow, turns : SUBSET TurnRow, capsules : SUBSET CapsuleRow]
  <2>1. Remove(d.threads, a) \in SUBSET ThreadRow /\ d.turns \ TurnsOf(d, a) \in SUBSET TurnRow
    BY <1>2 DEF Remove
  <2> QED BY <1>2, <2>1 DEF DeleteThread
<1>4. /\ \A t : t \in e.threads <=> t \in d.threads /\ t.id # a
      /\ \A r : r \in e.turns <=> r \in d.turns /\ r.thread # a
  BY <1>3 DEF Remove, TurnsOf
<1>5. Typed(e, n)
  <2>1. e.threads \subseteq d.threads /\ e.turns \subseteq d.turns
    BY <1>4
  <2>2. IsFiniteSet(e.threads) /\ IsFiniteSet(e.turns)
    BY <1>1, <2>1, FS_Subset DEF Typed
  <2>3. Distinct(e.threads) /\ Distinct(e.turns) /\ Distinct(e.capsules)
    BY <1>1, <1>3, <2>1 DEF Typed, Distinct
  <2>4. Ids(e.threads) \subseteq Ids(d.threads) /\ Ids(e.turns) \subseteq Ids(d.turns)
    BY <2>1 DEF Ids
  <2> QED BY <1>1, <1>2, <1>3, <2>2, <2>3, <2>4 DEF Typed
<1>6. Later(d, n, e, n)
  BY <1>2, <1>4 DEF Later
<1>7. AreListed(e) /\ InOrder(e) /\ HaveThreads(e)
  <2>1. AreListed(e)
    BY <1>1, <1>4 DEF AreListed
  <2>2. InOrder(e)
    BY <1>1, <1>4 DEF InOrder
  <2>3. HaveThreads(e)
    BY <1>1, <1>4 DEF HaveThreads
  <2> QED BY <2>1, <2>2, <2>3
<1>8. Conclusions(e, n)
  BY <1>1, <1>2, <1>4, <1>6, SoundStays DEF Conclusions
<1>9. ASSUME NEW c \in e.capsules PROVE CapsuleOf(e, n, c)
  <2>1. c \in CapsuleRow /\ CapsuleOf(d, n, c)
    BY <1>1, <1>2, <1>3
  <2>2. \A r \in e.turns : r.id \in 1 .. n.turn =>
               \E s \in d.turns : s.id = r.id /\ s.thread = r.thread /\ s.position = r.position
    BY <1>4
  <2>3. ASSUME c.thread \in Ids(e.threads)
        PROVE  c.thread \in Ids(d.threads) /\ \A r \in TurnsOf(d, c.thread) : r.id \in Ids(e.turns)
    BY <1>4, <2>3 DEF Ids, TurnsOf
  <2> QED BY <1>2, <1>6, <2>1, <2>2, <2>3, CapsuleStays
<1>10. Replies(e, n)
  <2>1. \A q, s \in e.turns : s.to = q.id => s.thread = q.thread
    BY <1>1, <1>4 DEF Replies
  <2>2. ASSUME NEW q \in e.turns, q.role = "user"
        PROVE  IF q.state = "accepted" THEN \E s \in e.turns : \A z \in e.turns : z.to = q.id <=> z = s
                                       ELSE \A s \in e.turns : s.to # q.id
    <3>1. CASE q.state = "accepted"
      <4>1. PICK s \in d.turns : \A z \in d.turns : z.to = q.id <=> z = s
        BY <1>1, <1>4, <2>2, <3>1 DEF Replies
      <4>2. s \in e.turns
        BY <1>1, <1>4, <4>1 DEF Replies
      <4> QED BY <1>4, <3>1, <4>1, <4>2
    <3>2. CASE q.state # "accepted"
      BY <1>1, <1>4, <2>2, <3>2 DEF Replies
    <3> QED BY <3>1, <3>2
  <2>3. \A s \in e.turns : s.to \in {None} \cup 1 .. n.turn /\ (s.role = "user" => s.to = None)
    BY <1>1, <1>4 DEF Replies
  <2> QED BY <2>1, <2>2, <2>3 DEF Replies
<1>11. Only(d, e, a) /\ TurnsOf(e, a) = {}
  BY <1>4 DEF Only, TurnsOf
<1> QED
  BY <1>3, <1>4, <1>5, <1>6, <1>7, <1>8, <1>9, <1>10, <1>11 DEF Stores, Rows

(* Capsules come, change and go.                                           *)
LEMMA CapsulesChanged ==
    ASSUME NEW d, NEW n, Stores(d, n), NEW C \in SUBSET CapsuleRow, Distinct(C),
           \A c \in C : CapsuleOf(d, n, c),
           NEW m \in [thread : Nat, turn : Nat, capsule : Nat],
           m.thread = n.thread, m.turn = n.turn, Ids(C) \subseteq 1 .. m.capsule,
           NEW e, e = [d EXCEPT !.capsules = C]
    PROVE  /\ Stores(e, m) /\ Later(d, n, e, m)
           /\ e.threads = d.threads /\ e.turns = d.turns /\ e.capsules = C
<1>1. /\ Typed(d, n) /\ AreListed(d) /\ InOrder(d) /\ HaveThreads(d) /\ Conclusions(d, n)
      /\ Replies(d, n) /\ \A c \in d.capsules : CapsuleOf(d, n, c)
  BY DEF Stores, Rows
<1>2. /\ d \in [threads : SUBSET ThreadRow, turns : SUBSET TurnRow, capsules : SUBSET CapsuleRow]
      /\ n \in [thread : Nat, turn : Nat, capsule : Nat]
  BY <1>1 DEF Typed
<1>3. /\ e.threads = d.threads /\ e.turns = d.turns /\ e.capsules = C
      /\ e \in [threads : SUBSET ThreadRow, turns : SUBSET TurnRow, capsules : SUBSET CapsuleRow]
  BY <1>2
<1>4. Typed(e, m)
  BY <1>1, <1>3 DEF Typed
<1>5. Later(d, n, e, m)
  BY <1>2, <1>3 DEF Later
<1>6. AreListed(e) /\ InOrder(e) /\ HaveThreads(e)
  BY <1>1, <1>3 DEF AreListed, InOrder, HaveThreads
<1>7. Conclusions(e, m) /\ Replies(e, m)
  BY <1>1, <1>2, <1>3, <1>5, SoundStays DEF Conclusions, Replies
<1>8. \A c \in C : CapsuleOf(e, m, c)
  BY <1>1, <1>3 DEF CapsuleOf, Sound
<1> QED BY <1>3, <1>4, <1>5, <1>6, <1>7, <1>8 DEF Stores, Rows

LEMMA NothingStored ==
    ASSUME NEW d, NEW n \in [thread : Nat, turn : Nat, capsule : Nat]
    PROVE  Stores(EmptyDb, n) /\ Later(d, n, EmptyDb, n)
<1>1. EmptyDb.threads = {} /\ EmptyDb.turns = {} /\ EmptyDb.capsules = {}
  BY DEF EmptyDb
<1>2. Typed(EmptyDb, n)
  <2>1. IsFiniteSet({})
    BY FS_EmptySet
  <2> QED BY <1>1, <2>1 DEF Typed, EmptyDb, Ids, Distinct
<1> QED
  BY <1>1, <1>2
  DEF Stores, Rows, AreListed, InOrder, HaveThreads, Conclusions, Replies, Later

-----------------------------------------------------------------------------
(* The turns of a thread have a first and a last one.                      *)
LEMMA TurnsAreBounded ==
    ASSUME NEW d, NEW n, Rows(d, n), NEW a
    PROVE  \E b \in Nat : \A r \in TurnsOf(d, a) : r.position <= b
<1>1. /\ d \in [threads : SUBSET ThreadRow, turns : SUBSET TurnRow, capsules : SUBSET CapsuleRow]
      /\ AreListed(d) /\ InOrder(d) /\ HaveThreads(d) /\ Distinct(d.threads) /\ Distinct(d.turns)
  BY DEF Rows, Typed
<1>2. CASE TurnsOf(d, a) = {}
  BY <1>2
<1>3. CASE TurnsOf(d, a) # {}
  <2>1. PICK t \in d.threads : t.id = a
    BY <1>1, <1>3 DEF TurnsOf, HaveThreads
  <2>2. \A r \in TurnsOf(d, a) : \E i \in DOMAIN t.turnIds : t.turnIds[i] = r.id
    BY <1>1, <2>1 DEF TurnsOf, HaveThreads, Distinct
  <2>3. t.turnIds \in Seq(Nat) /\ DOMAIN t.turnIds = 1 .. Len(t.turnIds) /\ Len(t.turnIds) \in Nat
    BY <1>1, <2>1 DEF ThreadRow
  <2>4. Len(t.turnIds) \in DOMAIN t.turnIds
    BY <1>3, <2>2, <2>3
  <2>5. PICK q \in d.turns : q.id = t.turnIds[Len(t.turnIds)] /\ q.thread = t.id
    BY <1>1, <2>1, <2>4 DEF AreListed
  <2>6. q.position \in Nat
    BY <1>1, <2>5 DEF TurnRow
  <2>7. ASSUME NEW r \in TurnsOf(d, a) PROVE r.position <= q.position
    <3>1. PICK i \in DOMAIN t.turnIds : t.turnIds[i] = r.id
      BY <2>2
    <3>2. r \in d.turns /\ r.position \in Nat
      BY <1>1 DEF TurnsOf, TurnRow
    <3>3. CASE i = Len(t.turnIds)
      <4>1. r = q
        BY <1>1, <2>5, <3>1, <3>2, <3>3 DEF Distinct
      <4> QED BY <2>6, <4>1
    <3>4. CASE i # Len(t.turnIds)
      <4>1. i < Len(t.turnIds)
        BY <2>3, <3>4
      <4>2. r.position < q.position
        BY <1>1, <2>1, <2>4, <2>5, <3>1, <3>2, <4>1 DEF InOrder
      <4> QED BY <2>6, <3>2, <4>2
    <3> QED BY <3>3, <3>4
  <2> QED BY <2>6, <2>7
<1> QED BY <1>2, <1>3

LEMMA LeastOf ==
    ASSUME NEW S \in SUBSET Nat, S # {}
    PROVE  \E x \in S : \A y \in S : x <= y
<1> DEFINE R == OpToRel(<, Nat)
<1>1. IsWellFoundedOn(R, Nat)
  BY NatLessThanWellFounded
<1>2. R = {ss \in Nat \X Nat : ss[1] < ss[2]}
  BY DEF OpToRel
<1>3. \A x, y \in Nat : x < y => <<x, y>> \in R
  BY <1>2
<1> HIDE DEF R
<1>4. PICK x \in S : \A y \in S : <<y, x>> \notin R
  BY <1>1, WFMin
<1>5. ASSUME NEW y \in S PROVE x <= y
  <2>1. x \in Nat /\ y \in Nat
    OBVIOUS
  <2>2. ~(y < x)
    BY <1>3, <1>4, <2>1
  <2> QED BY <2>1, <2>2
<1> QED BY <1>5

LEMMA GreatestOf ==
    ASSUME NEW S \in SUBSET Nat, S # {}, NEW b \in Nat, \A y \in S : y <= b
    PROVE  \E x \in S : \A y \in S : y <= x
<1> DEFINE D == {b - y : y \in S}
<1>5. (\A y \in D : \E x \in S : y = b - x) /\ (\A x \in S : b - x \in D)
  BY Zenon
<1> HIDE DEF D
<1>6. \A y \in S : b - y \in Nat
  OBVIOUS
<1>1. D \in SUBSET Nat /\ D # {}
  BY <1>5, <1>6
<1>2. PICK z \in D : \A w \in D : z <= w
  BY <1>1, LeastOf
<1>3. PICK x \in S : z = b - x
  BY <1>5
<1>4. \A y \in S : b - x <= b - y
  BY <1>2, <1>3, <1>5
<1> QED BY <1>4

LEMMA LatestIs ==
    ASSUME NEW d, NEW n, Rows(d, n), NEW a, NEW rows \in SUBSET TurnsOf(d, a), rows # {}
    PROVE  /\ Latest(rows) \in rows /\ \A s \in rows : s.position <= Latest(rows).position
           /\ First(rows) \in rows /\ \A s \in rows : First(rows).position <= s.position
           /\ NextPosition(rows) \in Nat
           /\ \A s \in rows : s.position < NextPosition(rows)
<1>1. \A r \in rows : r.position \in Nat
  BY DEF TurnsOf, Rows, Typed, TurnRow
<1>2. PICK b \in Nat : \A r \in rows : r.position <= b
  BY TurnsAreBounded
<1>3. Positions(rows) \in SUBSET Nat /\ Positions(rows) # {} /\ \A y \in Positions(rows) : y <= b
  BY <1>1, <1>2 DEF Positions
<1>4. PICK x \in Positions(rows) : \A y \in Positions(rows) : y <= x
  BY <1>3, GreatestOf
<1>5. PICK w \in Positions(rows) : \A y \in Positions(rows) : w <= y
  BY <1>3, LeastOf
<1>6. /\ \E r \in rows : \A s \in rows : s.position <= r.position
      /\ \E r \in rows : \A s \in rows : r.position <= s.position
  BY <1>4, <1>5 DEF Positions
<1> DEFINE g == CHOOSE p \in Positions(rows) : \A q \in Positions(rows) : q <= p
<1>7. g \in Positions(rows) /\ \A q \in Positions(rows) : q <= g
  BY <1>4
<1>9. NextPosition(rows) = 1 + g
  BY DEF NextPosition
<1> HIDE DEF g
<1>8. NextPosition(rows) \in Nat /\ \A s \in rows : s.position < NextPosition(rows)
  <2>1. g \in Nat /\ \A s \in rows : s.position <= g
    BY <1>3, <1>7 DEF Positions
  <2> QED BY <1>1, <1>9, <2>1
<1> QED BY <1>6, <1>8 DEF Latest, First

LEMMA NextPositionIs ==
    ASSUME NEW d, NEW n, Rows(d, n), NEW a
    PROVE  /\ NextPosition(TurnsOf(d, a)) \in Nat
           /\ \A s \in TurnsOf(d, a) : s.position < NextPosition(TurnsOf(d, a))
<1>1. CASE TurnsOf(d, a) = {}
  BY <1>1 DEF NextPosition
<1>2. CASE TurnsOf(d, a) # {}
  BY <1>2, LatestIs
<1> QED BY <1>1, <1>2

-----------------------------------------------------------------------------
(* What the calls store.                                                   *)
LEMMA StoresAreTyped ==
    ASSUME NEW d, NEW n, Stores(d, n)
    PROVE  /\ d \in [threads : SUBSET ThreadRow, turns : SUBSET TurnRow, capsules : SUBSET CapsuleRow]
           /\ n \in [thread : Nat, turn : Nat, capsule : Nat]
           /\ Distinct(d.threads) /\ Distinct(d.turns) /\ Distinct(d.capsules)
           /\ \A t \in d.threads : t \in ThreadRow /\ t.id \in 1 .. n.thread
           /\ \A r \in d.turns : r \in TurnRow /\ r.id \in 1 .. n.turn
           /\ \A c \in d.capsules : c \in CapsuleRow /\ c.id \in 1 .. n.capsule
           /\ \A t \in d.threads : SoundOrNone(d, n, t.conclusion)
           /\ Rows(d, n)
BY DEF Stores, Rows, Typed, Ids, Conclusions

LEMMA RowAppended ==
    ASSUME NEW t \in ThreadRow, NEW id \in Nat
    PROVE  LET row == [t EXCEPT !.turnIds = AppendTurnId(@, id)]
           IN  /\ row \in ThreadRow /\ row.id = t.id /\ row.state = t.state
               /\ row.conclusion = t.conclusion /\ row.turnIds = AppendTurnId(t.turnIds, id)
<1> DEFINE ids == t.turnIds
<1>1. ids \in Seq(Nat)
  BY DEF ThreadRow
<1>2. AppendTurnId(ids, id) \in Seq(Nat)
  <2> HIDE DEF ids
  <2>1. Append(ids, id) \in Seq(Nat)
    BY <1>1, AppendProperties
  <2> QED BY <1>1, <2>1 DEF AppendTurnId
<1> DEFINE added == AppendTurnId(ids, id)
<1>3. added \in Seq(Nat)
  BY <1>2
<1> HIDE DEF added
<1>4. [t EXCEPT !.turnIds = added] \in ThreadRow
  BY <1>3 DEF ThreadRow
<1>5. LET row == [t EXCEPT !.turnIds = added]
      IN  /\ row.id = t.id /\ row.state = t.state
          /\ row.conclusion = t.conclusion /\ row.turnIds = added
  BY DEF ThreadRow
<1> QED BY <1>4, <1>5 DEF added

(* The row of the thread that already lists a turn stays as it is.         *)
LEMMA AlreadyListed ==
    ASSUME NEW d, NEW n, Stores(d, n), NEW t \in d.threads, NEW r \in d.turns, r.thread = t.id
    PROVE  AppendTurnId(t.turnIds, r.id) = t.turnIds
BY DEF Stores, Rows, Typed, Distinct, HaveThreads, AppendTurnId

(* A thread's row with a turn it lists now.                                *)
Listing(t, id) == [t EXCEPT !.turnIds = AppendTurnId(@, id)]

LEMMA PendingStored ==
    ASSUME NoneIsNull, NEW d, NEW n, Stores(d, n), NEW t \in d.threads,
           NEW x, x = UserTurn(n.turn + 1, t.id, NextPosition(TurnsOf(d, t.id)), "pending"),
           NEW row, row = Listing(t, x.id),
           NEW e, e = PersistPendingTurn(d, row, x),
           NEW m \in [thread : Nat, turn : Nat, capsule : Nat],
           m.thread = n.thread, m.turn = n.turn + 1, m.capsule = n.capsule
    PROVE  /\ Stores(e, m) /\ Later(d, n, e, m) /\ Only(d, e, t.id)
           /\ row \in e.threads /\ row.id = t.id /\ row.state = t.state /\ row.conclusion = t.conclusion
           /\ x \in TurnRow /\ x \in e.turns /\ x.thread = t.id /\ x.role = "user" /\ x.state = "pending"
           /\ x.id = n.turn + 1
           /\ TurnsOf(e, t.id) = TurnsOf(d, t.id) \cup {x} /\ e.capsules = d.capsules
<1>1. /\ n \in [thread : Nat, turn : Nat, capsule : Nat] /\ Rows(d, n) /\ t \in ThreadRow
      /\ SoundOrNone(d, n, t.conclusion) /\ \A r \in d.turns : r.id \in 1 .. n.turn
      /\ d \in [threads : SUBSET ThreadRow, turns : SUBSET TurnRow, capsules : SUBSET CapsuleRow]
  BY StoresAreTyped
<1>2. /\ NextPosition(TurnsOf(d, t.id)) \in Nat
      /\ \A r \in TurnsOf(d, t.id) : r.position < NextPosition(TurnsOf(d, t.id))
  BY <1>1, NextPositionIs
<1>3. /\ x \in TurnRow /\ x.id = n.turn + 1 /\ x.thread = t.id /\ x.role = "user" /\ x.state = "pending"
      /\ x.to = None /\ x.position = NextPosition(TurnsOf(d, t.id))
  BY <1>1, <1>2 DEF UserTurn, TurnRow, ThreadRow
<1>4. /\ row \in ThreadRow /\ row.id = t.id /\ row.state = t.state
      /\ row.conclusion = t.conclusion /\ row.turnIds = AppendTurnId(t.turnIds, x.id)
  <2>1. x.id \in Nat
    BY <1>1, <1>3
  <2> QED BY <1>1, <2>1, RowAppended DEF Listing
<1>7. /\ Rows(e, m) /\ Later(d, n, e, m) /\ Only(d, e, t.id)
      /\ row \in e.threads /\ e.turns = d.turns \cup {x} /\ x \notin d.turns
      /\ e.capsules = d.capsules
      /\ TurnsOf(e, t.id) = TurnsOf(d, t.id) \cup {x}
  BY <1>1, <1>2, <1>3, <1>4, TurnAdded
<1>8. Replies(e, m)
  <2>1. e.turns = (d.turns \ {x}) \cup {x} /\ x.id \in Nat /\ x.id \notin 1 .. n.turn /\ ~Accepted(x)
    BY <1>1, <1>3, <1>7 DEF Accepted
  <2>2. m.turn \in Nat /\ n.turn <= m.turn
    BY <1>1
  <2> QED BY <1>3, <1>7, <2>1, <2>2, UnansweredTurn
<1> QED BY <1>3, <1>4, <1>7, <1>8 DEF Stores

RowWith(t, id, G) == [t EXCEPT !.turnIds = AppendTurnId(@, id), !.conclusion = G]

LEMMA SpecularStored ==
    ASSUME NoneIsNull, NEW d, NEW n, Stores(d, n), NEW t \in d.threads, NEW G, SoundOrNone(d, n, G),
           NEW x, x = SpecularTurn(n.turn + 1, t.id, NextPosition(TurnsOf(d, t.id)), None),
           NEW row, row = RowWith(t, x.id, G),
           NEW e, e = PersistSpecularTurn(d, row, x),
           NEW m \in [thread : Nat, turn : Nat, capsule : Nat],
           m.thread = n.thread, m.turn = n.turn + 1, m.capsule = n.capsule
    PROVE  /\ Stores(e, m) /\ Later(d, n, e, m) /\ Only(d, e, t.id)
           /\ row \in e.threads /\ row.id = t.id /\ row.state = t.state /\ row.conclusion = G
           /\ x \in TurnRow /\ x.id = n.turn + 1
           /\ TurnsOf(e, t.id) = TurnsOf(d, t.id) \cup {x} /\ e.capsules = d.capsules
<1>1. /\ n \in [thread : Nat, turn : Nat, capsule : Nat] /\ Rows(d, n) /\ t \in ThreadRow
      /\ \A r \in d.turns : r.id \in 1 .. n.turn
      /\ d \in [threads : SUBSET ThreadRow, turns : SUBSET TurnRow, capsules : SUBSET CapsuleRow]
  BY StoresAreTyped
<1>2. /\ NextPosition(TurnsOf(d, t.id)) \in Nat
      /\ \A r \in TurnsOf(d, t.id) : r.position < NextPosition(TurnsOf(d, t.id))
  BY <1>1, NextPositionIs
<1>3. /\ x \in TurnRow /\ x.id = n.turn + 1 /\ x.thread = t.id /\ x.role = "specular"
      /\ x.to = None /\ x.position = NextPosition(TurnsOf(d, t.id))
  BY <1>1, <1>2 DEF SpecularTurn, TurnRow, ThreadRow
<1>4. /\ row \in ThreadRow /\ row.id = t.id /\ row.state = t.state
      /\ row.conclusion = G /\ row.turnIds = AppendTurnId(t.turnIds, x.id)
  <2> DEFINE row1 == [t EXCEPT !.turnIds = AppendTurnId(@, x.id)]
  <2>1. x.id \in Nat
    BY <1>1, <1>3
  <2>2. /\ row1 \in ThreadRow /\ row1.id = t.id /\ row1.state = t.state
        /\ row1.turnIds = AppendTurnId(t.turnIds, x.id)
    BY <1>1, <2>1, RowAppended
  <2>3. row = [row1 EXCEPT !.conclusion = G]
    BY DEF RowWith
  <2>4. G \in {None} \cup SUBSET Nat
    BY <1>1 DEF SoundOrNone, Sound
  <2> HIDE DEF row1
  <2> QED BY <2>2, <2>3, <2>4 DEF ThreadRow
<1>5. e = PersistPendingTurn(d, row, x)
  BY DEF PersistSpecularTurn, PersistPendingTurn
<1>7. /\ Rows(e, m) /\ Later(d, n, e, m) /\ Only(d, e, t.id)
      /\ row \in e.threads /\ e.turns = d.turns \cup {x} /\ x \notin d.turns
      /\ e.capsules = d.capsules
      /\ TurnsOf(e, t.id) = TurnsOf(d, t.id) \cup {x}
  BY <1>1, <1>2, <1>3, <1>4, <1>5, TurnAdded
<1>8. Replies(e, m)
  <2>1. e.turns = (d.turns \ {x}) \cup {x} /\ x.id \in Nat /\ x.id \notin 1 .. n.turn /\ ~Accepted(x)
    BY <1>1, <1>3, <1>7 DEF Accepted
  <2>2. m.turn \in Nat /\ n.turn <= m.turn
    BY <1>1
  <2> QED BY <1>3, <1>7, <2>1, <2>2, UnansweredTurn
<1> QED BY <1>3, <1>4, <1>7, <1>8 DEF Stores

(* A turn of the user's in another state.                                  *)
LEMMA InState ==
    ASSUME NEW r \in TurnRow, NEW state \in {"pending", "failed", "accepted"}
    PROVE  LET x == [r EXCEPT !.state = state]
           IN  /\ x \in TurnRow /\ x.state = state
               /\ x.id = r.id /\ x.thread = r.thread /\ x.position = r.position
               /\ x.role = r.role /\ x.to = r.to
BY DEF TurnRow

LEMMA TurnUnanswered ==
    ASSUME NoneIsNull, NEW d, NEW n, Stores(d, n), NEW r \in d.turns, r.role = "user", r.state # "accepted",
           NEW x \in TurnRow, x.id = r.id, x.thread = r.thread, x.position = r.position,
           x.role = r.role, x.to = r.to, x.state # "accepted",
           NEW e, e = PutTurn(d, x)
    PROVE  /\ Stores(e, n) /\ Later(d, n, e, n) /\ Only(d, e, r.thread)
           /\ e.turns = (d.turns \ {r}) \cup {x}
           /\ e.threads = d.threads /\ e.capsules = d.capsules
<1>1. Rows(d, n) /\ n.turn \in Nat /\ r \in TurnRow /\ Distinct(d.turns)
  BY StoresAreTyped
<1>2. ~Accepted(r)
  BY DEF Accepted
<1>3. /\ Rows(e, n) /\ Later(d, n, e, n) /\ Only(d, e, r.thread)
      /\ e.turns = (d.turns \ {r}) \cup {x}
      /\ e.threads = d.threads /\ e.capsules = d.capsules
  BY <1>1, <1>2, TurnSettled
<1>4. r.to = None /\ r.id \in Nat
  BY <1>1 DEF Stores, Replies, TurnRow
<1>5. ~Accepted(x) /\ x.to = None
  BY <1>4 DEF Accepted
<1>6. Replies(e, n)
  BY <1>1, <1>3, <1>4, <1>5, UnansweredTurn
<1> QED BY <1>3, <1>6 DEF Stores

(* The row of a thread that lists a turn already is written as it is.      *)
LEMMA PendingAgain ==
    ASSUME NEW d, NEW n, Stores(d, n), NEW t \in d.threads, NEW x
    PROVE  PersistPendingTurn(d, t, x) = PutTurn(d, x)
<1>1. /\ t \in ThreadRow /\ Distinct(d.threads)
      /\ d \in [threads : SUBSET ThreadRow, turns : SUBSET TurnRow, capsules : SUBSET CapsuleRow]
  BY StoresAreTyped
<1>2. Put(d.threads, t) = d.threads
  <2>1. \A u : u \in Put(d.threads, t) <=> u = t \/ (u \in d.threads /\ u.id # t.id)
    BY PutIs
  <2>2. \A u : u \in Put(d.threads, t) <=> u \in d.threads
    BY <1>1, <2>1 DEF Distinct
  <2> HIDE DEF Put
  <2> QED BY <2>2
<1> QED BY <1>1, <1>2 DEF PersistPendingTurn, PutTurn

LEMMA RowUnchanged ==
    ASSUME NEW d, NEW n, Stores(d, n), NEW t \in d.threads, NEW r \in d.turns, r.thread = t.id
    PROVE  [t EXCEPT !.turnIds = AppendTurnId(@, r.id)] = t
<1>1. t \in ThreadRow
  BY StoresAreTyped
<1>2. AppendTurnId(t.turnIds, r.id) = t.turnIds
  BY AlreadyListed
<1>3. [t EXCEPT !.turnIds = t.turnIds] = t
  BY <1>1 DEF ThreadRow
<1> QED BY <1>2, <1>3

(* To a turn that is accepted in the stores c, and was not in d, comes the *)
(* reply to it.                                                            *)
LEMMA ReplyAdded ==
    ASSUME NoneIsNull, NEW d, NEW n, Stores(d, n),
           NEW c, NEW o, Rows(c, o), Later(d, n, c, o), NEW t \in c.threads, Only(d, c, t.id),
           c.capsules = d.capsules,
           NEW x \in TurnRow, Accepted(x), x.to = None, x.thread = t.id,
           NEW r, r.id = x.id, c.turns = (d.turns \ {r}) \cup {x},
           \A s \in d.turns : s.id = x.id => s = r /\ s.role = "user" /\ s.state # "accepted",
           r \notin d.turns => x.id \notin 1 .. n.turn,
           NEW y \in TurnRow, y.id = o.turn + 1, y.thread = t.id, y.role = "specular", y.to = x.id,
           \A q \in TurnsOf(c, t.id) : q.position < y.position,
           NEW row \in ThreadRow, row.id = t.id, row.turnIds = AppendTurnId(t.turnIds, y.id),
           SoundOrNone(c, o, row.conclusion),
           NEW e, e = PersistPendingTurn(c, row, y),
           NEW m \in [thread : Nat, turn : Nat, capsule : Nat],
           m.thread = o.thread, m.turn = o.turn + 1, m.capsule = o.capsule
    PROVE  /\ Stores(e, m) /\ Later(d, n, e, m) /\ Only(d, e, t.id)
           /\ row \in e.threads
           /\ TurnsOf(e, t.id) = TurnsOf(c, t.id) \cup {y} /\ e.capsules = d.capsules
<1>1. /\ n \in [thread : Nat, turn : Nat, capsule : Nat]
      /\ o \in [thread : Nat, turn : Nat, capsule : Nat]
      /\ \A q \in d.turns : q \in TurnRow /\ q.id \in 1 .. n.turn
      /\ \A q \in c.turns : q.id \in 1 .. o.turn
  BY StoresAreTyped DEF Rows, Typed, Ids
<1>2. n.turn <= o.turn
  BY DEF Later
<1>3. /\ Rows(e, m) /\ Later(c, o, e, m) /\ Only(c, e, t.id)
      /\ row \in e.threads /\ e.turns = c.turns \cup {y} /\ y \notin c.turns
      /\ e.capsules = c.capsules
      /\ TurnsOf(e, t.id) = TurnsOf(c, t.id) \cup {y}
  BY TurnAdded
<1>4. x.id \in 1 .. o.turn /\ x.id # y.id
  BY <1>1
<1>5. Replies(e, m)
  <2>1. (\A s \in d.turns : s.id # y.id) /\ y.id \notin 1 .. n.turn
    BY <1>1, <1>2
  <2>2. e.turns = ((d.turns \ {r}) \cup {x}) \cup {y}
    BY <1>3
  <2>3. m.turn \in Nat /\ n.turn <= m.turn /\ x.id \in 1 .. m.turn
    BY <1>1, <1>2, <1>4
  <2> QED BY <1>4, <2>1, <2>2, <2>3, AnsweredTurn
<1>6. Later(d, n, e, m)
  <2>1. ASSUME NEW q \in e.turns, q.id \in 1 .. n.turn
        PROVE  \E s \in d.turns : s.id = q.id /\ (Accepted(s) => Accepted(q))
    <3>1. q \in c.turns
      BY <1>1, <1>2, <1>3, <2>1
    <3> QED BY <2>1, <3>1 DEF Later
  <2> QED BY <1>1, <2>1 DEF Later
<1>7. Only(d, e, t.id)
  BY <1>3 DEF Only
<1> QED BY <1>3, <1>5, <1>6, <1>7 DEF Stores

LEMMA RowTwice ==
    ASSUME NEW t \in ThreadRow, NEW a \in Nat, NEW b \in Nat
    PROVE  LET row == [t EXCEPT !.turnIds = AppendTurnId(AppendTurnId(@, a), b)]
           IN  /\ row \in ThreadRow /\ row.id = t.id /\ row.state = t.state
               /\ row.conclusion = t.conclusion
               /\ row.turnIds = AppendTurnId(AppendTurnId(t.turnIds, a), b)
<1> DEFINE row1 == [t EXCEPT !.turnIds = AppendTurnId(@, a)]
<1>1. /\ row1 \in ThreadRow /\ row1.id = t.id /\ row1.state = t.state
      /\ row1.conclusion = t.conclusion /\ row1.turnIds = AppendTurnId(t.turnIds, a)
  BY RowAppended
<1>2. [t EXCEPT !.turnIds = AppendTurnId(AppendTurnId(@, a), b)] = [row1 EXCEPT !.turnIds = AppendTurnId(@, b)]
  <2>1. [row1 EXCEPT !.turnIds = AppendTurnId(@, b)] = [row1 EXCEPT !.turnIds = AppendTurnId(AppendTurnId(t.turnIds, a), b)]
    BY <1>1
  <2>2. \A q : [[t EXCEPT !.turnIds = AppendTurnId(@, a)] EXCEPT !.turnIds = q] = [t EXCEPT !.turnIds = q]
    BY DEF ThreadRow
  <2> QED BY <2>1, <2>2
<1> HIDE DEF row1
<1>3. LET row2 == [row1 EXCEPT !.turnIds = AppendTurnId(@, b)]
      IN  /\ row2 \in ThreadRow /\ row2.id = row1.id /\ row2.state = row1.state
          /\ row2.conclusion = row1.conclusion /\ row2.turnIds = AppendTurnId(row1.turnIds, b)
  BY <1>1, RowAppended
<1> QED BY <1>1, <1>2, <1>3

IsDb(d) == d = [threads |-> d.threads, turns |-> d.turns, capsules |-> d.capsules]

LEMMA WriteIs ==
    ASSUME NEW d, IsDb(d), NEW row, NEW x
    PROVE  PersistPendingTurn(d, row, x) =
             [threads |-> Put(d.threads, row), turns |-> Put(d.turns, x), capsules |-> d.capsules]
<1>0. d = [threads |-> d.threads, turns |-> d.turns, capsules |-> d.capsules]
  BY DEF IsDb
<1>1. PICK e : e = [d EXCEPT !.turns = Put(@, x)]
  OBVIOUS
<1>2. e = [threads |-> d.threads, turns |-> Put(d.turns, x), capsules |-> d.capsules]
  BY <1>0, <1>1
<1>3. [e EXCEPT !.threads = Put(d.threads, row)] =
        [threads |-> Put(d.threads, row), turns |-> Put(d.turns, x), capsules |-> d.capsules]
  BY <1>2
<1>4. PersistPendingTurn(d, row, x) = [e EXCEPT !.threads = Put(d.threads, row)]
  BY <1>1, Zenon DEF PersistPendingTurn
<1> QED BY <1>3, <1>4

LEMMA ExchangeIs ==
    ASSUME NEW d, IsDb(d), NEW row, NEW x, NEW y
    PROVE  AcceptExchange(d, row, x, y) =
             [threads |-> Put(d.threads, row), turns |-> Put(Put(d.turns, x), y), capsules |-> d.capsules]
<1>0. d = [threads |-> d.threads, turns |-> d.turns, capsules |-> d.capsules]
  BY DEF IsDb
<1>1. PICK e : e = [d EXCEPT !.turns = Put(Put(@, x), y)]
  OBVIOUS
<1>2. e = [threads |-> d.threads, turns |-> Put(Put(d.turns, x), y), capsules |-> d.capsules]
  BY <1>0, <1>1
<1>3. [e EXCEPT !.threads = Put(d.threads, row)] =
        [threads |-> Put(d.threads, row), turns |-> Put(Put(d.turns, x), y), capsules |-> d.capsules]
  BY <1>2
<1>4. AcceptExchange(d, row, x, y) = [e EXCEPT !.threads = Put(d.threads, row)]
  BY <1>1, Zenon DEF AcceptExchange
<1> QED BY <1>3, <1>4

LEMMA ExchangeIsTwoWrites ==
    ASSUME NEW d \in [threads : SUBSET ThreadRow, turns : SUBSET TurnRow, capsules : SUBSET CapsuleRow],
           NEW row, NEW x, NEW y
    PROVE  /\ AcceptExchange(d, row, x, y) = PersistPendingTurn(PutTurn(d, x), row, y)
           /\ \A row1 : row1.id = row.id =>
                AcceptExchange(d, row, x, y) = PersistPendingTurn(PersistPendingTurn(d, row1, x), row, y)
<1> DEFINE all == [threads |-> Put(d.threads, row), turns |-> Put(Put(d.turns, x), y), capsules |-> d.capsules]
<1>0. IsDb(d)
  BY DEF IsDb
<1>1. AcceptExchange(d, row, x, y) = all
  BY <1>0, ExchangeIs
<1>2. PersistPendingTurn(PutTurn(d, x), row, y) = all
  <2>1. PICK c : c = PutTurn(d, x)
    OBVIOUS
  <2>2. c = [threads |-> d.threads, turns |-> Put(d.turns, x), capsules |-> d.capsules]
    BY <2>1 DEF PutTurn
  <2>3. IsDb(c)
    BY <2>2 DEF IsDb
  <2>4. PersistPendingTurn(c, row, y) =
          [threads |-> Put(c.threads, row), turns |-> Put(c.turns, y), capsules |-> c.capsules]
    BY <2>3, WriteIs
  <2> QED BY <2>1, <2>2, <2>4
<1>3. ASSUME NEW row1, row1.id = row.id
      PROVE  PersistPendingTurn(PersistPendingTurn(d, row1, x), row, y) = all
  <2>1. PICK c : c = PersistPendingTurn(d, row1, x)
    OBVIOUS
  <2>2. c = [threads |-> Put(d.threads, row1), turns |-> Put(d.turns, x), capsules |-> d.capsules]
    BY <1>0, <2>1, WriteIs
  <2>3. IsDb(c)
    BY <2>2 DEF IsDb
  <2>4. PersistPendingTurn(c, row, y) =
          [threads |-> Put(c.threads, row), turns |-> Put(c.turns, y), capsules |-> c.capsules]
    BY <2>3, WriteIs
  <2>5. Put(Put(d.threads, row1), row) = Put(d.threads, row)
    BY <1>3 DEF Put
  <2> QED BY <2>1, <2>2, <2>4, <2>5
<1> QED BY <1>1, <1>2, <1>3

LEMMA ReplyStored ==
    ASSUME NoneIsNull, NEW d, NEW n, Stores(d, n), NEW r \in d.turns, r.role = "user", r.state # "accepted",
           NEW t \in d.threads, r.thread = t.id,
           NEW x \in TurnRow, x.id = r.id, x.thread = r.thread, x.position = r.position,
           x.role = r.role, x.to = r.to, x.state = "accepted",
           NEW y \in TurnRow, y.id = n.turn + 1, y.thread = t.id, y.role = "specular", y.to = x.id,
           y.position = NextPosition(TurnsOf(d, t.id)),
           NEW row \in ThreadRow, row.id = t.id, row.conclusion = t.conclusion,
           row.turnIds = AppendTurnId(AppendTurnId(t.turnIds, x.id), y.id),
           NEW e, e = AcceptExchange(d, row, x, y),
           NEW m \in [thread : Nat, turn : Nat, capsule : Nat],
           m.thread = n.thread, m.turn = n.turn + 1, m.capsule = n.capsule
    PROVE  /\ Stores(e, m) /\ Later(d, n, e, m) /\ Only(d, e, t.id)
           /\ row \in e.threads
           /\ TurnsOf(e, t.id) = ((TurnsOf(d, t.id) \ {r}) \cup {x}) \cup {y} /\ e.capsules = d.capsules
<1>1. /\ n \in [thread : Nat, turn : Nat, capsule : Nat] /\ Rows(d, n) /\ t \in ThreadRow /\ r \in TurnRow
      /\ SoundOrNone(d, n, t.conclusion) /\ \A q \in d.turns : q \in TurnRow
      /\ d \in [threads : SUBSET ThreadRow, turns : SUBSET TurnRow, capsules : SUBSET CapsuleRow]
      /\ Distinct(d.turns)
  BY StoresAreTyped
<1>2. \A q \in TurnsOf(d, t.id) : q.position < y.position
  BY <1>1, NextPositionIs
<1>3. ~Accepted(r) /\ r.to = None
  BY DEF Accepted, Stores, Replies
<1>4. PICK c : c = PutTurn(d, x)
  OBVIOUS
<1>5. /\ Rows(c, n) /\ Later(d, n, c, n) /\ Only(d, c, r.thread)
      /\ c.turns = (d.turns \ {r}) \cup {x}
      /\ c.threads = d.threads /\ c.capsules = d.capsules
  BY <1>1, <1>3, <1>4, TurnSettled
<1>6. e = PersistPendingTurn(c, row, y)
  BY <1>1, <1>4, ExchangeIsTwoWrites
<1>7. TurnsOf(c, t.id) = (TurnsOf(d, t.id) \ {r}) \cup {x}
  BY <1>5 DEF TurnsOf
<1>8. \A q \in TurnsOf(c, t.id) : q.position < y.position
  BY <1>2, <1>7 DEF TurnsOf
<1>9. AppendTurnId(t.turnIds, x.id) = t.turnIds
  BY AlreadyListed
<1>10. SoundOrNone(c, n, row.conclusion)
  BY <1>1, <1>5, SoundStays
<1>11. \A s \in d.turns : s.id = x.id => s = r /\ s.role = "user" /\ s.state # "accepted"
  BY <1>1 DEF Distinct
<1>12. Accepted(x) /\ x.to = None /\ x.thread = t.id
  BY <1>3 DEF Accepted
<1>13. /\ Stores(e, m) /\ Later(d, n, e, m) /\ Only(d, e, t.id)
       /\ row \in e.threads
       /\ TurnsOf(e, t.id) = TurnsOf(c, t.id) \cup {y} /\ e.capsules = d.capsules
  BY <1>5, <1>6, <1>8, <1>9, <1>10, <1>11, <1>12, ReplyAdded
<1> QED BY <1>7, <1>13

LEMMA VoiceStored ==
    ASSUME NoneIsNull, NEW d, NEW n, Stores(d, n), NEW t \in d.threads,
           NEW x \in TurnRow, x.id = n.turn + 1, x.thread = t.id, x.role = "user", x.to = None,
           x.state = "accepted", x.position = NextPosition(TurnsOf(d, t.id)),
           NEW y \in TurnRow, y.id = n.turn + 2, y.thread = t.id, y.role = "specular", y.to = x.id,
           y.position = x.position + 1,
           NEW row \in ThreadRow, row.id = t.id, row.conclusion = t.conclusion,
           row.turnIds = AppendTurnId(AppendTurnId(t.turnIds, x.id), y.id),
           NEW e, e = AcceptExchange(d, row, x, y),
           NEW m \in [thread : Nat, turn : Nat, capsule : Nat],
           m.thread = n.thread, m.turn = n.turn + 2, m.capsule = n.capsule
    PROVE  /\ Stores(e, m) /\ Later(d, n, e, m) /\ Only(d, e, t.id)
           /\ row \in e.threads
           /\ TurnsOf(e, t.id) = TurnsOf(d, t.id) \cup {x} \cup {y} /\ e.capsules = d.capsules
           /\ d.turns \subseteq e.turns
<1>1. /\ n \in [thread : Nat, turn : Nat, capsule : Nat] /\ Rows(d, n) /\ t \in ThreadRow
      /\ SoundOrNone(d, n, t.conclusion)
      /\ \A q \in d.turns : q \in TurnRow /\ q.id \in 1 .. n.turn
      /\ d \in [threads : SUBSET ThreadRow, turns : SUBSET TurnRow, capsules : SUBSET CapsuleRow]
      /\ Distinct(d.turns)
  BY StoresAreTyped
<1>2. \A q \in TurnsOf(d, t.id) : q.position < x.position
  BY <1>1, NextPositionIs
<1>3. PICK row1 : row1 = [t EXCEPT !.turnIds = AppendTurnId(@, x.id)]
  OBVIOUS
<1>4. /\ row1 \in ThreadRow /\ row1.id = t.id
      /\ row1.conclusion = t.conclusion /\ row1.turnIds = AppendTurnId(t.turnIds, x.id)
  <2>1. x.id \in Nat
    BY <1>1
  <2> QED BY <1>1, <1>3, <2>1, RowAppended
<1>5. PICK c : c = PersistPendingTurn(d, row1, x)
  OBVIOUS
<1>6. PICK o \in [thread : Nat, turn : Nat, capsule : Nat] :
        o.thread = n.thread /\ o.turn = n.turn + 1 /\ o.capsule = n.capsule
  <2>1. [n EXCEPT !.turn = @ + 1] \in [thread : Nat, turn : Nat, capsule : Nat]
    BY <1>1
  <2> QED BY <1>1, <2>1
<1>7. /\ Rows(c, o) /\ Later(d, n, c, o) /\ Only(d, c, t.id)
      /\ row1 \in c.threads /\ c.turns = d.turns \cup {x} /\ x \notin d.turns
      /\ c.capsules = d.capsules
      /\ TurnsOf(c, t.id) = TurnsOf(d, t.id) \cup {x}
  BY <1>1, <1>2, <1>4, <1>5, <1>6, TurnAdded
<1>8. e = PersistPendingTurn(c, row, y)
  BY <1>1, <1>4, <1>5, ExchangeIsTwoWrites
<1>9. \A q \in TurnsOf(c, t.id) : q.position < y.position
  <2>1. x.position \in Nat /\ \A q \in TurnsOf(d, t.id) : q.position \in Nat
    BY <1>1 DEF TurnsOf, TurnRow
  <2> QED BY <1>2, <1>7, <2>1
<1>10. SoundOrNone(c, o, row.conclusion)
  BY <1>1, <1>6, <1>7, SoundStays
<1>11. /\ Accepted(x) /\ c.turns = (d.turns \ {x}) \cup {x} /\ x.id \notin 1 .. n.turn
       /\ \A s \in d.turns : s.id = x.id => s = x /\ s.role = "user" /\ s.state # "accepted"
  BY <1>1, <1>7 DEF Accepted
<1>15. /\ Only(d, c, row1.id) /\ x.thread = row1.id /\ y.thread = row1.id /\ row.id = row1.id
       /\ \A q \in TurnsOf(c, row1.id) : q.position < y.position
  BY <1>4, <1>7, <1>9
<1>12. /\ row1.id = t.id /\ y.id = o.turn + 1 /\ m.thread = o.thread /\ m.turn = o.turn + 1
       /\ m.capsule = o.capsule /\ row.turnIds = AppendTurnId(row1.turnIds, y.id)
  BY <1>1, <1>4, <1>6
<1>13. /\ Stores(e, m) /\ Later(d, n, e, m) /\ Only(d, e, t.id)
       /\ row \in e.threads
       /\ TurnsOf(e, t.id) = TurnsOf(c, t.id) \cup {y} /\ e.capsules = d.capsules
  <2>1. /\ Rows(c, o) /\ Later(d, n, c, o) /\ row1 \in c.threads /\ c.capsules = d.capsules
    BY <1>7
  <2>2. /\ Stores(e, m) /\ Later(d, n, e, m) /\ Only(d, e, row1.id)
        /\ row \in e.threads
        /\ TurnsOf(e, row1.id) = TurnsOf(c, row1.id) \cup {y} /\ e.capsules = d.capsules
    BY <2>1, <1>8, <1>10, <1>11, <1>12, <1>15, ReplyAdded
  <2> QED BY <1>12, <2>2
<1>14. d.turns \subseteq e.turns
  <2>1. ASSUME NEW q \in d.turns PROVE q \in e.turns
    <3>1. CASE q.thread = t.id
      BY <1>7, <1>13, <3>1 DEF TurnsOf
    <3>2. CASE q.thread # t.id
      BY <1>13, <3>2 DEF Only, TurnsOf
    <3> QED BY <3>1, <3>2
  <2> QED BY <2>1
<1> QED BY <1>7, <1>13, <1>14

LEMMA CapsuleStored ==
    ASSUME NEW d, NEW n, Stores(d, n), NEW x \in CapsuleRow, x.id = n.capsule + 1, CapsuleOf(d, n, x),
           NEW e, e = PutCapsule(d, x),
           NEW m \in [thread : Nat, turn : Nat, capsule : Nat],
           m.thread = n.thread, m.turn = n.turn, m.capsule = n.capsule + 1
    PROVE  /\ Stores(e, m) /\ Later(d, n, e, m)
           /\ e.threads = d.threads /\ e.turns = d.turns
           /\ Ids(e.capsules) = Ids(d.capsules) \cup {n.capsule + 1}
<1>1. /\ d \in [threads : SUBSET ThreadRow, turns : SUBSET TurnRow, capsules : SUBSET CapsuleRow]
      /\ n \in [thread : Nat, turn : Nat, capsule : Nat] /\ Distinct(d.capsules)
      /\ \A c \in d.capsules : c \in CapsuleRow /\ c.id \in 1 .. n.capsule /\ CapsuleOf(d, n, c)
  BY StoresAreTyped DEF Stores, Rows
<1>2. PICK C : C = Put(d.capsules, x)
  OBVIOUS
<1>3. e = [d EXCEPT !.capsules = C]
  BY <1>2 DEF PutCapsule
<1>4. (\A c : c \in C <=> c = x \/ (c \in d.capsules /\ c.id # x.id)) /\ Distinct(C)
  BY <1>1, <1>2, PutIs
<1>5. C \in SUBSET CapsuleRow /\ \A c \in C : CapsuleOf(d, n, c)
  BY <1>1, <1>4
<1>6. Ids(C) \subseteq 1 .. m.capsule /\ Ids(C) = Ids(d.capsules) \cup {n.capsule + 1}
  BY <1>1, <1>4 DEF Ids
<1>7. Stores(e, m) /\ Later(d, n, e, m) /\ e.threads = d.threads /\ e.turns = d.turns /\ e.capsules = C
  BY <1>3, <1>4, <1>5, <1>6, CapsulesChanged
<1> QED BY <1>6, <1>7

LEMMA CapsuleRemoved ==
    ASSUME NEW d, NEW n, Stores(d, n), NEW id, NEW e, e = DeleteCapsule(d, id)
    PROVE  /\ Stores(e, n) /\ Later(d, n, e, n)
           /\ e.threads = d.threads /\ e.turns = d.turns
           /\ Ids(e.capsules) = Ids(d.capsules) \ {id}
<1>1. /\ d \in [threads : SUBSET ThreadRow, turns : SUBSET TurnRow, capsules : SUBSET CapsuleRow]
      /\ n \in [thread : Nat, turn : Nat, capsule : Nat] /\ Distinct(d.capsules)
      /\ \A c \in d.capsules : c \in CapsuleRow /\ c.id \in 1 .. n.capsule /\ CapsuleOf(d, n, c)
  BY StoresAreTyped DEF Stores, Rows
<1>2. PICK C : C = Remove(d.capsules, id)
  OBVIOUS
<1>3. e = [d EXCEPT !.capsules = C]
  BY <1>2 DEF DeleteCapsule
<1>4. (\A c : c \in C <=> c \in d.capsules /\ c.id # id) /\ Distinct(C)
  BY <1>1, <1>2 DEF Remove, Distinct
<1>5. C \in SUBSET CapsuleRow /\ \A c \in C : CapsuleOf(d, n, c)
  BY <1>1, <1>4
<1>6. Ids(C) \subseteq 1 .. n.capsule /\ Ids(C) = Ids(d.capsules) \ {id}
  BY <1>1, <1>4 DEF Ids
<1>7. Stores(e, n) /\ Later(d, n, e, n) /\ e.threads = d.threads /\ e.turns = d.turns /\ e.capsules = C
  BY <1>1, <1>3, <1>4, <1>5, <1>6, CapsulesChanged
<1> QED BY <1>6, <1>7

LEMMA CapsuleKept ==
    ASSUME NEW d, NEW n, Stores(d, n), NEW x \in d.capsules PROVE PutCapsule(d, x) = d
<1>1. /\ d \in [threads : SUBSET ThreadRow, turns : SUBSET TurnRow, capsules : SUBSET CapsuleRow]
      /\ Distinct(d.capsules)
  BY StoresAreTyped
<1>2. Put(d.capsules, x) = d.capsules
  <2>1. \A u : u \in Put(d.capsules, x) <=> u = x \/ (u \in d.capsules /\ u.id # x.id)
    BY PutIs
  <2>2. \A u : u \in Put(d.capsules, x) <=> u \in d.capsules
    BY <1>1, <2>1 DEF Distinct
  <2> QED BY <2>2
<1> QED BY <1>1, <1>2 DEF PutCapsule

LEMMA FinishStored ==
    ASSUME NoneIsNull, NEW d, NEW n, Stores(d, n), NEW t \in d.threads,
           NEW row \in ThreadRow, row.id = t.id, row.turnIds = t.turnIds,
           SoundOrNone(d, n, row.conclusion),
           NEW x \in CapsuleRow, x.id = n.capsule + 1, CapsuleOf(d, n, x),
           NEW f, f = NewThread(n.thread + 1, None),
           NEW e, e = FinishAndStart(d, row, f, x),
           NEW m \in [thread : Nat, turn : Nat, capsule : Nat],
           m.thread = n.thread + 1, m.turn = n.turn, m.capsule = n.capsule + 1
    PROVE  /\ Stores(e, m) /\ Later(d, n, e, m)
           /\ row \in e.threads /\ f \in e.threads /\ e.turns = d.turns
           /\ \A r : r.id \notin {t.id, n.thread + 1} => (r \in e.threads <=> r \in d.threads)
           /\ TurnsOf(e, n.thread + 1) = {}
           /\ Ids(e.capsules) = Ids(d.capsules) \cup {n.capsule + 1}
<1>1. /\ d \in [threads : SUBSET ThreadRow, turns : SUBSET TurnRow, capsules : SUBSET CapsuleRow]
      /\ n \in [thread : Nat, turn : Nat, capsule : Nat]
      /\ t.id \in 1 .. n.thread
  BY StoresAreTyped
<1>2. PICK c : c = PutThread(d, row)
  OBVIOUS
<1>3. /\ Stores(c, n) /\ Later(d, n, c, n) /\ Only(d, c, t.id)
      /\ row \in c.threads /\ c.turns = d.turns /\ c.capsules = d.capsules
  BY <1>2, ThreadRewritten
<1>4. PICK b : b = PutThread(c, NewThread(n.thread + 1, None))
  OBVIOUS
<1>5. PICK o \in [thread : Nat, turn : Nat, capsule : Nat] :
        o.thread = n.thread + 1 /\ o.turn = n.turn /\ o.capsule = n.capsule
  <2>1. [n EXCEPT !.thread = @ + 1] \in [thread : Nat, turn : Nat, capsule : Nat]
    BY <1>1
  <2> QED BY <1>1, <2>1
<1>6. SoundOrNone(c, n, None)
  BY DEF SoundOrNone
<1>7. /\ Stores(b, o) /\ Later(c, n, b, o) /\ Only(c, b, n.thread + 1)
      /\ NewThread(n.thread + 1, None) \in b.threads
      /\ TurnsOf(b, n.thread + 1) = {}
      /\ b.turns = c.turns /\ b.capsules = c.capsules
      /\ c.threads \subseteq b.threads
  BY <1>3, <1>4, <1>5, <1>6, ThreadStarted
<1>8. CapsuleOf(b, o, x)
  <2>1. Ids(c.threads) = Ids(d.threads)
    <3>1. \A u : u \in c.threads <=> u = row \/ (u \in d.threads /\ u.id # row.id)
      BY <1>1, <1>2, PutIs DEF PutThread
    <3> QED BY <3>1 DEF Ids
  <2>2. x.thread \in Ids(b.threads) => x.thread \in Ids(c.threads)
    BY <1>1, <1>7 DEF CapsuleOf, Only, Ids
  <2>3. Later(d, n, b, o)
    BY <1>1, <1>3, <1>5, <1>7 DEF Later
  <2>4. \A r \in TurnsOf(d, x.thread) : r.id \in Ids(b.turns)
    BY <1>3, <1>7 DEF TurnsOf, Ids
  <2>5. b.turns = d.turns
    BY <1>3, <1>7
  <2> QED BY <1>1, <1>5, <2>1, <2>2, <2>3, <2>4, <2>5, CapsuleStays
<1>9. e = PutCapsule(b, x)
  <2>1. IsDb(d)
    BY <1>1 DEF IsDb
  <2>2. c = [threads |-> Put(d.threads, row), turns |-> d.turns, capsules |-> d.capsules]
    BY <1>2, <2>1 DEF PutThread, IsDb
  <2>3. b = [threads |-> Put(Put(d.threads, row), f), turns |-> d.turns, capsules |-> d.capsules]
    BY <1>4, <2>2 DEF PutThread
  <2>4. PutCapsule(b, x) = [threads |-> Put(Put(d.threads, row), f), turns |-> d.turns,
                            capsules |-> Put(d.capsules, x)]
    BY <2>3 DEF PutCapsule
  <2>5. PICK g : g = [d EXCEPT !.threads = Put(Put(@, row), f)]
    OBVIOUS
  <2>6. g = [threads |-> Put(Put(d.threads, row), f), turns |-> d.turns, capsules |-> d.capsules]
    BY <2>1, <2>5 DEF IsDb
  <2>7. x # None
    BY RowsAreSome
  <2>8. FinishAndStart(d, row, f, x) = [g EXCEPT !.capsules = Put(d.capsules, x)]
    BY <2>5, <2>7, Zenon DEF FinishAndStart
  <2>9. [g EXCEPT !.capsules = Put(d.capsules, x)] =
          [threads |-> Put(Put(d.threads, row), f), turns |-> d.turns, capsules |-> Put(d.capsules, x)]
    BY <2>6
  <2> QED BY <2>4, <2>8, <2>9
<1>10. /\ Stores(e, m) /\ Later(b, o, e, m)
       /\ e.threads = b.threads /\ e.turns = b.turns
       /\ Ids(e.capsules) = Ids(b.capsules) \cup {n.capsule + 1}
  BY <1>5, <1>7, <1>8, <1>9, CapsuleStored
<1>11. Later(d, n, e, m) /\ TurnsOf(e, n.thread + 1) = {}
  BY <1>1, <1>3, <1>7, <1>10 DEF Later, TurnsOf
<1>12. \A r : r.id \notin {t.id, n.thread + 1} => (r \in e.threads <=> r \in d.threads)
  BY <1>3, <1>7, <1>10 DEF Only
<1>13. row \in e.threads /\ f \in e.threads /\ e.turns = d.turns
  BY <1>3, <1>7, <1>10
<1> QED BY <1>3, <1>7, <1>10, <1>11, <1>12, <1>13

-----------------------------------------------------------------------------
(* The calls in flight and the view of the page.                           *)
CallFields == {"op", "thread", "pc", "arg", "turn", "snap", "listed"}
ViewFields == {"thread", "conclusion", "turns", "gathered", "listening", "capsules"}

Waiting == {"context", "provider", "thread2", "turns2", "accept"}
Stage(op) == CASE op = "submit" -> {"start", "thread", "turns", "write", "fail", "refresh"} \cup Waiting
               [] op = "retry" -> {"turn", "thread", "pending", "fail", "refresh"} \cup Waiting
               [] op \in {"challenge", "conclude"} -> {"thread"} \cup Waiting
               [] op = "test" -> {"capsule", "write", "thread"} \cup Waiting
               [] op = "keep" -> {"thread", "turns", "write"}
               [] op \in {"save", "finish"} -> {"range", "thread", "turns", "write"}
               [] op = "resume" -> {"capsule", "write"}
               [] op = "update" -> {"capsule", "source", "write"}
               [] op = "voice" -> {"thread", "turns", "accept"}
Ops == {"submit", "retry", "challenge", "conclude", "test", "keep", "save", "finish",
        "resume", "update", "voice"}
IsCall(c) == c = [x \in CallFields |-> c[x]] /\ c.op \in Ops /\ c.pc \in Stage(c.op)

OfCapsule(c) == c.op \in {"resume", "update"} \/ (c.op = "test" /\ c.pc \in {"capsule", "write"})
Tests(c) == c # None /\ c.op = "test" /\ ~OfCapsule(c)
(* The calls that hold a turn of the user's that is stored and open.       *)
HasTurn(c) == \/ c.op = "submit" /\ c.pc \in Waiting \cup {"fail"}
              \/ c.op = "retry" /\ c.pc \in Waiting \cup {"fail", "thread", "pending"}

(* What a call read and is about to write by is what is stored.            *)
Snapshot(d, c) == c.pc \in {"turns", "pending", "write", "turns2", "accept"} /\ ~OfCapsule(c) =>
    /\ c.snap \in d.threads /\ c.snap.id = c.thread /\ c.snap.state = "active"
    /\ c.pc \in {"write", "accept"} => c.listed = TurnsOf(d, c.thread)
Capsule(d, c) == OfCapsule(c) /\ c.pc \in {"source", "write"} => c.snap \in d.capsules
Holds(d, c) == HasTurn(c) =>
    c.turn \in d.turns /\ c.turn.thread = c.thread /\ c.turn.role = "user" /\ c.turn.state # "accepted"
(* What it cites are accepted turns of the user's.                         *)
Cites(d, n, c) ==
    /\ c.pc = "provider" => Sound(d, n, c.listed)
    /\ c.op \in {"challenge", "conclude", "test"} /\ c.pc \in {"thread2", "turns2", "accept"} =>
          SoundOrNone(d, n, c.arg)
    /\ c.op \in {"keep", "save", "finish"} => Sound(d, n, c.arg)
CallInv(d, n, c) == c # None =>
    /\ IsCall(c)
    /\ Snapshot(d, c)
    /\ Capsule(d, c)
    /\ Holds(d, c)
    /\ Cites(d, n, c)

Shows(d, n, v) ==
    /\ v = [x \in ViewFields |-> v[x]]
    /\ v.thread # None => \E t \in d.threads :
          t.id = v.thread /\ t.state = "active" /\ v.conclusion = t.conclusion
    /\ v.thread = None => ~v.listening
    /\ v.listening \in BOOLEAN
    /\ v.capsules = Ids(d.capsules)
    /\ SoundOrNone(d, n, v.gathered)
(* The turns shown are those of the thread, but for one that is being sent *)
(* or retried.                                                             *)
Other(rows, c) == IF c # None /\ c.op \in {"submit", "retry"} /\ c.turn # None
                  THEN {r \in rows : r.id # c.turn.id} ELSE rows
ShowsTurns(d, c, v) == Other(v.turns, c) = Other(TurnsOf(d, v.thread), c)
(* The call behind the controls is about the thread the page shows.        *)
Here(d, c, v) == c # None =>
    /\ c.op # "voice"
    /\ ~OfCapsule(c) => c.thread = v.thread
    /\ c.op = "submit" => (c.thread = None <=> c.pc = "start")
    /\ c.op # "submit" /\ ~OfCapsule(c) => c.thread # None
    /\ c.op = "retry" /\ c.pc = "turn" =>
         /\ c.turn = None
         /\ \E r \in TurnsOf(d, v.thread) : r.id = c.arg /\ r.role = "user"
    /\ c.op = "submit" /\ ~HasTurn(c) /\ c.pc # "refresh" => c.turn = None
    /\ Tests(c) => TurnsOf(d, c.thread) = {} /\ ~v.listening
Spoken(n, c, s) == s # None =>
    /\ s.op = "voice" /\ s.thread \in 1 .. n.thread
    /\ Tests(c) => s.thread # c.thread
PageInv(d, n, c, s, v) ==
    /\ CallInv(d, n, c) /\ CallInv(d, n, s)
    /\ ~(InSection(c) /\ InSection(s))
    /\ Shows(d, n, v) /\ ShowsTurns(d, c, v)
    /\ Here(d, c, v) /\ Spoken(n, c, s)

ConvInd == /\ Stores(db, drawn)
           /\ call = [k \in Slot |-> call[k]] /\ view = [p \in Page |-> view[p]]
           /\ \A p \in Page : PageInv(db, drawn, call[Ui(p)], call[<<p, "voice">>], view[p])

LEMMA PageKeeps ==
    ASSUME OnePage, NEW p \in Page, Stores(db', drawn'),
           call' = [k \in Slot |-> call'[k]], view' = [q \in Page |-> view'[q]],
           PageInv(db', drawn', call'[Ui(p)], call'[<<p, "voice">>], view'[p])
    PROVE  ConvInd'
BY DEF ConvInd, OnePage

(* A step of the call behind the controls.                                 *)
LEMMA UiStep ==
    ASSUME NEW d, NEW n, NEW c, NEW s, NEW v, PageInv(d, n, c, s, v),
           NEW e, NEW m, NEW c2, NEW v2,
           n.thread \in Nat, m.thread \in Nat,
           (e = d /\ m = n) \/ (~InSection(s) /\ n.thread <= m.thread),
           InSection(c2) => ~InSection(s),
           CallInv(e, m, c2), Shows(e, m, v2), ShowsTurns(e, c2, v2), Here(e, c2, v2),
           Tests(c2) => c2.thread \notin 1 .. n.thread \/ (Tests(c) /\ c2.thread = c.thread)
    PROVE  PageInv(e, m, c2, s, v2)
<1>1. CallInv(e, m, s)
  <2>1. CASE s = None
    BY <2>1 DEF CallInv
  <2>2. CASE e = d /\ m = n
    BY <2>2 DEF PageInv
  <2>3. CASE s # None /\ ~InSection(s)
    <3>1. IsCall(s) /\ s.op = "voice"
      BY <2>3 DEF PageInv, CallInv, Spoken
    <3>2. s.pc = "thread"
      BY <2>3, <3>1 DEF IsCall, Stage, InSection
    <3> QED
      BY <3>1, <3>2 DEF CallInv, Snapshot, Capsule, Holds, HasTurn, Cites, OfCapsule
  <2> QED BY <2>1, <2>2, <2>3
<1>2. Spoken(m, c2, s)
  BY DEF PageInv, Spoken
<1> QED BY <1>1, <1>2 DEF PageInv

LEMMA UiKeeps ==
    ASSUME OnePage, ConvInd, NEW p \in Page, NEW c2, NEW v2,
           call' = [call EXCEPT ![Ui(p)] = c2], view' = [view EXCEPT ![p] = v2],
           Stores(db', drawn'),
           PageInv(db', drawn', c2, call[<<p, "voice">>], v2)
    PROVE  ConvInd'
<1>1. Ui(p) \in Slot /\ <<p, "voice">> \in Slot /\ Ui(p) # <<p, "voice">>
  BY DEF Slot, Ui
<1>2. /\ call' = [k \in Slot |-> call'[k]] /\ view' = [q \in Page |-> view'[q]]
      /\ call'[Ui(p)] = c2 /\ call'[<<p, "voice">>] = call[<<p, "voice">>] /\ view'[p] = v2
  BY <1>1 DEF ConvInd
<1> QED BY <1>2, PageKeeps

LEMMA VoiceKeeps ==
    ASSUME OnePage, ConvInd, NEW p \in Page, NEW s2, NEW v2,
           call' = [call EXCEPT ![<<p, "voice">>] = s2], view' = [view EXCEPT ![p] = v2],
           Stores(db', drawn'),
           PageInv(db', drawn', call[Ui(p)], s2, v2)
    PROVE  ConvInd'
<1>1. Ui(p) \in Slot /\ <<p, "voice">> \in Slot /\ Ui(p) # <<p, "voice">>
  BY DEF Slot, Ui
<1>2. /\ call' = [k \in Slot |-> call'[k]] /\ view' = [q \in Page |-> view'[q]]
      /\ call'[Ui(p)] = call[Ui(p)] /\ call'[<<p, "voice">>] = s2 /\ view'[p] = v2
  BY <1>1 DEF ConvInd
<1> QED BY <1>2, PageKeeps

LEMMA SameView == ASSUME ConvInd, NEW p \in Page PROVE view = [view EXCEPT ![p] = view[p]]
BY DEF ConvInd
LEMMA SameCalls == ASSUME ConvInd, NEW k \in Slot PROVE call = [call EXCEPT ![k] = call[k]]
BY DEF ConvInd

(* The call of a slot, and what is known when it moves.                    *)
LEMMA UiCall ==
    ASSUME ConvInd, NEW k \in Slot, call[k] # None,
           call[k].op # "voice" \/ call[k].pc \notin {"thread", "turns", "accept"}
    PROVE  /\ k[1] \in Page /\ k = Ui(k[1]) /\ k # <<k[1], "voice">> /\ <<k[1], "voice">> \in Slot
           /\ PageInv(db, drawn, call[k], call[<<k[1], "voice">>], view[k[1]])
           /\ Stores(db, drawn) /\ call[k].op # "voice"
<1>1. k[1] \in Page /\ (k = Ui(k[1]) \/ k = <<k[1], "voice">>) /\ <<k[1], "voice">> \in Slot
  BY DEF Slot, Ui
<1>2. PageInv(db, drawn, call[Ui(k[1])], call[<<k[1], "voice">>], view[k[1]])
  BY <1>1 DEF ConvInd
<1>3. CASE k = Ui(k[1])
  <2>1. k # <<k[1], "voice">>
    BY <1>3 DEF Ui
  <2>2. call[k].op # "voice"
    BY <1>2, <1>3 DEF PageInv, Here
  <2> QED BY <1>1, <1>2, <1>3, <2>1, <2>2 DEF ConvInd
<1>4. CASE k = <<k[1], "voice">>
  <2>1. IsCall(call[k]) /\ call[k].op = "voice"
    BY <1>2, <1>4 DEF PageInv, CallInv, Spoken
  <2> QED BY <2>1 DEF IsCall, Stage
<1> QED BY <1>1, <1>3, <1>4

LEMMA VoiceCall ==
    ASSUME ConvInd, NEW k \in Slot, call[k] # None, call[k].op = "voice"
    PROVE  /\ k[1] \in Page /\ k = <<k[1], "voice">> /\ k # Ui(k[1]) /\ Ui(k[1]) \in Slot
           /\ PageInv(db, drawn, call[Ui(k[1])], call[k], view[k[1]])
           /\ Stores(db, drawn)
<1>1. k[1] \in Page /\ (k = Ui(k[1]) \/ k = <<k[1], "voice">>) /\ Ui(k[1]) \in Slot
  BY DEF Slot, Ui
<1>2. PageInv(db, drawn, call[Ui(k[1])], call[<<k[1], "voice">>], view[k[1]])
  BY <1>1 DEF ConvInd
<1>3. k = <<k[1], "voice">>
  BY <1>1, <1>2 DEF PageInv, Here
<1>4. k # Ui(k[1])
  BY <1>3 DEF Ui
<1> QED BY <1>1, <1>2, <1>3, <1>4 DEF ConvInd

LEMMA Alone ==
    ASSUME OnePage, NEW k \in Slot, NEW j \in Slot, j # k, NEW pcs, At(k, pcs)
    PROVE  ~InSection(call[j]) /\ call[k] # None /\ call[k].pc \in pcs
BY DEF At, Undisturbed, OnePage

LEMMA RecordIsSome ==
    ASSUME NoneIsNull, NEW S, NEW r, r = [x \in S |-> r[x]] PROVE r # None
<1>1. DOMAIN r = S
  OBVIOUS
<1>2. r = [x \in DOMAIN r |-> r[x]]
  BY <1>1
<1> QED BY <1>2 DEF NoneIsNull

(* A call that fails.                                                      *)
LEMMA RefusedStep ==
    ASSUME NoneIsNull, NEW d, NEW n, NEW c, NEW s, NEW v, PageInv(d, n, c, s, v), n.thread \in Nat,
           c # None, c.pc \notin {"fail", "refresh"}
    PROVE  /\ c.op \notin {"submit", "retry"} \/ c.pc = "start" => PageInv(d, n, None, s, v)
           /\ \A pc \in {"refresh", "fail"} :
                /\ c.op \in {"submit", "retry"} /\ c.pc # "start"
                /\ (pc = "fail" => c.pc \in Waiting)
                => PageInv(d, n, [c EXCEPT !.pc = pc, !.snap = None, !.listed = {}], s, v)
<1>1. /\ CallInv(d, n, c) /\ IsCall(c) /\ Holds(d, c) /\ Shows(d, n, v) /\ ShowsTurns(d, c, v) /\ Here(d, c, v)
  BY DEF PageInv, CallInv
<1>2. ASSUME c.op \notin {"submit", "retry"} \/ c.pc = "start" PROVE PageInv(d, n, None, s, v)
  <2>1. ~(c.op \in {"submit", "retry"} /\ c.turn # None)
    <3>1. c.pc = "start" => c.op = "submit" /\ ~HasTurn(c)
      BY <1>1 DEF IsCall, Stage, Waiting, Ops, HasTurn
    <3> QED BY <1>1, <1>2, <3>1 DEF Here
  <2>2. ShowsTurns(d, None, v)
    BY <1>1, <2>1 DEF ShowsTurns, Other
  <2>3. CallInv(d, n, None) /\ Here(d, None, v) /\ ~InSection(None) /\ ~Tests(None)
    BY DEF CallInv, Here, InSection, Tests
  <2> QED BY <1>1, <2>2, <2>3, UiStep
<1>3. ASSUME NEW pc \in {"refresh", "fail"}, c.op \in {"submit", "retry"}, c.pc # "start",
             pc = "fail" => c.pc \in Waiting
      PROVE  PageInv(d, n, [c EXCEPT !.pc = pc, !.snap = None, !.listed = {}], s, v)
  <2>1. PICK c2 : c2 = [c EXCEPT !.pc = pc, !.snap = None, !.listed = {}]
    OBVIOUS
  <2>2. /\ c2 = [x \in CallFields |-> c2[x]] /\ c2.op = c.op /\ c2.pc = pc /\ c2.turn = c.turn
        /\ c2.thread = c.thread /\ c2 # None
    <3>1. c = [x \in CallFields |-> c[x]]
      BY <1>1 DEF IsCall
    <3>2. /\ c2 = [x \in CallFields |-> c2[x]] /\ c2.op = c.op /\ c2.pc = pc /\ c2.turn = c.turn
          /\ c2.thread = c.thread
      BY <2>1, <3>1 DEF CallFields
    <3> QED BY <3>2, RecordIsSome
  <2>3. IsCall(c2) /\ Snapshot(d, c2) /\ Capsule(d, c2) /\ Cites(d, n, c2) /\ ~InSection(c2) /\ ~Tests(c2)
    BY <1>1, <1>3, <2>2 DEF IsCall, Stage, Ops, Snapshot, Capsule, Cites, InSection, Tests, OfCapsule
  <2>4. Holds(d, c2)
    <3>1. HasTurn(c2) => HasTurn(c)
      BY <1>3, <2>2 DEF HasTurn, Waiting
    <3> QED BY <1>1, <2>2, <3>1 DEF Holds
  <2>5. ShowsTurns(d, c2, v)
    BY <1>1, <1>3, <2>2 DEF ShowsTurns, Other
  <2>6. Here(d, c2, v)
    <3>1. c2.op = "submit" /\ ~HasTurn(c2) => c2.pc = "refresh"
      BY <1>3, <2>2 DEF HasTurn
    <3> QED BY <1>1, <1>3, <2>2, <2>3, <3>1 DEF Here, OfCapsule
  <2>7. CallInv(d, n, c2)
    BY <2>3, <2>4 DEF CallInv
  <2> QED BY <1>1, <2>1, <2>3, <2>5, <2>6, <2>7, UiStep
<1> QED BY <1>2, <1>3

LEMMA RefusedKeeps ==
    ASSUME NoneIsNull, OnePage, ConvInd, NEW k \in Slot, call[k] # None,
           call[k].pc \notin {"fail", "refresh"}, Refused(k)
    PROVE  ConvInd'
<1> DEFINE c == call[k]  p == k[1]
<1>1. Stores(db, drawn) /\ Stores(db', drawn') /\ db' = db /\ drawn' = drawn /\ drawn.thread \in Nat
  BY StoresAreTyped DEF ConvInd, Refused
<1>2. CASE c.op # "voice"
  <2>1. /\ p \in Page /\ k = Ui(p) /\ PageInv(db, drawn, c, call[<<p, "voice">>], view[p])
    BY <1>2, UiCall
  <2>2. IsCall(c)
    BY <2>1 DEF PageInv, CallInv
  <2>3. CASE c.op \notin {"submit", "retry"} \/ c.pc = "start"
    <3>1. PageInv(db, drawn, None, call[<<p, "voice">>], view[p])
      BY <1>1, <2>1, <2>3, RefusedStep
    <3>2. Return(k, view[p])
      <4>1. c.pc = "start" => c.op \in {"submit", "retry"}
        BY <2>2 DEF IsCall, Ops, Stage, Waiting
      <4> QED BY <2>3, <4>1 DEF Refused
    <3> QED BY <1>1, <2>1, <3>1, <3>2, UiKeeps DEF Return
  <2>4. CASE c.op \in {"submit", "retry"} /\ c.pc \in {"turn", "thread", "turns", "write", "pending"}
    <3>1. PageInv(db, drawn, [c EXCEPT !.pc = "refresh", !.snap = None, !.listed = {}], call[<<p, "voice">>], view[p])
      BY <1>1, <2>1, <2>4, RefusedStep
    <3>2. Goto(k, [c EXCEPT !.pc = "refresh", !.snap = None, !.listed = {}])
      BY <2>4 DEF Refused
    <3>3. view' = [view EXCEPT ![p] = view[p]]
      BY <2>1, <3>2, SameView DEF Goto
    <3> QED BY <1>1, <2>1, <3>1, <3>2, <3>3, UiKeeps DEF Goto
  <2>5. CASE c.op \in {"submit", "retry"} /\ c.pc \notin {"start", "turn", "thread", "turns", "write", "pending"}
    <3>1. c.pc \in Waiting
      BY <2>2, <2>5 DEF IsCall, Stage, Waiting
    <3>2. PageInv(db, drawn, [c EXCEPT !.pc = "fail", !.snap = None, !.listed = {}], call[<<p, "voice">>], view[p])
      BY <1>1, <2>1, <2>5, <3>1, RefusedStep
    <3>3. Goto(k, [c EXCEPT !.pc = "fail", !.snap = None, !.listed = {}])
      BY <2>5 DEF Refused
    <3>4. view' = [view EXCEPT ![p] = view[p]]
      BY <2>1, <3>3, SameView DEF Goto
    <3> QED BY <1>1, <2>1, <3>2, <3>3, <3>4, UiKeeps DEF Goto
  <2> QED BY <2>3, <2>4, <2>5
<1>3. CASE c.op = "voice"
  <2>1. /\ p \in Page /\ k = <<p, "voice">> /\ PageInv(db, drawn, call[Ui(p)], c, view[p])
    BY <1>3, VoiceCall
  <2>2. Return(k, view[p])
    BY <1>3 DEF Refused
  <2>3. PageInv(db, drawn, call[Ui(p)], None, view[p])
    BY <2>1 DEF PageInv, CallInv, InSection, Spoken
  <2> QED BY <1>1, <2>1, <2>2, <2>3, VoiceKeeps DEF Return
<1> QED BY <1>2, <1>3

(* The controls start a call.                                              *)
LEMMA BeginStep ==
    ASSUME NoneIsNull, NEW d, NEW n, NEW s, NEW v, PageInv(d, n, None, s, v), n.thread \in Nat,
           NEW op \in Ops \ {"voice"}, NEW t, NEW arg,
           NEW pc \in {"start", "thread", "turn", "range", "capsule"}, pc \in Stage(op),
           op = "retry" => pc = "turn" /\ \E r \in TurnsOf(d, v.thread) : r.id = arg /\ r.role = "user",
           op = "test" => pc = "capsule",
           op \in {"keep", "save", "finish"} => Sound(d, n, arg),
           op \notin {"resume", "update", "test"} => t = v.thread,
           op = "submit" => (t = None <=> pc = "start"),
           op \notin {"submit", "resume", "update", "test"} => t # None,
           NEW v2, Shows(d, n, v2), v2.turns = v.turns, v2.thread = v.thread
    PROVE  PageInv(d, n, NewCall(op, t, pc, arg), s, v2)
<1>1. PICK c2 : c2 = NewCall(op, t, pc, arg)
  OBVIOUS
<1>2. /\ c2 = [x \in CallFields |-> c2[x]] /\ c2.op = op /\ c2.thread = t /\ c2.pc = pc /\ c2.arg = arg
      /\ c2.turn = None
  BY <1>1 DEF NewCall, CallFields
<1>3. IsCall(c2) /\ ~InSection(c2) /\ ~Tests(c2) /\ ~HasTurn(c2)
  BY <1>2 DEF IsCall, InSection, Tests, OfCapsule, HasTurn, Waiting
<1>4. CallInv(d, n, c2)
  BY <1>2, <1>3 DEF CallInv, Snapshot, Capsule, Holds, Cites
<1>5. ShowsTurns(d, c2, v2)
  BY <1>2 DEF PageInv, ShowsTurns, Other
<1>6. Here(d, c2, v2)
  BY <1>2, <1>3 DEF Here, OfCapsule
<1> QED BY <1>1, <1>3, <1>4, <1>5, <1>6, UiStep

(* What is known of an idle page.                                          *)
LEMMA IdlePage ==
    ASSUME ConvInd, NEW p \in Page, ~Busy(p)
    PROVE  /\ PageInv(db, drawn, None, call[<<p, "voice">>], view[p])
           /\ Shows(db, drawn, view[p]) /\ view[p].turns = TurnsOf(db, view[p].thread)
           /\ Stores(db, drawn) /\ drawn.thread \in Nat
           /\ view[p].gathered # None => Sound(db, drawn, view[p].gathered)
<1>1. PageInv(db, drawn, None, call[<<p, "voice">>], view[p]) /\ Stores(db, drawn)
  BY DEF ConvInd, Busy
<1>2. drawn.thread \in Nat
  BY <1>1, StoresAreTyped
<1> QED BY <1>1, <1>2 DEF PageInv, Shows, ShowsTurns, Other, SoundOrNone

LEMMA BeginKeeps ==
    ASSUME OnePage, ConvInd, NEW p \in Page, NEW c2, Start(p, c2),
           PageInv(db, drawn, c2, call[<<p, "voice">>], view[p])
    PROVE  ConvInd'
<1>1. view' = [view EXCEPT ![p] = view[p]] /\ Stores(db', drawn') /\ db' = db /\ drawn' = drawn
  BY SameView DEF Start, ConvInd
<1> QED BY <1>1, UiKeeps DEF Start

LEMMA SubmitKeeps ==
    ASSUME NoneIsNull, OnePage, ConvInd, NEW p \in Page, Submit(p) PROVE ConvInd'
<1> DEFINE t == view[p].thread  pc == IF t = None THEN "start" ELSE "thread"
<1>1. ~Busy(p) /\ Start(p, NewCall("submit", t, pc, None))
  BY DEF Submit, Start
<1>2. PageInv(db, drawn, NewCall("submit", t, pc, None), call[<<p, "voice">>], view[p])
  <2>1. /\ "submit" \in Ops \ {"voice"} /\ pc \in {"start", "thread", "turn", "range", "capsule"}
        /\ pc \in Stage("submit") /\ (t = None <=> pc = "start")
    BY DEF Ops, Stage
  <2> QED BY <1>1, <2>1, IdlePage, BeginStep
<1> QED BY <1>1, <1>2, BeginKeeps

LEMMA RetryKeeps ==
    ASSUME NoneIsNull, OnePage, ConvInd, NEW p \in Page, Retry(p) PROVE ConvInd'
<1> DEFINE t == view[p].thread  arg == Latest(Retryable(view[p].turns)).id
<1>1. ~Busy(p) /\ Start(p, NewCall("retry", t, "turn", arg)) /\ Retryable(view[p].turns) # {}
  BY DEF Retry, Start
<1>2. Rows(db, drawn) /\ \A r \in db.turns : r \in TurnRow
  BY <1>1, IdlePage, StoresAreTyped
<1>3. \E r \in TurnsOf(db, t) : r.id = arg /\ r.role = "user"
  <2>1. Retryable(view[p].turns) \in SUBSET TurnsOf(db, t)
    BY <1>1, IdlePage DEF Retryable
  <2>2. Latest(Retryable(view[p].turns)) \in Retryable(view[p].turns)
    BY <1>1, <1>2, <2>1, LatestIs
  <2> QED BY <2>1, <2>2 DEF Retryable
<1>4. t # None
  BY <1>2, <1>3 DEF TurnsOf, TurnRow, NoneIsNull
<1>5. PageInv(db, drawn, NewCall("retry", t, "turn", arg), call[<<p, "voice">>], view[p])
  <2>1. "retry" \in Ops \ {"voice"} /\ "turn" \in {"start", "thread", "turn", "range", "capsule"}
        /\ "turn" \in Stage("retry")
    BY DEF Ops, Stage
  <2> HIDE DEF arg
  <2> QED BY <1>1, <1>3, <1>4, <2>1, IdlePage, BeginStep
<1> QED BY <1>1, <1>5, BeginKeeps

LEMMA ChallengeKeeps ==
    ASSUME NoneIsNull, OnePage, ConvInd, NEW p \in Page, Challenge(p) PROVE ConvInd'
<1> DEFINE t == view[p].thread
<1>1. ~Busy(p) /\ Start(p, NewCall("challenge", t, "thread", None)) /\ t # None
  BY DEF Challenge, Start
<1>2. PageInv(db, drawn, NewCall("challenge", t, "thread", None), call[<<p, "voice">>], view[p])
  <2>1. "challenge" \in Ops \ {"voice"} /\ "thread" \in {"start", "thread", "turn", "range", "capsule"}
        /\ "thread" \in Stage("challenge")
    BY DEF Ops, Stage
  <2> QED BY <1>1, <2>1, IdlePage, BeginStep
<1> QED BY <1>1, <1>2, BeginKeeps

LEMMA DraftConclusionKeeps ==
    ASSUME NoneIsNull, OnePage, ConvInd, NEW p \in Page, DraftConclusion(p) PROVE ConvInd'
<1> DEFINE t == view[p].thread
<1>1. CASE view[p].conclusion # None
  <2>1. ~Busy(p) /\ view' = [view EXCEPT ![p].gathered = view[p].conclusion] /\ db' = db /\ drawn' = drawn
        /\ call' = call /\ t # None
    BY <1>1 DEF DraftConclusion
  <2>2. PICK v2 : v2 = [view[p] EXCEPT !.gathered = view[p].conclusion]
    OBVIOUS
  <2>3. /\ v2 = [x \in ViewFields |-> v2[x]] /\ v2.thread = t /\ v2.conclusion = view[p].conclusion
        /\ v2.turns = view[p].turns /\ v2.listening = view[p].listening /\ v2.capsules = view[p].capsules
        /\ v2.gathered = view[p].conclusion
    <3>1. view[p] = [x \in ViewFields |-> view[p][x]]
      BY <2>1, IdlePage DEF Shows
    <3> QED BY <2>2, <3>1 DEF ViewFields
  <2>4. SoundOrNone(db, drawn, view[p].conclusion)
    BY <2>1, IdlePage, StoresAreTyped DEF Shows
  <2>5. Shows(db, drawn, v2)
    BY <2>1, <2>3, <2>4, IdlePage DEF Shows
  <2>6. PageInv(db, drawn, None, call[<<p, "voice">>], v2)
    BY <2>1, <2>3, <2>5, IdlePage DEF PageInv, ShowsTurns, Here, Spoken
  <2>7. view' = [view EXCEPT ![p] = v2]
    BY <2>1, <2>2
  <2>8. call' = [call EXCEPT ![Ui(p)] = None]
    BY <2>1, SameCalls DEF Busy, Ui, Slot
  <2> QED BY <2>1, <2>6, <2>7, <2>8, IdlePage, UiKeeps
<1>2. CASE view[p].conclusion = None
  <2>1. ~Busy(p) /\ Start(p, NewCall("conclude", t, "thread", None)) /\ t # None
    BY <1>2 DEF DraftConclusion, Start
  <2>2. PageInv(db, drawn, NewCall("conclude", t, "thread", None), call[<<p, "voice">>], view[p])
    <3>1. "conclude" \in Ops \ {"voice"} /\ "thread" \in {"start", "thread", "turn", "range", "capsule"}
          /\ "thread" \in Stage("conclude")
      BY DEF Ops, Stage
    <3> QED BY <2>1, <3>1, IdlePage, BeginStep
  <2> QED BY <2>1, <2>2, BeginKeeps
<1> QED BY <1>1, <1>2

LEMMA GatheredKeeps ==
    ASSUME NoneIsNull, OnePage, ConvInd, NEW p \in Page, KeepDigging(p) \/ SaveCapsule(p) \/ Finish(p)
    PROVE  ConvInd'
<1> DEFINE t == view[p].thread  G == view[p].gathered
<1>1. PICK op \in {"keep", "save", "finish"} :
        Start(p, NewCall(op, t, IF op = "keep" THEN "thread" ELSE "range", G))
  BY DEF KeepDigging, SaveCapsule, Finish
<1>2. ~Busy(p) /\ t # None /\ G # None
  BY DEF KeepDigging, SaveCapsule, Finish, Start
<1> DEFINE pc == IF op = "keep" THEN "thread" ELSE "range"
<1>3. PageInv(db, drawn, NewCall(op, t, pc, G), call[<<p, "voice">>], view[p])
  <2>1. op \in Ops \ {"voice"} /\ pc \in {"start", "thread", "turn", "range", "capsule"}
        /\ pc \in Stage(op) /\ op \notin {"submit", "retry", "test", "resume", "update"}
    BY DEF Ops, Stage
  <2> QED BY <1>2, <2>1, IdlePage, BeginStep
<1> QED BY <1>1, <1>3, BeginKeeps

LEMMA RevisitKeeps ==
    ASSUME NoneIsNull, OnePage, ConvInd, NEW p \in Page, NEW op \in {"resume", "test", "update"}, Revisit(p, op)
    PROVE  ConvInd'
<1>1. PICK x \in view[p].capsules :
        /\ ~Busy(p)
        /\ call' = [call EXCEPT ![Ui(p)] = NewCall(op, None, "capsule", x)]
        /\ view' = IF op = "update" THEN view ELSE [view EXCEPT ![p].gathered = None]
        /\ db' = db /\ drawn' = drawn
  BY DEF Revisit
<1>2. PICK v2 : v2 = IF op = "update" THEN view[p] ELSE [view[p] EXCEPT !.gathered = None]
  OBVIOUS
<1>3. view' = [view EXCEPT ![p] = v2]
  BY <1>1, <1>2, SameView
<1>4. Shows(db, drawn, v2) /\ v2.turns = view[p].turns /\ v2.thread = view[p].thread
  <2>1. CASE op = "update"
    BY <1>1, <1>2, <2>1, IdlePage
  <2>2. CASE op # "update"
    <3>1. view[p] = [y \in ViewFields |-> view[p][y]]
      BY <1>1, IdlePage DEF Shows
    <3>2. /\ v2 = [y \in ViewFields |-> v2[y]] /\ v2.thread = view[p].thread
          /\ v2.conclusion = view[p].conclusion /\ v2.turns = view[p].turns
          /\ v2.listening = view[p].listening /\ v2.capsules = view[p].capsules /\ v2.gathered = None
      BY <1>2, <2>2, <3>1 DEF ViewFields
    <3> QED BY <1>1, <3>2, IdlePage DEF Shows, SoundOrNone
  <2> QED BY <2>1, <2>2
<1>5. PageInv(db, drawn, NewCall(op, None, "capsule", x), call[<<p, "voice">>], v2)
  <2>1. op \in Ops \ {"voice"} /\ "capsule" \in {"start", "thread", "turn", "range", "capsule"}
        /\ "capsule" \in Stage(op) /\ op \notin {"submit", "retry", "keep", "save", "finish"}
    BY DEF Ops, Stage
  <2> QED BY <1>1, <1>4, <2>1, IdlePage, BeginStep
<1> QED BY <1>1, <1>3, <1>5, IdlePage, UiKeeps

(* Deletions, the microphone and a reload.                                 *)
LEMMA IdleStep ==
    ASSUME NEW d, NEW n, NEW c, NEW s, NEW v, PageInv(d, n, c, s, v),
           NEW e, NEW m, NEW v2,
           n.thread \in Nat, m.thread \in Nat,
           (e = d /\ m = n) \/ (~InSection(s) /\ n.thread <= m.thread),
           Shows(e, m, v2), v2.turns = TurnsOf(e, v2.thread)
    PROVE  PageInv(e, m, None, s, v2)
<1>1. CallInv(e, m, None) /\ Here(e, None, v2) /\ ~InSection(None) /\ ~Tests(None) /\ ShowsTurns(e, None, v2)
  BY DEF CallInv, Here, InSection, Tests, ShowsTurns, Other
<1> QED BY <1>1, UiStep

LEMMA NoThread == ASSUME NoneIsNull, NEW d, NEW n, Stores(d, n) PROVE TurnsOf(d, None) = {}
<1>1. \A r \in d.turns : r \in TurnRow
  BY StoresAreTyped
<1> QED BY <1>1 DEF NoneIsNull, TurnsOf, TurnRow

LEMMA EmptyShows ==
    ASSUME NoneIsNull, NEW d, NEW n, Stores(d, n),
           NEW v, v = [x \in ViewFields |-> v[x]], v.thread = None, v.turns = {}, v.gathered = None,
           v.listening = FALSE, v.capsules = Ids(d.capsules)
    PROVE  Shows(d, n, v) /\ v.turns = TurnsOf(d, v.thread)
BY NoThread DEF Shows, SoundOrNone

LEMMA Undisturbing ==
    ASSUME OnePage, NEW k \in Slot, Undisturbed(Slot) PROVE ~InSection(call[k])
BY DEF Undisturbed, OnePage

LEMMA DeleteCurrentThreadKeeps ==
    ASSUME NoneIsNull, OnePage, ConvInd, NEW p \in Page, DeleteCurrentThread(p) PROVE ConvInd'
<1>1. /\ ~Busy(p) /\ Undisturbed(Slot)
      /\ db' = DeleteThread(db, view[p].thread)
      /\ view' = [view EXCEPT ![p] = [EmptyView EXCEPT !.capsules = view[p].capsules]]
      /\ call' = call /\ drawn' = drawn
  BY DEF DeleteCurrentThread
<1>2. <<p, "voice">> \in Slot /\ Ui(p) \in Slot
  BY DEF Slot, Ui
<1>3. ~InSection(call[<<p, "voice">>])
  BY <1>1, <1>2, Undisturbing
<1>4. Stores(db', drawn) /\ db'.capsules = db.capsules
  <2>1. Stores(db, drawn)
    BY <1>1, IdlePage
  <2> QED BY <1>1, <2>1, ThreadDeleted
<1>5. view[p].capsules = Ids(db.capsules)
  BY <1>1, IdlePage DEF Shows
<1>6. PICK v2 : v2 = [EmptyView EXCEPT !.capsules = view[p].capsules]
  OBVIOUS
<1>7. Shows(db', drawn, v2) /\ v2.turns = TurnsOf(db', v2.thread)
  <2>1. view[p].capsules = Ids(db'.capsules)
    BY <1>4, <1>5
  <2>2. /\ v2 = [x \in ViewFields |-> v2[x]] /\ v2.thread = None /\ v2.turns = {} /\ v2.gathered = None
        /\ v2.listening = FALSE /\ v2.capsules = view[p].capsules
    BY <1>6 DEF EmptyView, ViewFields
  <2> QED BY <1>4, <2>1, <2>2, EmptyShows
<1>8. PageInv(db', drawn, None, call[<<p, "voice">>], v2)
  BY <1>1, <1>3, <1>7, IdlePage, IdleStep
<1>9. call' = [call EXCEPT ![Ui(p)] = None]
  BY <1>1, <1>2, SameCalls DEF Busy
<1> QED BY <1>1, <1>4, <1>6, <1>8, <1>9, UiKeeps

LEMMA DeleteOneCapsuleKeeps ==
    ASSUME NoneIsNull, OnePage, ConvInd, NEW p \in Page, DeleteOneCapsule(p) PROVE ConvInd'
<1>1. PICK x \in view[p].capsules :
        /\ ~Busy(p) /\ Undisturbed(Slot)
        /\ db' = DeleteCapsule(db, x)
        /\ view' = [view EXCEPT ![p].capsules = @ \ {x}]
        /\ call' = call /\ drawn' = drawn
  BY DEF DeleteOneCapsule
<1>2. <<p, "voice">> \in Slot /\ Ui(p) \in Slot
  BY DEF Slot, Ui
<1>3. ~InSection(call[<<p, "voice">>])
  BY <1>1, <1>2, Undisturbing
<1>4. /\ Stores(db', drawn) /\ Later(db, drawn, db', drawn)
      /\ db'.threads = db.threads /\ db'.turns = db.turns
      /\ Ids(db'.capsules) = Ids(db.capsules) \ {x}
  BY <1>1, IdlePage, CapsuleRemoved
<1>5. PICK v2 : v2 = [view[p] EXCEPT !.capsules = @ \ {x}]
  OBVIOUS
<1>6. /\ v2 = [y \in ViewFields |-> v2[y]] /\ v2.thread = view[p].thread
      /\ v2.conclusion = view[p].conclusion /\ v2.turns = view[p].turns
      /\ v2.listening = view[p].listening /\ v2.capsules = view[p].capsules \ {x}
      /\ v2.gathered = view[p].gathered
  <2>1. view[p] = [y \in ViewFields |-> view[p][y]]
    BY <1>1, IdlePage DEF Shows
  <2> QED BY <1>5, <2>1 DEF ViewFields
<1>7. Shows(db', drawn, v2) /\ v2.turns = TurnsOf(db', v2.thread)
  <2>1. drawn \in [thread : Nat, turn : Nat, capsule : Nat]
    BY <1>4, StoresAreTyped
  <2>2. SoundOrNone(db', drawn, v2.gathered)
    BY <1>1, <1>4, <1>6, <2>1, IdlePage, SoundStays DEF Shows
  <2>3. Shows(db, drawn, view[p]) /\ view[p].turns = TurnsOf(db, view[p].thread)
    BY <1>1, IdlePage
  <2>4. Shows(db', drawn, v2)
    BY <1>4, <1>6, <2>2, <2>3 DEF Shows
  <2>5. TurnsOf(db', v2.thread) = TurnsOf(db, v2.thread)
    BY <1>4 DEF TurnsOf
  <2> QED BY <1>6, <2>3, <2>4, <2>5
<1>8. PageInv(db', drawn, None, call[<<p, "voice">>], v2)
  BY <1>1, <1>3, <1>7, IdlePage, IdleStep
<1>9. call' = [call EXCEPT ![Ui(p)] = None]
  BY <1>1, <1>2, SameCalls DEF Busy
<1>10. view' = [view EXCEPT ![p] = v2]
  BY <1>1, <1>5
<1> QED BY <1>1, <1>4, <1>8, <1>9, <1>10, UiKeeps

LEMMA DeleteAllKeeps ==
    ASSUME NoneIsNull, OnePage, ConvInd, NEW p \in Page, DeleteAll(p) PROVE ConvInd'
<1>1. /\ ~Busy(p) /\ Undisturbed(Slot)
      /\ db' = EmptyDb
      /\ view' = [view EXCEPT ![p] = EmptyView]
      /\ call' = call /\ drawn' = drawn
  BY DEF DeleteAll, DeleteOwnerRows
<1>2. <<p, "voice">> \in Slot /\ Ui(p) \in Slot
  BY DEF Slot, Ui
<1>3. ~InSection(call[<<p, "voice">>])
  BY <1>1, <1>2, Undisturbing
<1>4. Stores(db', drawn)
  <2>1. Stores(db, drawn)
    BY <1>1, IdlePage
  <2>2. drawn \in [thread : Nat, turn : Nat, capsule : Nat]
    BY <2>1, StoresAreTyped
  <2> QED BY <1>1, <2>2, NothingStored
<1>6. PICK v2 : v2 = EmptyView
  OBVIOUS
<1>7. Shows(db', drawn, v2) /\ v2.turns = TurnsOf(db', v2.thread)
  <2>1. {} = Ids(db'.capsules)
    BY <1>1 DEF EmptyDb, Ids
  <2>2. /\ v2 = [x \in ViewFields |-> v2[x]] /\ v2.thread = None /\ v2.turns = {} /\ v2.gathered = None
        /\ v2.listening = FALSE /\ v2.capsules = {}
    BY <1>6 DEF EmptyView, ViewFields
  <2> QED BY <1>4, <2>1, <2>2, EmptyShows
<1>8. PageInv(db', drawn, None, call[<<p, "voice">>], v2)
  BY <1>1, <1>3, <1>7, IdlePage, IdleStep
<1>9. call' = [call EXCEPT ![Ui(p)] = None]
  BY <1>1, <1>2, SameCalls DEF Busy
<1> QED BY <1>1, <1>4, <1>6, <1>8, <1>9, UiKeeps

LEMMA ListenKeeps ==
    ASSUME NoneIsNull, OnePage, ConvInd, NEW p \in Page, Listen(p) PROVE ConvInd'
<1>1. /\ ~Busy(p) /\ view[p].thread # None
      /\ view' = [view EXCEPT ![p].listening = TRUE]
      /\ db' = db /\ call' = call /\ drawn' = drawn
  BY DEF Listen
<1>2. PICK v2 : v2 = [view[p] EXCEPT !.listening = TRUE]
  OBVIOUS
<1>3. /\ v2 = [y \in ViewFields |-> v2[y]] /\ v2.thread = view[p].thread
      /\ v2.conclusion = view[p].conclusion /\ v2.turns = view[p].turns
      /\ v2.listening = TRUE /\ v2.capsules = view[p].capsules
      /\ v2.gathered = view[p].gathered
  <2>1. view[p] = [y \in ViewFields |-> view[p][y]]
    BY <1>1, IdlePage DEF Shows
  <2> QED BY <1>2, <2>1 DEF ViewFields
<1>4. Shows(db, drawn, v2) /\ v2.turns = TurnsOf(db, v2.thread)
  <2>1. Shows(db, drawn, view[p]) /\ view[p].turns = TurnsOf(db, view[p].thread)
    BY <1>1, IdlePage
  <2>2. Shows(db, drawn, v2)
    BY <1>1, <1>3, <2>1 DEF Shows
  <2> QED BY <1>3, <2>1, <2>2
<1>5. PageInv(db, drawn, None, call[<<p, "voice">>], v2)
  BY <1>1, <1>4, IdlePage, IdleStep
<1>6. call' = [call EXCEPT ![Ui(p)] = None]
  BY <1>1, SameCalls DEF Busy, Slot, Ui
<1>7. view' = [view EXCEPT ![p] = v2]
  BY <1>1, <1>2
<1> QED BY <1>1, <1>5, <1>6, <1>7, IdlePage, UiKeeps

LEMMA ExchangeKeeps ==
    ASSUME NoneIsNull, OnePage, ConvInd, NEW p \in Page, Exchange(p) PROVE ConvInd'
<1> DEFINE c == call[Ui(p)]  v == view[p]
<1>1. /\ v.listening /\ call[<<p, "voice">>] = None
      /\ call' = [call EXCEPT ![<<p, "voice">>] = NewCall("voice", v.thread, "thread", None)]
      /\ db' = db /\ view' = view /\ drawn' = drawn
  BY DEF Exchange
<1>2. Stores(db, drawn) /\ PageInv(db, drawn, c, None, v)
  BY <1>1 DEF ConvInd
<1>3. v.thread \in 1 .. drawn.thread
  <2>1. PICK t \in db.threads : t.id = v.thread
    BY <1>1, <1>2 DEF PageInv, Shows
  <2> QED BY <1>2, <2>1, StoresAreTyped
<1>4. PICK s2 : s2 = NewCall("voice", v.thread, "thread", None)
  OBVIOUS
<1>5. /\ s2 = [x \in CallFields |-> s2[x]] /\ s2.op = "voice" /\ s2.thread = v.thread /\ s2.pc = "thread"
  BY <1>4 DEF NewCall, CallFields
<1>6. CallInv(db, drawn, s2) /\ ~InSection(s2)
  BY <1>5 DEF CallInv, IsCall, Ops, Stage, Snapshot, Capsule, Holds, HasTurn, Cites, OfCapsule, InSection
<1>7. Spoken(drawn, c, s2)
  BY <1>1, <1>2, <1>3, <1>5 DEF PageInv, Here, Spoken, Tests
<1>8. PageInv(db, drawn, c, s2, v)
  BY <1>2, <1>6, <1>7 DEF PageInv
<1>9. view' = [view EXCEPT ![p] = v]
  BY <1>1, SameView
<1> QED BY <1>1, <1>2, <1>4, <1>8, <1>9, VoiceKeeps

LEMMA ReloadKeeps ==
    ASSUME NoneIsNull, OnePage, ConvInd, NEW p \in Page, Reload(p) PROVE ConvInd'
<1>1. PICK t \in IF ActiveThreads(db) = {} THEN {None} ELSE ActiveThreads(db) :
        /\ view' = [view EXCEPT ![p] = Load(p, t)]
        /\ call' = [k \in Slot |-> IF k[1] = p THEN None ELSE call[k]]
        /\ db' = db /\ drawn' = drawn
  BY DEF Reload
<1>2. Stores(db, drawn) /\ view = [q \in Page |-> view[q]]
  BY DEF ConvInd
<1>3. PICK v2 : v2 = Load(p, t)
  OBVIOUS
<1>4. Shows(db, drawn, v2) /\ v2.turns = TurnsOf(db, v2.thread)
  <2>1. /\ v2 = [x \in ViewFields |-> v2[x]] /\ v2.capsules = Ids(db.capsules) /\ v2.gathered = None
        /\ v2.listening = FALSE
        /\ v2.thread = (IF t = None THEN None ELSE t.id)
        /\ v2.conclusion = (IF t = None THEN None ELSE t.conclusion)
        /\ v2.turns = (IF t = None THEN {} ELSE TurnsOf(db, t.id))
    BY <1>3 DEF Load, EmptyView, ViewFields
  <2>2. CASE t = None
    BY <1>2, <2>1, <2>2, NoThread DEF Shows, SoundOrNone
  <2>3. CASE t # None
    <3>1. t \in db.threads /\ t.state = "active"
      BY <1>1, <2>3 DEF ActiveThreads
    <3> QED BY <2>1, <2>3, <3>1 DEF Shows, SoundOrNone
  <2> QED BY <2>2, <2>3
<1>5. PageInv(db, drawn, None, None, v2)
  BY <1>4 DEF PageInv, CallInv, InSection, Here, Spoken, ShowsTurns, Other
<1>6. /\ call'[Ui(p)] = None /\ call'[<<p, "voice">>] = None /\ view'[p] = v2
      /\ call' = [k \in Slot |-> call'[k]] /\ view' = [q \in Page |-> view'[q]]
  BY <1>1, <1>2, <1>3 DEF Slot, Ui
<1> QED BY <1>1, <1>2, <1>5, <1>6, PageKeeps

(* The steps of the call behind the controls.                              *)
LEMMA UiKnown ==
    ASSUME OnePage, ConvInd, NEW k \in Slot, NEW pcs, At(k, pcs),
           call[k].op # "voice" \/ call[k].pc \notin {"thread", "turns", "accept"}
    PROVE  /\ call[k] # None /\ call[k].pc \in pcs
           /\ k[1] \in Page /\ k = Ui(k[1]) /\ ~InSection(call[<<k[1], "voice">>])
           /\ PageInv(db, drawn, call[k], call[<<k[1], "voice">>], view[k[1]])
           /\ call[k] = [x \in CallFields |-> call[k][x]]
           /\ IsCall(call[k]) /\ call[k].op \in Ops \ {"voice"} /\ call[k].pc \in Stage(call[k].op)
           /\ Snapshot(db, call[k]) /\ Capsule(db, call[k]) /\ Holds(db, call[k])
           /\ Cites(db, drawn, call[k])
           /\ Shows(db, drawn, view[k[1]]) /\ ShowsTurns(db, call[k], view[k[1]])
           /\ Here(db, call[k], view[k[1]])
           /\ Stores(db, drawn) /\ drawn.thread \in Nat
<1>1. call[k] # None /\ call[k].pc \in pcs
  BY DEF At
<1>2. /\ k[1] \in Page /\ k = Ui(k[1]) /\ k # <<k[1], "voice">> /\ <<k[1], "voice">> \in Slot
      /\ PageInv(db, drawn, call[k], call[<<k[1], "voice">>], view[k[1]])
      /\ Stores(db, drawn) /\ call[k].op # "voice"
  BY <1>1, UiCall
<1>3. ~InSection(call[<<k[1], "voice">>])
  BY <1>2, Alone
<1>4. drawn.thread \in Nat
  BY <1>2, StoresAreTyped
<1>5. /\ Shows(db, drawn, view[k[1]]) /\ ShowsTurns(db, call[k], view[k[1]])
      /\ Here(db, call[k], view[k[1]])
      /\ IsCall(call[k])
      /\ Snapshot(db, call[k]) /\ Capsule(db, call[k]) /\ Holds(db, call[k])
      /\ Cites(db, drawn, call[k])
  BY <1>1, <1>2 DEF PageInv, CallInv
<1>6. /\ call[k] = [x \in CallFields |-> call[k][x]]
      /\ call[k].op \in Ops \ {"voice"} /\ call[k].pc \in Stage(call[k].op)
  BY <1>2, <1>5 DEF IsCall
<1> QED BY <1>1, <1>2, <1>3, <1>4, <1>5, <1>6

LEMMA UiMoves ==
    ASSUME OnePage, ConvInd, NEW k \in Slot, NEW pcs, At(k, pcs),
           call[k].op # "voice" \/ call[k].pc \notin {"thread", "turns", "accept"},
           NEW c2, Goto(k, c2), db' = db, drawn' = drawn,
           IsCall(c2), Snapshot(db, c2), Capsule(db, c2), Holds(db, c2), Cites(db, drawn, c2),
           ShowsTurns(db, c2, view[k[1]]), Here(db, c2, view[k[1]]),
           Tests(c2) => Tests(call[k]) /\ c2.thread = call[k].thread
    PROVE  ConvInd'
<1>1. CallInv(db, drawn, c2)
  BY DEF CallInv
<1>4. /\ k[1] \in Page /\ k = Ui(k[1]) /\ ~InSection(call[<<k[1], "voice">>])
      /\ PageInv(db, drawn, call[k], call[<<k[1], "voice">>], view[k[1]])
      /\ Shows(db, drawn, view[k[1]]) /\ drawn.thread \in Nat /\ Stores(db, drawn)
  BY UiKnown
<1>2. PageInv(db, drawn, c2, call[<<k[1], "voice">>], view[k[1]])
  BY <1>1, <1>4, UiStep
<1>3. view' = [view EXCEPT ![k[1]] = view[k[1]]]
  BY <1>4, SameView DEF Goto
<1>5. call' = [call EXCEPT ![Ui(k[1])] = c2]
  BY <1>4 DEF Goto
<1> QED BY <1>2, <1>3, <1>4, <1>5, UiKeeps

LEMMA ReadTurnKeeps ==
    ASSUME NoneIsNull, OnePage, ConvInd, NEW k \in Slot, ReadTurn(k) PROVE ConvInd'
<1> DEFINE c == call[k]  v == view[k[1]]  row == Get(db.turns, c.arg)
<1>1. At(k, {"turn"}) /\ c # None /\ c.pc = "turn"
  BY DEF ReadTurn, At
<1>2. CASE Refused(k)
  BY <1>1, <1>2, RefusedKeeps
<1>3. CASE /\ row # None /\ row.state # "accepted"
           /\ Goto(k, [c EXCEPT !.turn = row, !.thread = row.thread, !.pc = "thread"])
           /\ db' = db /\ drawn' = drawn
  <2>1. PICK c2 : c2 = [c EXCEPT !.turn = row, !.thread = row.thread, !.pc = "thread"]
    OBVIOUS
  <2>2. /\ c = [x \in CallFields |-> c[x]] /\ c.pc \in Stage(c.op) /\ c.op \in Ops
        /\ Shows(db, drawn, v) /\ ShowsTurns(db, c, v) /\ Here(db, c, v) /\ Stores(db, drawn)
    BY <1>1, UiKnown
  <2>3. c.op = "retry"
    BY <1>1, <2>2 DEF Stage, Ops, Waiting
  <2>4. /\ c2 = [x \in CallFields |-> c2[x]] /\ c2.op = "retry" /\ c2.thread = row.thread
        /\ c2.pc = "thread" /\ c2.turn = row
    BY <2>1, <2>2, <2>3 DEF CallFields
  <2>5. row \in db.turns /\ row.id = c.arg
    BY <1>3, GetSome
  <2>6. row \in TurnsOf(db, v.thread) /\ row.role = "user" /\ c.turn = None
    <3>1. PICK r \in TurnsOf(db, v.thread) : r.id = c.arg /\ r.role = "user"
      BY <1>1, <2>2, <2>3 DEF Here
    <3>2. r = row
      BY <2>2, <2>5, <3>1, StoresAreTyped DEF TurnsOf, Distinct
    <3> QED BY <1>1, <2>2, <2>3, <3>1, <3>2 DEF Here
  <2>7. row.thread = v.thread /\ c.thread = v.thread /\ c.thread # None
    BY <1>1, <2>2, <2>3, <2>6 DEF TurnsOf, Here, OfCapsule
  <2>8. /\ IsCall(c2) /\ Snapshot(db, c2) /\ Capsule(db, c2) /\ Holds(db, c2) /\ Cites(db, drawn, c2)
        /\ ~Tests(c2) /\ ~OfCapsule(c2)
    BY <1>3, <2>4, <2>5, <2>6
    DEF IsCall, Ops, Stage, Snapshot, Capsule, Holds, Cites, Tests, OfCapsule, TurnsOf
  <2>9. ShowsTurns(db, c2, v)
    <3>1. v.turns = TurnsOf(db, v.thread)
      BY <2>2, <2>6 DEF ShowsTurns, Other
    <3> QED BY <3>1 DEF ShowsTurns, Other
  <2>10. Here(db, c2, v)
    BY <2>4, <2>7, <2>8 DEF Here
  <2> QED BY <1>1, <1>3, <2>1, <2>8, <2>9, <2>10, UiMoves
<1> QED BY <1>2, <1>3 DEF ReadTurn

LEMMA ReadRangeKeeps ==
    ASSUME NoneIsNull, OnePage, ConvInd, NEW k \in Slot, ReadRange(k) PROVE ConvInd'
<1> DEFINE c == call[k]  v == view[k[1]]  rows == TurnsOf(db, c.thread)
           range == <<First(rows).id, Latest(rows).id>>
<1>1. At(k, {"range"}) /\ c # None /\ c.pc = "range"
  BY DEF ReadRange, At
<1>2. CASE Refused(k)
  BY <1>1, <1>2, RefusedKeeps
<1>3. CASE Goto(k, [c EXCEPT !.turn = range, !.pc = "thread"]) /\ db' = db /\ drawn' = drawn
  <2>1. PICK c2 : c2 = [c EXCEPT !.turn = range, !.pc = "thread"]
    OBVIOUS
  <2>2. /\ c = [x \in CallFields |-> c[x]] /\ c.pc \in Stage(c.op) /\ c.op \in Ops
        /\ Shows(db, drawn, v) /\ ShowsTurns(db, c, v) /\ Here(db, c, v) /\ Cites(db, drawn, c)
    BY <1>1, UiKnown
  <2>3. c.op \in {"save", "finish"}
    BY <1>1, <2>2 DEF Stage, Ops, Waiting
  <2>4. /\ c2 = [x \in CallFields |-> c2[x]] /\ c2.op = c.op /\ c2.thread = c.thread
        /\ c2.pc = "thread" /\ c2.arg = c.arg
    <3> HIDE DEF range
    <3> QED BY <2>1, <2>2 DEF CallFields
  <2>5. /\ IsCall(c2) /\ Snapshot(db, c2) /\ Capsule(db, c2) /\ Holds(db, c2) /\ Cites(db, drawn, c2)
        /\ ~Tests(c2) /\ ~OfCapsule(c2)
    BY <2>2, <2>3, <2>4
    DEF IsCall, Ops, Stage, Snapshot, Capsule, Holds, HasTurn, Cites, Tests, OfCapsule
  <2>6. ShowsTurns(db, c2, v)
    BY <2>2, <2>3, <2>4 DEF ShowsTurns, Other
  <2>7. Here(db, c2, v)
    BY <1>1, <2>2, <2>3, <2>4, <2>5 DEF Here, OfCapsule
  <2> HIDE DEF range
  <2> QED BY <1>1, <1>3, <2>1, <2>5, <2>6, <2>7, UiMoves
<1> QED BY <1>2, <1>3 DEF ReadRange

LEMMA CallKnown ==
    ASSUME OnePage, ConvInd, NEW k \in Slot, NEW pcs, At(k, pcs)
    PROVE  /\ call[k] # None /\ call[k].pc \in pcs
           /\ call[k] = [x \in CallFields |-> call[k][x]]
           /\ IsCall(call[k]) /\ call[k].op \in Ops /\ call[k].pc \in Stage(call[k].op)
           /\ Snapshot(db, call[k]) /\ Capsule(db, call[k]) /\ Holds(db, call[k])
           /\ Cites(db, drawn, call[k])
           /\ Stores(db, drawn)
<1>1. call[k] # None /\ call[k].pc \in pcs
  BY DEF At
<1>2. CallInv(db, drawn, call[k]) /\ Stores(db, drawn)
  <2>1. CASE call[k].op = "voice"
    BY <1>1, <2>1, VoiceCall DEF PageInv
  <2>2. CASE call[k].op # "voice"
    BY <1>1, <2>2, UiCall DEF PageInv
  <2> QED BY <2>1, <2>2
<1> QED BY <1>1, <1>2 DEF CallInv, IsCall

LEMMA Proceeds ==
    ASSUME NoneIsNull, OnePage, ConvInd, NEW k \in Slot, NEW pcs, At(k, pcs),
           NEW c2, Goto(k, c2), db' = db, drawn' = drawn,
           IsCall(c2), c2.op = call[k].op, c2.thread = call[k].thread, c2.turn = call[k].turn,
           call[k].pc \notin {"start", "turn", "refresh"}, c2.pc \notin {"start", "turn", "refresh"},
           HasTurn(c2) <=> HasTurn(call[k]), OfCapsule(c2) <=> OfCapsule(call[k]),
           Snapshot(db, c2), Capsule(db, c2), Cites(db, drawn, c2)
    PROVE  ConvInd'
<1> DEFINE c == call[k]  v == view[k[1]]
<1>1. Holds(db, c2) /\ c # None /\ c2 # None
  <2>1. c2 # None
    BY RecordIsSome DEF IsCall
  <2> QED BY <2>1, CallKnown DEF Holds
<1>2. CASE c.op # "voice"
  <2>1. ShowsTurns(db, c, v) /\ Here(db, c, v)
    BY <1>2, UiKnown
  <2>2. ShowsTurns(db, c2, v)
    <3>1. \A rows : Other(rows, c2) = Other(rows, c)
      BY <1>1 DEF Other
    <3> QED BY <2>1, <3>1 DEF ShowsTurns
  <2>3. Here(db, c2, v) /\ (Tests(c2) => Tests(c))
    BY <1>1, <2>1 DEF Here, Tests
  <2> QED BY <1>1, <1>2, <2>2, <2>3, UiMoves
<1>3. CASE c.op = "voice"
  <2>1. /\ k[1] \in Page /\ k = <<k[1], "voice">> /\ k # Ui(k[1]) /\ Ui(k[1]) \in Slot
        /\ PageInv(db, drawn, call[Ui(k[1])], call[k], view[k[1]])
        /\ Stores(db, drawn)
    BY <1>1, <1>3, VoiceCall
  <2>2. ~InSection(call[Ui(k[1])])
    BY <2>1, Alone
  <2>3. CallInv(db, drawn, c2)
    BY <1>1 DEF CallInv
  <2>4. PageInv(db, drawn, call[Ui(k[1])], c2, v)
    BY <1>1, <2>1, <2>2, <2>3 DEF PageInv, Spoken
  <2>5. view' = [view EXCEPT ![k[1]] = v]
    BY <2>1, SameView DEF Goto
  <2>6. call' = [call EXCEPT ![<<k[1], "voice">>] = c2]
    BY <2>1 DEF Goto
  <2> QED BY <2>1, <2>4, <2>5, <2>6, VoiceKeeps
<1> QED BY <1>2, <1>3

LEMMA RequireActiveThreadKeeps ==
    ASSUME NoneIsNull, OnePage, ConvInd, NEW k \in Slot, RequireActiveThread(k) PROVE ConvInd'
<1> DEFINE c == call[k]  row == Get(db.threads, c.thread)
<1>1. At(k, {"thread", "thread2"}) /\ c # None /\ c.pc \in {"thread", "thread2"}
  BY DEF RequireActiveThread, At
<1>2. CASE Refused(k)
  BY <1>1, <1>2, RefusedKeeps
<1>3. CASE /\ row # None /\ row.state = "active"
           /\ Goto(k, [c EXCEPT !.snap = row, !.pc = AfterThread(c)])
           /\ db' = db /\ drawn' = drawn
  <2>1. PICK c2 : c2 = [c EXCEPT !.snap = row, !.pc = AfterThread(c)]
    OBVIOUS
  <2>2. /\ c = [x \in CallFields |-> c[x]] /\ c.op \in Ops /\ c.pc \in Stage(c.op)
        /\ Cites(db, drawn, c)
    BY <1>1, CallKnown
  <2>3. /\ c2 = [x \in CallFields |-> c2[x]] /\ c2.op = c.op /\ c2.thread = c.thread
        /\ c2.pc = AfterThread(c) /\ c2.turn = c.turn /\ c2.arg = c.arg /\ c2.snap = row
    BY <2>1, <2>2 DEF CallFields
  <2>4. row \in db.threads /\ row.id = c.thread
    BY <1>3, GetSome
  <2>5. /\ IsCall(c2) /\ c2.pc \in {"turns2", "pending", "context", "turns"}
        /\ c2.pc = "turns2" <=> c.pc = "thread2"
        /\ c2.pc = "context" => c.op \in {"challenge", "conclude", "test"}
        /\ c2.pc = "pending" => c.op = "retry"
        /\ c2.pc = "turns" => c.op \notin {"retry", "challenge", "conclude", "test"}
    <3>1. CASE c.pc = "thread2"
      <4>1. c2.pc = "turns2" /\ c.op \in {"submit", "retry", "challenge", "conclude", "test"}
        BY <2>2, <2>3, <3>1 DEF AfterThread, Stage, Ops, Waiting
      <4>2. c2.pc \in Stage(c.op)
        BY <4>1 DEF Stage, Waiting
      <4> QED BY <2>2, <2>3, <3>1, <4>1, <4>2 DEF IsCall
    <3>2. CASE c.pc = "thread"
      <4>1. /\ c2.pc = "pending" => c.op = "retry"
            /\ c2.pc = "context" => c.op \in {"challenge", "conclude", "test"}
            /\ c2.pc = "turns" => c.op \notin {"retry", "challenge", "conclude", "test"}
            /\ c2.pc \in {"pending", "context", "turns"}
        BY <2>3, <3>2 DEF AfterThread
      <4>2. c.op \in {"submit", "retry", "challenge", "conclude", "test", "keep", "save", "finish", "voice"}
        BY <2>2, <3>2 DEF Stage, Ops
      <4>3. c2.pc \in Stage(c.op)
        BY <4>1, <4>2 DEF Stage, Waiting
      <4> QED BY <2>2, <2>3, <3>2, <4>1, <4>3 DEF IsCall
    <3> QED BY <1>1, <3>1, <3>2
  <2>6. HasTurn(c2) <=> HasTurn(c)
    BY <1>1, <2>3, <2>5 DEF HasTurn, Waiting
  <2>7. ~OfCapsule(c2) /\ ~OfCapsule(c)
    BY <1>1, <2>2, <2>3, <2>5 DEF OfCapsule, Stage
  <2>8. Snapshot(db, c2) /\ Capsule(db, c2) /\ Cites(db, drawn, c2)
    BY <1>3, <2>2, <2>3, <2>4, <2>5, <2>7 DEF Snapshot, Capsule, Cites
  <2> QED BY <1>1, <1>3, <2>1, <2>3, <2>5, <2>6, <2>7, <2>8, Proceeds
<1> QED BY <1>2, <1>3 DEF RequireActiveThread

LEMMA ListTurnsKeeps ==
    ASSUME NoneIsNull, OnePage, ConvInd, NEW k \in Slot, ListTurns(k) PROVE ConvInd'
<1> DEFINE c == call[k]  pc == IF c.pc = "turns2" \/ c.op = "voice" THEN "accept" ELSE "write"
<1>1. At(k, {"turns", "turns2"}) /\ c # None /\ c.pc \in {"turns", "turns2"}
  BY DEF ListTurns, At
<1>2. Goto(k, [c EXCEPT !.listed = TurnsOf(db, c.thread), !.pc = pc]) /\ db' = db /\ drawn' = drawn
  BY DEF ListTurns
<1>3. PICK c2 : c2 = [c EXCEPT !.listed = TurnsOf(db, c.thread), !.pc = pc]
  OBVIOUS
<1>4. /\ c = [x \in CallFields |-> c[x]] /\ c.op \in Ops /\ c.pc \in Stage(c.op)
      /\ Cites(db, drawn, c) /\ Snapshot(db, c)
  BY <1>1, CallKnown
<1>5. /\ c2 = [x \in CallFields |-> c2[x]] /\ c2.op = c.op /\ c2.thread = c.thread
      /\ c2.pc = pc /\ c2.turn = c.turn /\ c2.arg = c.arg /\ c2.snap = c.snap
      /\ c2.listed = TurnsOf(db, c.thread)
  <2> HIDE DEF pc
  <2> QED BY <1>3, <1>4 DEF CallFields
<1>6. /\ IsCall(c2)
      /\ c2.pc = "accept" => c.op = "voice" \/ c.pc = "turns2"
      /\ c2.pc = "write" => c.op \in {"submit", "keep", "save", "finish"} /\ c.pc = "turns"
      /\ c2.pc \in {"accept", "write"}
      /\ c.pc = "turns2" => c2.pc = "accept" /\ c.op \in {"submit", "retry", "challenge", "conclude", "test"}
  BY <1>1, <1>4, <1>5 DEF IsCall, Stage, Ops, Waiting
<1>7. HasTurn(c2) <=> HasTurn(c)
  BY <1>1, <1>5, <1>6 DEF HasTurn, Waiting
<1>8. ~OfCapsule(c2) /\ ~OfCapsule(c)
  BY <1>1, <1>4, <1>5, <1>6 DEF OfCapsule, Stage
<1>9. Snapshot(db, c2) /\ Capsule(db, c2) /\ Cites(db, drawn, c2)
  BY <1>1, <1>4, <1>5, <1>6, <1>8 DEF Snapshot, Capsule, Cites
<1> HIDE DEF pc
<1> QED BY <1>1, <1>2, <1>3, <1>5, <1>6, <1>7, <1>8, <1>9, Proceeds

LEMMA BuildContextKeeps ==
    ASSUME NoneIsNull, OnePage, ConvInd, NEW k \in Slot, BuildContext(k) PROVE ConvInd'
<1> DEFINE c == call[k]  row == Get(db.threads, c.thread)
           turns == {r \in TurnsOf(db, c.thread) : \E i \in DOMAIN row.turnIds : row.turnIds[i] = r.id}
           G == AcceptedUserTurns(turns)
<1>1. At(k, {"context"}) /\ c # None /\ c.pc = "context"
  BY DEF BuildContext, At
<1>2. CASE Refused(k)
  BY <1>1, <1>2, RefusedKeeps
<1>3. CASE Goto(k, [c EXCEPT !.listed = G, !.snap = None, !.pc = "provider"]) /\ db' = db /\ drawn' = drawn
  <2>1. Sound(db, drawn, G)
    <3>1. \A r \in db.turns : r.id \in 1 .. drawn.turn /\ \A s \in db.turns : s.id = r.id => s = r
      BY <1>1, CallKnown, StoresAreTyped DEF Distinct
    <3> QED BY <3>1 DEF Sound, AcceptedUserTurns, Accepted, TurnsOf
  <2> HIDE DEF G
  <2>2. PICK c2 : c2 = [c EXCEPT !.listed = G, !.snap = None, !.pc = "provider"]
    OBVIOUS
  <2>3. /\ c = [x \in CallFields |-> c[x]] /\ c.op \in Ops /\ c.pc \in Stage(c.op) /\ Cites(db, drawn, c)
    BY <1>1, CallKnown
  <2>4. /\ c2 = [x \in CallFields |-> c2[x]] /\ c2.op = c.op /\ c2.thread = c.thread
        /\ c2.pc = "provider" /\ c2.turn = c.turn /\ c2.arg = c.arg /\ c2.listed = G
    BY <2>2, <2>3 DEF CallFields
  <2>5. /\ IsCall(c2) /\ (HasTurn(c2) <=> HasTurn(c)) /\ ~OfCapsule(c) /\ ~OfCapsule(c2)
    BY <1>1, <2>3, <2>4 DEF IsCall, Stage, Ops, Waiting, HasTurn, OfCapsule
  <2>6. Snapshot(db, c2) /\ Capsule(db, c2) /\ Cites(db, drawn, c2)
    BY <2>1, <2>3, <2>4, <2>5 DEF Snapshot, Capsule, Cites
  <2> QED BY <1>1, <1>3, <2>2, <2>4, <2>5, <2>6, Proceeds
<1> QED BY <1>2, <1>3 DEF BuildContext

LEMMA AnswerKeeps ==
    ASSUME NoneIsNull, OnePage, ConvInd, NEW k \in Slot, Answer(k) PROVE ConvInd'
<1> DEFINE c == call[k]
<1>1. At(k, {"provider"}) /\ c # None /\ c.pc = "provider"
  BY DEF Answer, At
<1>2. CASE Refused(k)
  BY <1>1, <1>2, RefusedKeeps
<1>3. ASSUME NEW G \in {None} \cup (IF c.op = "conclude" THEN SUBSET c.listed \ {{}} ELSE {}),
             Goto(k, [c EXCEPT !.arg = G, !.listed = {}, !.pc = "thread2"]), db' = db, drawn' = drawn
      PROVE  ConvInd'
  <2>1. PICK c2 : c2 = [c EXCEPT !.arg = G, !.listed = {}, !.pc = "thread2"]
    OBVIOUS
  <2>2. /\ c = [x \in CallFields |-> c[x]] /\ c.op \in Ops /\ c.pc \in Stage(c.op) /\ Cites(db, drawn, c)
    BY <1>1, CallKnown
  <2>3. SoundOrNone(db, drawn, G)
    BY <1>1, <2>2 DEF Cites, Sound, SoundOrNone
  <2>4. /\ c2 = [x \in CallFields |-> c2[x]] /\ c2.op = c.op /\ c2.thread = c.thread
        /\ c2.pc = "thread2" /\ c2.turn = c.turn /\ c2.arg = G
    BY <2>1, <2>2 DEF CallFields
  <2>5. /\ IsCall(c2) /\ (HasTurn(c2) <=> HasTurn(c)) /\ ~OfCapsule(c) /\ ~OfCapsule(c2)
        /\ c.op \notin {"keep", "save", "finish"}
    BY <1>1, <2>2, <2>4 DEF IsCall, Stage, Ops, Waiting, HasTurn, OfCapsule
  <2>6. Snapshot(db, c2) /\ Capsule(db, c2) /\ Cites(db, drawn, c2)
    BY <2>3, <2>4, <2>5 DEF Snapshot, Capsule, Cites
  <2> QED BY <1>1, <1>3, <2>1, <2>4, <2>5, <2>6, Proceeds
<1> QED BY <1>2, <1>3 DEF Answer

LEMMA ReadCapsuleKeeps ==
    ASSUME NoneIsNull, OnePage, ConvInd, NEW k \in Slot, ReadCapsule(k) PROVE ConvInd'
<1> DEFINE c == call[k]  row == Get(db.capsules, c.arg)
           pc == IF c.op = "update" THEN "source" ELSE "write"
<1>1. At(k, {"capsule"}) /\ c # None /\ c.pc = "capsule"
  BY DEF ReadCapsule, At
<1>2. CASE Refused(k)
  BY <1>1, <1>2, RefusedKeeps
<1>3. CASE row # None /\ Goto(k, [c EXCEPT !.snap = row, !.pc = pc]) /\ db' = db /\ drawn' = drawn
  <2>1. PICK c2 : c2 = [c EXCEPT !.snap = row, !.pc = pc]
    OBVIOUS
  <2>2. /\ c = [x \in CallFields |-> c[x]] /\ c.op \in Ops /\ c.pc \in Stage(c.op)
    BY <1>1, CallKnown
  <2>3. row \in db.capsules
    BY <1>3, GetSome
  <2>4. /\ c2 = [x \in CallFields |-> c2[x]] /\ c2.op = c.op /\ c2.thread = c.thread
        /\ c2.pc = pc /\ c2.turn = c.turn /\ c2.snap = row
    <3> HIDE DEF pc
    <3> QED BY <2>1, <2>2 DEF CallFields
  <2>5. /\ IsCall(c2) /\ ~HasTurn(c2) /\ ~HasTurn(c) /\ OfCapsule(c) /\ OfCapsule(c2)
        /\ c.op \notin {"keep", "save", "finish"}
    BY <1>1, <2>2, <2>4 DEF IsCall, Stage, Ops, Waiting, HasTurn, OfCapsule
  <2>6. Snapshot(db, c2) /\ Capsule(db, c2) /\ Cites(db, drawn, c2)
    BY <2>3, <2>4, <2>5 DEF Snapshot, Capsule, Cites
  <2>7. c2.pc \notin {"start", "turn", "refresh"}
    BY <2>4
  <2> HIDE DEF pc
  <2> QED BY <1>1, <1>3, <2>1, <2>4, <2>5, <2>6, <2>7, Proceeds
<1> QED BY <1>2, <1>3 DEF ReadCapsule

LEMMA CheckSourceKeeps ==
    ASSUME NoneIsNull, OnePage, ConvInd, NEW k \in Slot, CheckSource(k) PROVE ConvInd'
<1> DEFINE c == call[k]
<1>1. At(k, {"source"}) /\ c # None /\ c.pc = "source"
  BY DEF CheckSource, At
<1>2. CASE Refused(k)
  BY <1>1, <1>2, RefusedKeeps
<1>3. CASE Goto(k, [c EXCEPT !.pc = "write"]) /\ db' = db /\ drawn' = drawn
  <2>1. PICK c2 : c2 = [c EXCEPT !.pc = "write"]
    OBVIOUS
  <2>2. /\ c = [x \in CallFields |-> c[x]] /\ c.op \in Ops /\ c.pc \in Stage(c.op) /\ Capsule(db, c)
    BY <1>1, CallKnown
  <2>3. /\ c2 = [x \in CallFields |-> c2[x]] /\ c2.op = c.op /\ c2.thread = c.thread
        /\ c2.pc = "write" /\ c2.turn = c.turn /\ c2.snap = c.snap
    BY <2>1, <2>2 DEF CallFields
  <2>4. /\ IsCall(c2) /\ ~HasTurn(c2) /\ ~HasTurn(c) /\ OfCapsule(c) /\ OfCapsule(c2)
        /\ c.op \notin {"keep", "save", "finish"}
    BY <1>1, <2>2, <2>3 DEF IsCall, Stage, Ops, Waiting, HasTurn, OfCapsule
  <2>5. Snapshot(db, c2) /\ Capsule(db, c2) /\ Cites(db, drawn, c2)
    BY <1>1, <2>2, <2>3, <2>4 DEF Snapshot, Capsule, Cites
  <2> QED BY <1>1, <1>3, <2>1, <2>3, <2>4, <2>5, Proceeds
<1> QED BY <1>2, <1>3 DEF CheckSource

(* A step of the call behind the controls that writes.                     *)
LEMMA Drawn ==
    ASSUME drawn \in [thread : Nat, turn : Nat, capsule : Nat], NEW kind \in {"thread", "turn", "capsule"},
           NEW x \in Nat, Draw(kind, x)
    PROVE  /\ drawn' \in [thread : Nat, turn : Nat, capsule : Nat]
           /\ drawn'.thread = drawn.thread + (IF kind = "thread" THEN x ELSE 0)
           /\ drawn'.turn = drawn.turn + (IF kind = "turn" THEN x ELSE 0)
           /\ drawn'.capsule = drawn.capsule + (IF kind = "capsule" THEN x ELSE 0)
           /\ drawn.thread <= drawn'.thread
BY DEF Draw

LEMMA UiWrites ==
    ASSUME NoneIsNull, OnePage, ConvInd, NEW k \in Slot, NEW pcs, At(k, pcs),
           call[k].op # "voice" \/ call[k].pc \notin {"thread", "turns", "accept"},
           NEW c2, NEW v2, call' = [call EXCEPT ![k] = c2], view' = [view EXCEPT ![k[1]] = v2],
           Stores(db', drawn'), drawn.thread <= drawn'.thread,
           CallInv(db', drawn', c2), Shows(db', drawn', v2), ShowsTurns(db', c2, v2), Here(db', c2, v2),
           Tests(c2) => c2.thread \notin 1 .. drawn.thread \/ (Tests(call[k]) /\ c2.thread = call[k].thread)
    PROVE  ConvInd'
<1>1. /\ k[1] \in Page /\ k = Ui(k[1]) /\ ~InSection(call[<<k[1], "voice">>])
      /\ PageInv(db, drawn, call[k], call[<<k[1], "voice">>], view[k[1]])
      /\ drawn.thread \in Nat
  BY UiKnown
<1>2. drawn'.thread \in Nat
  BY StoresAreTyped
<1>3. PageInv(db', drawn', c2, call[<<k[1], "voice">>], v2)
  BY <1>1, <1>2, UiStep
<1>4. call' = [call EXCEPT ![Ui(k[1])] = c2]
  BY <1>1
<1> QED BY <1>1, <1>3, <1>4, UiKeeps

LEMMA UiReturns ==
    ASSUME NoneIsNull, OnePage, ConvInd, NEW k \in Slot, NEW pcs, At(k, pcs),
           call[k].op # "voice" \/ call[k].pc \notin {"thread", "turns", "accept"},
           NEW v2, Return(k, v2),
           Stores(db', drawn'), drawn.thread <= drawn'.thread,
           Shows(db', drawn', v2), v2.turns = TurnsOf(db', v2.thread)
    PROVE  ConvInd'
<1>1. CallInv(db', drawn', None) /\ Here(db', None, v2) /\ ~Tests(None) /\ ShowsTurns(db', None, v2)
  BY DEF CallInv, Here, Tests, ShowsTurns, Other
<1> QED BY <1>1, UiWrites DEF Return

LEMMA RefreshTurnsKeeps ==
    ASSUME NoneIsNull, OnePage, ConvInd, NEW k \in Slot, RefreshTurns(k) PROVE ConvInd'
<1> DEFINE c == call[k]  v == view[k[1]]
<1>1. At(k, {"refresh"}) /\ c # None /\ c.pc = "refresh"
  BY DEF RefreshTurns, At
<1>2. /\ Shows(db, drawn, v) /\ Here(db, c, v) /\ c.op \in Ops /\ c.pc \in Stage(c.op)
      /\ Stores(db, drawn) /\ drawn.thread \in Nat
  BY <1>1, UiKnown
<1>3. c.thread = v.thread
  BY <1>1, <1>2 DEF Here, OfCapsule, Stage, Ops, Waiting
<1>4. PICK v2 : v2 = [v EXCEPT !.turns = TurnsOf(db, IF c.op = "submit" THEN c.thread ELSE v.thread),
                               !.thread = IF c.op = "submit" THEN c.thread ELSE @]
  OBVIOUS
<1>5. Return(k, v2) /\ db' = db /\ drawn' = drawn
  BY <1>4 DEF RefreshTurns
<1>6. /\ v2 = [y \in ViewFields |-> v2[y]] /\ v2.thread = v.thread /\ v2.conclusion = v.conclusion
      /\ v2.turns = TurnsOf(db, v.thread) /\ v2.listening = v.listening /\ v2.capsules = v.capsules
      /\ v2.gathered = v.gathered
  <2>1. v = [y \in ViewFields |-> v[y]]
    BY <1>2 DEF Shows
  <2>2. v2 = [v EXCEPT !.turns = TurnsOf(db, v.thread), !.thread = v.thread]
    BY <1>3, <1>4
  <2> HIDE <1>4
  <2> QED BY <2>1, <2>2 DEF ViewFields
<1>7. Shows(db, drawn, v2)
  BY <1>2, <1>6 DEF Shows
<1> QED BY <1>1, <1>2, <1>5, <1>6, <1>7, UiReturns

LEMMA StartThreadKeeps ==
    ASSUME NoneIsNull, OnePage, ConvInd, NEW k \in Slot, StartThread(k) PROVE ConvInd'
<1> DEFINE c == call[k]  v == view[k[1]]  id == drawn.thread + 1  t == NewThread(id, None)
<1>1. At(k, {"start"}) /\ c # None /\ c.pc = "start"
  BY DEF StartThread, At
<1>2. CASE Refused(k)
  BY <1>1, <1>2, RefusedKeeps
<1>3. CASE /\ db' = PutThread(db, t) /\ Draw("thread", 1)
           /\ view' = [view EXCEPT ![k[1]].thread = t.id, ![k[1]].conclusion = None]
           /\ call' = [call EXCEPT ![k].thread = t.id, ![k].pc = "thread"]
  <2>1. /\ k[1] \in Page /\ Shows(db, drawn, v) /\ ShowsTurns(db, c, v) /\ Here(db, c, v)
        /\ c = [x \in CallFields |-> c[x]] /\ c.op \in Ops /\ c.pc \in Stage(c.op)
        /\ Stores(db, drawn) /\ drawn.thread \in Nat
    BY <1>1, UiKnown
  <2>2. /\ c.op = "submit" /\ v.thread = None /\ c.turn = None /\ v.turns = {} /\ v.listening = FALSE
    <3>1. c.op = "submit"
      BY <1>1, <2>1 DEF Stage, Ops, Waiting
    <3>2. v.thread = None /\ c.turn = None
      BY <1>1, <2>1, <3>1 DEF Here, OfCapsule, HasTurn, Waiting
    <3>3. v.turns = {}
      BY <2>1, <3>2, NoThread DEF ShowsTurns, Other
    <3> QED BY <2>1, <3>1, <3>2, <3>3 DEF Shows
  <2>3. drawn \in [thread : Nat, turn : Nat, capsule : Nat]
    BY <2>1, StoresAreTyped
  <2>4. /\ drawn' \in [thread : Nat, turn : Nat, capsule : Nat] /\ drawn'.thread = id
        /\ drawn'.turn = drawn.turn /\ drawn'.capsule = drawn.capsule /\ drawn.thread <= drawn'.thread
    BY <1>3, <2>3, Drawn
  <2>5. /\ Stores(db', drawn') /\ Later(db, drawn, db', drawn') /\ t \in db'.threads
        /\ TurnsOf(db', id) = {} /\ db'.capsules = db.capsules
    BY <1>3, <2>1, <2>4, ThreadStarted DEF SoundOrNone
  <2>6. t.id = id /\ t.state = "active" /\ t.conclusion = None
    BY DEF NewThread
  <2> HIDE DEF t
  <2>7. PICK c2 : c2 = [c EXCEPT !.thread = id, !.pc = "thread"]
    OBVIOUS
  <2>8. /\ c2 = [x \in CallFields |-> c2[x]] /\ c2.op = "submit" /\ c2.thread = id
        /\ c2.pc = "thread" /\ c2.turn = None
    BY <2>1, <2>2, <2>7 DEF CallFields
  <2>9. PICK v2 : v2 = [v EXCEPT !.thread = id, !.conclusion = None]
    OBVIOUS
  <2>10. /\ v2 = [x \in ViewFields |-> v2[x]] /\ v2.thread = id /\ v2.conclusion = None
         /\ v2.turns = {} /\ v2.listening = FALSE /\ v2.capsules = v.capsules
         /\ v2.gathered = v.gathered
    <3>1. v = [y \in ViewFields |-> v[y]]
      BY <2>1 DEF Shows
    <3> QED BY <2>2, <2>9, <3>1 DEF ViewFields
  <2>11. call' = [call EXCEPT ![k] = c2] /\ view' = [view EXCEPT ![k[1]] = v2]
    BY <1>3, <2>1, <2>6, <2>7, <2>9 DEF ConvInd
  <2>12. /\ CallInv(db', drawn', c2) /\ ~Tests(c2) /\ ~OfCapsule(c2) /\ ~HasTurn(c2)
    BY <2>8 DEF CallInv, IsCall, Ops, Stage, Snapshot, Capsule, Holds, HasTurn, Waiting, Cites, OfCapsule, Tests
  <2>13. SoundOrNone(db', drawn', v2.gathered)
    BY <2>1, <2>3, <2>4, <2>5, <2>10, SoundStays DEF Shows
  <2>14. id \in Nat /\ id # None
    BY <2>1 DEF NoneIsNull
  <2>15. Shows(db', drawn', v2)
    BY <2>1, <2>5, <2>6, <2>10, <2>13, <2>14 DEF Shows
  <2>16. ShowsTurns(db', c2, v2)
    BY <2>5, <2>10 DEF ShowsTurns
  <2>17. Here(db', c2, v2)
    BY <2>8, <2>10, <2>12, <2>14 DEF Here
  <2> QED BY <1>1, <2>4, <2>5, <2>8, <2>11, <2>12, <2>15, <2>16, <2>17, UiWrites
<1> QED BY <1>2, <1>3 DEF StartThread, Commit, Id

(* The page shows a thread that is stored as before.                       *)
LEMMA ShowsStays ==
    ASSUME NEW d, NEW n \in [thread : Nat, turn : Nat, capsule : Nat],
           NEW e, NEW m \in [thread : Nat, turn : Nat, capsule : Nat], Later(d, n, e, m),
           NEW v, Shows(d, n, v), Ids(e.capsules) = Ids(d.capsules),
           v.thread # None => \E t \in e.threads :
               t.id = v.thread /\ t.state = "active" /\ v.conclusion = t.conclusion
    PROVE  Shows(e, m, v)
<1>1. SoundOrNone(e, m, v.gathered)
  BY SoundStays DEF Shows
<1> QED BY <1>1 DEF Shows

(* The turn a call holds is written again, unanswered.                     *)
LEMMA TurnRewritten ==
    ASSUME NoneIsNull, OnePage, ConvInd, NEW k \in Slot, NEW pcs, At(k, pcs),
           call[k].op \in {"submit", "retry"}, HasTurn(call[k]),
           NEW x \in TurnRow, x.id = call[k].turn.id, x.thread = call[k].turn.thread,
           x.position = call[k].turn.position, x.role = call[k].turn.role, x.to = call[k].turn.to,
           x.state # "accepted",
           db' = PutTurn(db, x), drawn' = drawn,
           NEW c2, Goto(k, c2), IsCall(c2), c2.op = call[k].op, c2.thread = call[k].thread,
           c2.turn \in {x, call[k].turn}, c2.pc \in {"context", "refresh"},
           HasTurn(c2) => c2.turn = x
    PROVE  ConvInd'
<1> DEFINE c == call[k]  v == view[k[1]]  r == c.turn
<1>1. /\ c # None /\ k[1] \in Page /\ Shows(db, drawn, v) /\ ShowsTurns(db, c, v) /\ Here(db, c, v)
      /\ Stores(db, drawn) /\ Holds(db, c)
  BY UiKnown
<1>2. r \in db.turns /\ r.thread = c.thread /\ r.role = "user" /\ r.state # "accepted" /\ c.pc # "start"
  BY <1>1 DEF Holds, HasTurn, Waiting
<1>3. /\ Stores(db', drawn') /\ Later(db, drawn, db', drawn')
      /\ db'.turns = (db.turns \ {r}) \cup {x} /\ db'.threads = db.threads /\ db'.capsules = db.capsules
  BY <1>1, <1>2, TurnUnanswered
<1>4. drawn \in [thread : Nat, turn : Nat, capsule : Nat] /\ r \in TurnRow
      /\ \A q \in db.turns : q.id = r.id => q = r
  BY <1>1, <1>2, StoresAreTyped DEF Distinct
<1>5. Shows(db', drawn', v)
  BY <1>1, <1>3, <1>4, ShowsStays DEF Shows
<1>6. r # None /\ x # None /\ c2 # None
  BY <1>4, RowsAreSome, RecordIsSome DEF IsCall
<1>7. ShowsTurns(db', c2, v)
  <2>1. \A rows : Other(rows, c) = {q \in rows : q.id # r.id} /\ Other(rows, c2) = {q \in rows : q.id # r.id}
    BY <1>1, <1>6 DEF Other
  <2>2. {q \in TurnsOf(db', v.thread) : q.id # r.id} = {q \in TurnsOf(db, v.thread) : q.id # r.id}
    <3>1. \A q : q.id # r.id => (q \in db'.turns <=> q \in db.turns)
      BY <1>3
    <3> QED BY <3>1 DEF TurnsOf
  <2>3. Other(v.turns, c2) = Other(v.turns, c)
    BY <2>1
  <2>4. Other(TurnsOf(db', v.thread), c2) = Other(TurnsOf(db, v.thread), c)
    BY <2>1, <2>2
  <2> QED BY <1>1, <2>3, <2>4 DEF ShowsTurns
<1>8. ~Tests(c2) /\ ~OfCapsule(c2) /\ ~OfCapsule(c)
  BY DEF Tests, OfCapsule
<1>9. Here(db', c2, v)
  <2>1. c.thread = v.thread /\ c.thread # None
    BY <1>1, <1>2, <1>8 DEF Here
  <2>2. c2.op = "submit" /\ ~HasTurn(c2) => c2.pc = "refresh"
    BY DEF HasTurn, Waiting
  <2> QED BY <1>8, <2>1, <2>2 DEF Here
<1>10. CallInv(db', drawn', c2)
  <2>1. Holds(db', c2)
    BY <1>2, <1>3 DEF Holds
  <2>2. Snapshot(db', c2) /\ Capsule(db', c2) /\ Cites(db', drawn', c2)
    BY <1>8 DEF Snapshot, Capsule, Cites
  <2> QED BY <2>1, <2>2 DEF CallInv
<1>11. call' = [call EXCEPT ![k] = c2] /\ view' = [view EXCEPT ![k[1]] = v] /\ drawn.thread <= drawn'.thread
  BY <1>1, <1>4, SameView DEF Goto
<1> QED BY <1>3, <1>5, <1>7, <1>8, <1>9, <1>10, <1>11, UiWrites

LEMMA FailUserTurnKeeps ==
    ASSUME NoneIsNull, OnePage, ConvInd, NEW k \in Slot, FailUserTurn(k) PROVE ConvInd'
<1> DEFINE c == call[k]  r == c.turn  x == [c.turn EXCEPT !.state = "failed"]
<1>1. At(k, {"fail"}) /\ c # None /\ c.pc = "fail"
  BY DEF FailUserTurn, At
<1>2. /\ c = [y \in CallFields |-> c[y]] /\ c.op \in Ops /\ c.pc \in Stage(c.op)
      /\ Stores(db, drawn) /\ Holds(db, c)
      /\ ShowsTurns(db, c, view[k[1]]) /\ Here(db, c, view[k[1]])
  BY <1>1, UiKnown
<1>3. c.op \in {"submit", "retry"} /\ HasTurn(c)
  BY <1>1, <1>2 DEF Stage, Ops, Waiting, HasTurn
<1>4. PICK c2 : c2 = [c EXCEPT !.pc = "refresh"]
  OBVIOUS
<1>5. Goto(k, c2) /\ drawn' = drawn
  BY <1>4 DEF FailUserTurn
<1>6. /\ c2 = [y \in CallFields |-> c2[y]] /\ c2.op = c.op /\ c2.thread = c.thread
      /\ c2.pc = "refresh" /\ c2.turn = r
  BY <1>2, <1>4 DEF CallFields
<1>7. IsCall(c2) /\ ~HasTurn(c2)
  BY <1>3, <1>6 DEF IsCall, Ops, Stage, HasTurn, Waiting
<1>8. CASE db' = PutTurn(db, x)
  <2>1. r \in db.turns
    BY <1>2, <1>3 DEF Holds
  <2>2. r \in TurnRow
    BY <1>2, <2>1, StoresAreTyped
  <2>3. /\ x \in TurnRow /\ x.state = "failed" /\ x.id = r.id /\ x.thread = r.thread /\ x.position = r.position
        /\ x.role = r.role /\ x.to = r.to
    BY <2>2, InState
  <2> HIDE DEF x
  <2> QED BY <1>1, <1>3, <1>5, <1>6, <1>7, <1>8, <2>3, TurnRewritten
<1>9. CASE db' = db
  <2>1. ~OfCapsule(c) /\ ~OfCapsule(c2) /\ ~Tests(c2)
    BY <1>3, <1>6 DEF OfCapsule, Tests
  <2>2. Snapshot(db, c2) /\ Capsule(db, c2) /\ Cites(db, drawn, c2) /\ Holds(db, c2)
    BY <1>3, <1>6, <1>7, <2>1 DEF Snapshot, Capsule, Cites, Holds
  <2>3. c2 # None
    BY <1>6, RecordIsSome
  <2>4. ShowsTurns(db, c2, view[k[1]])
    <3>1. \A rows : Other(rows, c2) = Other(rows, c)
      BY <1>1, <1>3, <1>6, <2>3 DEF Other
    <3> QED BY <1>2, <3>1 DEF ShowsTurns
  <2>5. Here(db, c2, view[k[1]])
    BY <1>1, <1>2, <1>3, <1>6, <2>1 DEF Here
  <2> QED BY <1>1, <1>3, <1>5, <1>7, <1>9, <2>1, <2>2, <2>4, <2>5, UiMoves
<1> QED BY <1>8, <1>9 DEF FailUserTurn

LEMMA PersistUserTurnKeeps ==
    ASSUME NoneIsNull, OnePage, ConvInd, NEW k \in Slot, PersistUserTurn(k) PROVE ConvInd'
<1> DEFINE c == call[k]  v == view[k[1]]  t == c.snap
           Turn == IF c.op = "submit"
                   THEN UserTurn(Id("turn", 1), c.thread, NextPosition(c.listed), "pending")
                   ELSE [c.turn EXCEPT !.state = "pending"]
           Row == [c.snap EXCEPT !.turnIds = AppendTurnId(@, Turn.id)]
           Next2(x) == [c EXCEPT !.turn = x, !.snap = None, !.listed = {}, !.pc = "context"]
<1>1. At(k, {"write", "pending"}) /\ c # None /\ c.pc \in {"write", "pending"}
      /\ ((c.op = "submit" /\ c.pc = "write") \/ c.pc = "pending")
  BY DEF PersistUserTurn, At
<1>2. CASE Refused(k)
  BY <1>1, <1>2, RefusedKeeps
<1>3. CASE /\ db' = PersistPendingTurn(db, Row, Turn)
           /\ Draw("turn", IF c.op = "submit" THEN 1 ELSE 0)
           /\ Goto(k, Next2(Turn))
  <2>1. /\ c = [y \in CallFields |-> c[y]] /\ c.op \in Ops /\ c.pc \in Stage(c.op)
        /\ Stores(db, drawn) /\ Holds(db, c) /\ Snapshot(db, c) /\ k[1] \in Page
        /\ Shows(db, drawn, v) /\ ShowsTurns(db, c, v) /\ Here(db, c, v)
    BY <1>1, UiKnown
  <2>2. ~OfCapsule(c) /\ ((c.op = "submit" /\ c.pc = "write") \/ (c.op = "retry" /\ c.pc = "pending"))
    <3>1. c.pc = "pending" => c.op = "retry"
      BY <2>1 DEF Stage, Ops, Waiting
    <3> QED BY <1>1, <3>1 DEF OfCapsule
  <2>3. t \in db.threads /\ t.id = c.thread /\ t.state = "active"
    BY <2>1, <2>2 DEF Snapshot
  <2>4. drawn \in [thread : Nat, turn : Nat, capsule : Nat]
    BY <2>1, StoresAreTyped
  <2>5. PICK x : x = Turn
    OBVIOUS
  <2>6. PICK c2 : c2 = Next2(x)
    OBVIOUS
  <2>7. /\ c2 = [y \in CallFields |-> c2[y]] /\ c2.op = c.op /\ c2.thread = c.thread
        /\ c2.pc = "context" /\ c2.turn = x
    BY <2>1, <2>6 DEF CallFields
  <2>8. IsCall(c2) /\ HasTurn(c2) /\ ~OfCapsule(c2) /\ ~Tests(c2)
    BY <2>2, <2>7 DEF IsCall, Ops, Stage, HasTurn, Waiting, OfCapsule, Tests
  <2>9. Goto(k, c2)
    BY <1>3, <2>5, <2>6
  <2>10. CASE c.op = "submit"
    <3>1. x = UserTurn(drawn.turn + 1, t.id, NextPosition(TurnsOf(db, t.id)), "pending")
      BY <2>1, <2>2, <2>3, <2>5, <2>10 DEF Snapshot, Id
    <3>2. PICK row : row = Listing(t, x.id)
      OBVIOUS
    <3>3. db' = PersistPendingTurn(db, row, x)
      BY <1>3, <2>5, <3>2 DEF Listing
    <3>4. /\ drawn' \in [thread : Nat, turn : Nat, capsule : Nat] /\ drawn'.thread = drawn.thread
          /\ drawn'.turn = drawn.turn + 1 /\ drawn'.capsule = drawn.capsule /\ drawn.thread <= drawn'.thread
      <4>1. Draw("turn", 1)
        BY <1>3, <2>10
      <4> QED BY <2>4, <4>1, Drawn
    <3> HIDE DEF Turn, Row
    <3>5. /\ Stores(db', drawn') /\ Later(db, drawn, db', drawn')
          /\ row \in db'.threads /\ row.id = t.id /\ row.state = t.state /\ row.conclusion = t.conclusion
          /\ x \in TurnRow /\ x \in db'.turns /\ x.thread = t.id /\ x.role = "user" /\ x.state = "pending"
          /\ x.id = drawn.turn + 1
          /\ TurnsOf(db', t.id) = TurnsOf(db, t.id) \cup {x} /\ db'.capsules = db.capsules
      <4>1. Stores(db, drawn)
        BY <2>1
      <4> HIDE DEF t
      <4> QED BY <2>3, <3>1, <3>2, <3>3, <3>4, <4>1, PendingStored
    <3>6. /\ v.thread = t.id /\ c.turn = None /\ v.conclusion = t.conclusion
          /\ v.turns = TurnsOf(db, t.id) /\ c.thread # None
      <4>1. v.thread = t.id /\ c.turn = None /\ c.thread # None
        BY <1>1, <2>1, <2>2, <2>3, <2>10 DEF Here, HasTurn, Waiting
      <4>2. v.conclusion = t.conclusion
        BY <2>1, <2>3, <4>1, StoresAreTyped DEF Shows, Distinct
      <4> QED BY <2>1, <4>1, <4>2 DEF ShowsTurns, Other
    <3>7. Shows(db', drawn', v)
      BY <2>1, <2>3, <2>4, <3>4, <3>5, <3>6, ShowsStays
    <3>8. ShowsTurns(db', c2, v)
      <4>1. \A q \in TurnsOf(db, t.id) : q.id # x.id
        <5>1. \A q \in db.turns : q.id \in 1 .. drawn.turn
          BY <2>1, StoresAreTyped
        <5> QED BY <2>4, <3>5, <5>1 DEF TurnsOf
      <4>2. {q \in TurnsOf(db', t.id) : q.id # x.id} = {q \in TurnsOf(db, t.id) : q.id # x.id}
        BY <3>5
      <4>3. TurnsOf(db', v.thread) = TurnsOf(db', t.id) /\ x # None
        BY <3>5, <3>6, RowsAreSome
      <4>4. \A rows : Other(rows, c2) = {q \in rows : q.id # x.id} \/ Other(rows, c2) = rows
        BY <2>7 DEF Other
      <4> HIDE DEF t
      <4>5. {q \in TurnsOf(db, t.id) : q.id # x.id} = TurnsOf(db, t.id)
        BY <4>1
      <4>6. Other(v.turns, c2) = TurnsOf(db, t.id)
        BY <3>6, <4>4, <4>5
      <4>7. c2 # None /\ c2.turn = x /\ c2.op \in {"submit", "retry"}
        BY <2>7, <2>10, RecordIsSome
      <4>8. Other(TurnsOf(db', t.id), c2) = TurnsOf(db, t.id)
        BY <4>2, <4>3, <4>5, <4>7 DEF Other
      <4> QED BY <3>6, <4>6, <4>8 DEF ShowsTurns
    <3>9. Here(db', c2, v)
      BY <2>7, <2>8, <2>10, <2>3, <3>6 DEF Here
    <3>10. CallInv(db', drawn', c2)
      BY <2>3, <2>7, <2>8, <2>10, <3>5 DEF CallInv, Snapshot, Capsule, Holds, Cites
    <3>11. call' = [call EXCEPT ![k] = c2] /\ view' = [view EXCEPT ![k[1]] = v]
      BY <2>1, <2>9, SameView DEF Goto
    <3> QED BY <1>1, <2>8, <2>10, <3>4, <3>5, <3>7, <3>8, <3>9, <3>10, <3>11, UiWrites
  <2>11. CASE c.op # "submit"
    <3>1. c.op = "retry" /\ HasTurn(c)
      BY <2>2, <2>11 DEF HasTurn
    <3>2. c.turn \in db.turns /\ c.turn.thread = t.id
      BY <2>1, <2>3, <3>1 DEF Holds
    <3>3. c.turn \in TurnRow
      BY <2>1, <3>2, StoresAreTyped
    <3>4. x = [c.turn EXCEPT !.state = "pending"]
      BY <2>5, <2>11
    <3>5. /\ x \in TurnRow /\ x.state = "pending" /\ x.id = c.turn.id /\ x.thread = c.turn.thread
          /\ x.position = c.turn.position /\ x.role = c.turn.role /\ x.to = c.turn.to
      BY <3>3, <3>4, InState
    <3>6. Row = t
      <4>1. Row = [t EXCEPT !.turnIds = AppendTurnId(@, c.turn.id)]
        BY <2>5, <3>5
      <4> QED BY <2>1, <2>3, <3>2, <4>1, RowUnchanged
    <3>7. db' = PutTurn(db, x)
      <4>1. db' = PersistPendingTurn(db, t, x)
        BY <1>3, <2>5, <3>6
      <4> QED BY <2>1, <2>3, <4>1, PendingAgain
    <3>8. drawn' = drawn
      <4>1. Draw("turn", 0)
        BY <1>3, <2>11
      <4> QED BY <2>4, <4>1 DEF Draw
    <3> HIDE DEF Turn, Row
    <3> QED BY <1>1, <2>7, <2>8, <2>9, <3>1, <3>5, <3>7, <3>8, TurnRewritten
  <2> QED BY <2>10, <2>11
<1> QED BY <1>2, <1>3 DEF PersistUserTurn, Commit

(* What is shown after a reply is merged into it.                          *)
LEMMA MergedReply ==
    ASSUME NEW S, NEW shown, NEW r, NEW x, NEW y, x.id = r.id,
           \A q : (q \in shown /\ q.id # r.id) <=> (q \in S /\ q.id # r.id),
           \A q \in S : q.id = r.id => q = r, \A q \in S : q.id # y.id
    PROVE  MergeTurns(shown, {x, y}) = ((S \ {r}) \cup {x}) \cup {y}
<1>1. Ids({x, y}) = {r.id, y.id}
  BY DEF Ids
<1>2. \A q : q \in MergeTurns(shown, {x, y}) <=> (q \in shown /\ q.id # r.id /\ q.id # y.id) \/ q = x \/ q = y
  BY <1>1 DEF MergeTurns
<1>4. \A q : q \in MergeTurns(shown, {x, y}) <=> q \in ((S \ {r}) \cup {x}) \cup {y}
  BY <1>2
<1> QED BY <1>4

LEMMA MergedOther ==
    ASSUME NEW S, NEW shown, NEW c, Other(shown, c) = Other(S, c), NEW rows,
           \A q \in S : q.id \notin Ids(rows)
    PROVE  Other(MergeTurns(shown, rows), c) = Other(S \cup rows, c)
<1>1. \A q : q \in MergeTurns(shown, rows) <=> (q \in shown /\ q.id \notin Ids(rows)) \/ q \in rows
  BY DEF MergeTurns
<1>2. CASE c # None /\ c.op \in {"submit", "retry"} /\ c.turn # None
  <2>1. \A T : Other(T, c) = {q \in T : q.id # c.turn.id}
    BY <1>2 DEF Other
  <2>2. \A q : (q \in shown /\ q.id # c.turn.id) <=> (q \in S /\ q.id # c.turn.id)
    BY <2>1
  <2>3. {q \in MergeTurns(shown, rows) : q.id # c.turn.id} = {q \in S \cup rows : q.id # c.turn.id}
    BY <1>1, <2>2
  <2> QED BY <2>1, <2>3
<1>3. CASE ~(c # None /\ c.op \in {"submit", "retry"} /\ c.turn # None)
  <2>1. \A T : Other(T, c) = T
    BY <1>3 DEF Other
  <2>2. shown = S
    BY <2>1
  <2>3. MergeTurns(shown, rows) = S \cup rows
    BY <1>1, <2>2
  <2> QED BY <2>1, <2>3
<1> QED BY <1>2, <1>3

LEMMA AcceptReplyKeeps ==
    ASSUME NoneIsNull, OnePage, ConvInd, NEW k \in Slot, AcceptReply(k) PROVE ConvInd'
<1> DEFINE c == call[k]  v == view[k[1]]
           User == [c.turn EXCEPT !.state = "accepted"]
           Reply == SpecularTurn(Id("turn", 1), c.thread, NextPosition(c.listed), User.id)
           Row == [c.snap EXCEPT !.turnIds = AppendTurnId(AppendTurnId(@, User.id), Reply.id)]
           View2 == [v EXCEPT !.thread = Row.id, !.conclusion = Row.conclusion,
                              !.turns = MergeTurns(@, {User, Reply})]
<1>1. At(k, {"accept"}) /\ c # None /\ c.pc = "accept" /\ c.op \in {"submit", "retry"}
  BY DEF AcceptReply, At
<1>2. CASE Refused(k)
  BY <1>1, <1>2, RefusedKeeps
<1>3. CASE /\ db' = AcceptExchange(db, Row, User, Reply) /\ Draw("turn", 1)
           /\ Return(k, View2)
  <2>1. /\ Stores(db, drawn) /\ Holds(db, c) /\ Snapshot(db, c)
        /\ Shows(db, drawn, v) /\ ShowsTurns(db, c, v) /\ Here(db, c, v)
    BY <1>1, UiKnown
  <2>2. HasTurn(c) /\ ~OfCapsule(c)
    BY <1>1 DEF HasTurn, Waiting, OfCapsule
  <2>3. PICK t : t = c.snap
    OBVIOUS
  <2>4. PICK r : r = c.turn
    OBVIOUS
  <2>5. /\ t \in db.threads /\ t.id = c.thread /\ t.state = "active" /\ c.listed = TurnsOf(db, t.id)
        /\ r \in db.turns /\ r.thread = t.id /\ r.role = "user" /\ r.state # "accepted"
    BY <1>1, <2>1, <2>2, <2>3, <2>4 DEF Snapshot, Holds
  <2>6. /\ drawn \in [thread : Nat, turn : Nat, capsule : Nat] /\ t \in ThreadRow /\ r \in TurnRow
        /\ \A q \in db.turns : (q.id = r.id => q = r) /\ q.id \in 1 .. drawn.turn
        /\ NextPosition(TurnsOf(db, t.id)) \in Nat
    BY <2>1, <2>5, StoresAreTyped, NextPositionIs DEF Distinct
  <2>7. PICK x : x = User
    OBVIOUS
  <2>8. /\ x \in TurnRow /\ x.state = "accepted" /\ x.id = r.id /\ x.thread = r.thread
        /\ x.position = r.position /\ x.role = r.role /\ x.to = r.to
    <3>1. x = [r EXCEPT !.state = "accepted"]
      BY <2>4, <2>7
    <3> QED BY <2>6, <3>1, InState
  <2>9. PICK y : y = SpecularTurn(drawn.turn + 1, t.id, NextPosition(TurnsOf(db, t.id)), x.id)
    OBVIOUS
  <2>10. /\ y \in TurnRow /\ y.id = drawn.turn + 1 /\ y.thread = t.id /\ y.role = "specular"
         /\ y.position = NextPosition(TurnsOf(db, t.id)) /\ y.to = x.id
    <3>1. drawn.turn + 1 \in Nat /\ t.id \in Nat /\ x.id \in {None} \cup Nat
      BY <2>6, <2>8 DEF ThreadRow, TurnRow
    <3>2. NextPosition(TurnsOf(db, t.id)) \in Nat
      BY <2>6
    <3> HIDE DEF User, Reply, Row, View2
    <3> QED BY <2>9, <3>1, <3>2 DEF SpecularTurn, TurnRow
  <2>11. PICK row : row = [t EXCEPT !.turnIds = AppendTurnId(AppendTurnId(@, x.id), y.id)]
    OBVIOUS
  <2>12. /\ row \in ThreadRow /\ row.id = t.id /\ row.state = t.state /\ row.conclusion = t.conclusion
         /\ row.turnIds = AppendTurnId(AppendTurnId(t.turnIds, x.id), y.id)
    <3>1. x.id \in Nat /\ y.id \in Nat
      BY <2>8, <2>10 DEF TurnRow
    <3> QED BY <2>6, <2>11, <3>1, RowTwice
  <2>13. Reply = y /\ Row = row
    <3>1. Reply = y
      BY <2>5, <2>7, <2>9 DEF Id
    <3> HIDE DEF Reply, User
    <3>2. Row = row
      BY <2>3, <2>7, <2>11, <3>1
    <3> QED BY <3>1, <3>2
  <2>14. db' = AcceptExchange(db, row, x, y)
    <3> HIDE DEF Reply, User, Row
    <3> QED BY <1>3, <2>7, <2>13
  <2>15. PICK v2 : v2 = View2
    OBVIOUS
  <2>16. Return(k, v2) /\ v2 = [v EXCEPT !.thread = row.id, !.conclusion = row.conclusion,
                                         !.turns = MergeTurns(@, {x, y})]
    <3> HIDE DEF Reply, User, Row
    <3> QED BY <1>3, <2>7, <2>13, <2>15
  <2>17. /\ drawn' \in [thread : Nat, turn : Nat, capsule : Nat] /\ drawn'.thread = drawn.thread
         /\ drawn'.turn = drawn.turn + 1 /\ drawn'.capsule = drawn.capsule /\ drawn.thread <= drawn'.thread
    BY <1>3, <2>6, Drawn
  <2> HIDE DEF Reply, User, Row, View2
  <2>18. /\ Stores(db', drawn') /\ Later(db, drawn, db', drawn') /\ row \in db'.threads
         /\ TurnsOf(db', t.id) = ((TurnsOf(db, t.id) \ {r}) \cup {x}) \cup {y}
         /\ db'.capsules = db.capsules
    <3>1. Stores(db, drawn)
      BY <2>1
    <3> QED BY <2>5, <2>8, <2>10, <2>12, <2>14, <2>17, <3>1, ReplyStored
  <2>19. v.thread = t.id /\ t.id # None
    BY <1>1, <2>1, <2>2, <2>5 DEF Here
  <2>20. MergeTurns(v.turns, {x, y}) = TurnsOf(db', t.id)
    <3>1. r # None
      BY <2>6, RowsAreSome
    <3>2. {q \in v.turns : q.id # r.id} = {q \in TurnsOf(db, t.id) : q.id # r.id}
      BY <1>1, <2>1, <2>4, <2>19, <3>1 DEF ShowsTurns, Other
    <3>4. \A q : (q \in v.turns /\ q.id # r.id) <=> (q \in TurnsOf(db, t.id) /\ q.id # r.id)
      BY <3>2
    <3>3. \A q \in TurnsOf(db, t.id) : (q.id = r.id => q = r) /\ q.id # y.id
      BY <2>6, <2>10 DEF TurnsOf
    <3>5. PICK S : S = TurnsOf(db, t.id)
      OBVIOUS
    <3>6. MergeTurns(v.turns, {x, y}) = ((S \ {r}) \cup {x}) \cup {y}
      <4>1. /\ x.id = r.id /\ \A q \in S : (q.id = r.id => q = r) /\ q.id # y.id
            /\ \A q : (q \in v.turns /\ q.id # r.id) <=> (q \in S /\ q.id # r.id)
        BY <2>8, <3>3, <3>4, <3>5
      <4> HIDE DEF v
      <4> QED BY <4>1, MergedReply
    <3> QED BY <2>18, <3>5, <3>6
  <2>21. /\ v2 = [z \in ViewFields |-> v2[z]] /\ v2.thread = t.id /\ v2.conclusion = row.conclusion
         /\ v2.turns = TurnsOf(db', t.id) /\ v2.listening = v.listening /\ v2.capsules = v.capsules
         /\ v2.gathered = v.gathered
    <3>1. v = [z \in ViewFields |-> v[z]]
      BY <2>1 DEF Shows
    <3>2. v2 = [v EXCEPT !.thread = t.id, !.conclusion = row.conclusion, !.turns = TurnsOf(db', t.id)]
      BY <2>12, <2>16, <2>20
    <3> HIDE <2>16
    <3> QED BY <3>1, <3>2 DEF ViewFields
  <2>22. SoundOrNone(db', drawn', v2.gathered)
    BY <2>1, <2>6, <2>17, <2>18, <2>21, SoundStays DEF Shows
  <2>23. Shows(db', drawn', v2)
    BY <2>1, <2>5, <2>12, <2>18, <2>19, <2>21, <2>22 DEF Shows
  <2> QED BY <1>1, <2>16, <2>17, <2>18, <2>21, <2>23, UiReturns
<1> QED BY <1>2, <1>3 DEF AcceptReply, Commit

LEMMA AcceptSpecularKeeps ==
    ASSUME NoneIsNull, OnePage, ConvInd, NEW k \in Slot, AcceptSpecular(k) PROVE ConvInd'
<1> DEFINE c == call[k]  v == view[k[1]]
           Reply == SpecularTurn(Id("turn", 1), c.thread, NextPosition(c.listed), None)
           Row == [c.snap EXCEPT !.turnIds = AppendTurnId(@, Reply.id),
                                 !.conclusion = IF c.arg # None THEN c.arg ELSE @]
           View2 == [v EXCEPT !.thread = Row.id, !.conclusion = Row.conclusion,
                              !.gathered = IF c.op = "conclude" THEN c.arg ELSE @,
                              !.turns = IF c.op = "test" THEN {Reply} ELSE MergeTurns(@, {Reply})]
<1>1. At(k, {"accept"}) /\ c # None /\ c.pc = "accept" /\ c.op \in {"challenge", "conclude", "test"}
  BY DEF AcceptSpecular, At
<1>2. CASE Refused(k)
  BY <1>1, <1>2, RefusedKeeps
<1>3. CASE /\ db' = PersistSpecularTurn(db, Row, Reply) /\ Draw("turn", 1)
           /\ Return(k, View2)
  <2>1. /\ Stores(db, drawn) /\ Snapshot(db, c) /\ Cites(db, drawn, c)
        /\ Shows(db, drawn, v) /\ ShowsTurns(db, c, v) /\ Here(db, c, v)
    BY <1>1, UiKnown
  <2>2. ~OfCapsule(c) /\ (c.op = "test" => Tests(c))
    BY <1>1 DEF OfCapsule, Tests
  <2>3. PICK t : t = c.snap
    OBVIOUS
  <2>4. /\ t \in db.threads /\ t.id = c.thread /\ t.state = "active" /\ c.listed = TurnsOf(db, t.id)
    BY <1>1, <2>1, <2>2, <2>3 DEF Snapshot
  <2>5. /\ drawn \in [thread : Nat, turn : Nat, capsule : Nat] /\ t \in ThreadRow
        /\ \A q \in db.turns : q.id \in 1 .. drawn.turn
        /\ NextPosition(TurnsOf(db, t.id)) \in Nat /\ SoundOrNone(db, drawn, t.conclusion)
    BY <2>1, <2>4, StoresAreTyped, NextPositionIs
  <2>6. PICK x : x = SpecularTurn(drawn.turn + 1, t.id, NextPosition(TurnsOf(db, t.id)), None)
    OBVIOUS
  <2>7. PICK G : G = IF c.arg # None THEN c.arg ELSE t.conclusion
    OBVIOUS
  <2>8. SoundOrNone(db, drawn, G) /\ SoundOrNone(db, drawn, c.arg)
    BY <1>1, <2>1, <2>5, <2>7 DEF Cites
  <2>9. PICK row : row = RowWith(t, x.id, G)
    OBVIOUS
  <2>10. Reply = x /\ Row = row
    <3>1. Reply = x
      BY <2>4, <2>6 DEF Id
    <3> HIDE DEF Reply
    <3>2. Row = row
      BY <2>3, <2>7, <2>9, <3>1 DEF RowWith
    <3> QED BY <3>1, <3>2
  <2>11. PICK v2 : v2 = View2
    OBVIOUS
  <2> DEFINE shown == IF c.op = "test" THEN {x} ELSE MergeTurns(v.turns, {x})
             gathered == IF c.op = "conclude" THEN c.arg ELSE v.gathered
  <2>12. /\ db' = PersistSpecularTurn(db, row, x)
         /\ Return(k, v2) /\ v2 = [v EXCEPT !.thread = row.id, !.conclusion = row.conclusion,
                                            !.gathered = gathered, !.turns = shown]
    <3> HIDE DEF Reply, Row
    <3> QED BY <1>3, <2>10, <2>11
  <2>13. /\ drawn' \in [thread : Nat, turn : Nat, capsule : Nat] /\ drawn'.thread = drawn.thread
         /\ drawn'.turn = drawn.turn + 1 /\ drawn'.capsule = drawn.capsule /\ drawn.thread <= drawn'.thread
    BY <1>3, <2>5, Drawn
  <2> HIDE DEF Reply, Row, View2
  <2>14. /\ Stores(db', drawn') /\ Later(db, drawn, db', drawn') /\ row \in db'.threads
         /\ row.id = t.id /\ row.state = t.state /\ row.conclusion = G /\ x.id = drawn.turn + 1
         /\ TurnsOf(db', t.id) = TurnsOf(db, t.id) \cup {x}
         /\ db'.capsules = db.capsules
    <3>1. Stores(db, drawn)
      BY <2>1
    <3>2. db' = PersistSpecularTurn(db, row, x)
      BY <2>12
    <3>3. SoundOrNone(db, drawn, G)
      BY <2>8
    <3>4. /\ Stores(db', drawn') /\ Later(db, drawn, db', drawn') /\ Only(db, db', t.id)
          /\ row \in db'.threads /\ row.id = t.id /\ row.state = t.state /\ row.conclusion = G
          /\ x \in TurnRow /\ x.id = drawn.turn + 1
          /\ TurnsOf(db', t.id) = TurnsOf(db, t.id) \cup {x} /\ db'.capsules = db.capsules
      BY <2>4, <2>6, <2>9, <2>13, <3>1, <3>2, <3>3, SpecularStored
    <3> QED BY <3>4
  <2>15. v.thread = t.id /\ t.id # None
    BY <1>1, <2>1, <2>2, <2>4 DEF Here
  <2>16. shown = TurnsOf(db', t.id)
    <3>1. CASE c.op = "test"
      <4>1. TurnsOf(db, t.id) = {}
        BY <1>1, <2>1, <2>2, <2>4, <3>1 DEF Here
      <4> QED BY <2>14, <3>1, <4>1
    <3>2. CASE c.op # "test"
      <4>1. v.turns = TurnsOf(db, t.id)
        BY <1>1, <2>1, <2>15 DEF ShowsTurns, Other
      <4>2. \A q \in TurnsOf(db, t.id) : q.id # x.id
        BY <2>5, <2>14 DEF TurnsOf
      <4>3. MergeTurns(v.turns, {x}) = TurnsOf(db, t.id) \cup {x}
        BY <4>1, <4>2 DEF MergeTurns, Ids
      <4> QED BY <2>14, <3>2, <4>3
    <3> QED BY <3>1, <3>2
  <2> HIDE DEF shown, gathered
  <2>17. /\ v2 = [z \in ViewFields |-> v2[z]] /\ v2.thread = t.id /\ v2.conclusion = G
         /\ v2.turns = TurnsOf(db', t.id) /\ v2.listening = v.listening /\ v2.capsules = v.capsules
         /\ v2.gathered = gathered
    <3>1. v = [z \in ViewFields |-> v[z]]
      BY <2>1 DEF Shows
    <3>2. v2 = [v EXCEPT !.thread = t.id, !.conclusion = G, !.gathered = gathered, !.turns = TurnsOf(db', t.id)]
      BY <2>12, <2>14, <2>16
    <3> HIDE <2>12
    <3> QED BY <3>1, <3>2 DEF ViewFields
  <2>18. SoundOrNone(db', drawn', v2.gathered)
    <3>1. SoundOrNone(db, drawn, gathered)
      BY <2>1, <2>8 DEF Shows, gathered
    <3> QED BY <2>5, <2>13, <2>14, <2>17, <3>1, SoundStays
  <2>19. Shows(db', drawn', v2)
    BY <2>1, <2>4, <2>14, <2>15, <2>17, <2>18 DEF Shows
  <2> QED BY <1>1, <2>12, <2>13, <2>14, <2>17, <2>19, UiReturns
<1> QED BY <1>2, <1>3 DEF AcceptSpecular, Commit

(* A voice exchange is stored beside a call that is between its sections.  *)
LEMMA VoiceStep ==
    ASSUME NoneIsNull, NEW d, NEW n \in [thread : Nat, turn : Nat, capsule : Nat],
           NEW c, NEW s, NEW v, PageInv(d, n, c, s, v), ~InSection(c), s # None,
           NEW e, NEW m \in [thread : Nat, turn : Nat, capsule : Nat],
           Later(d, n, e, m), Only(d, e, s.thread), d.turns \subseteq e.turns,
           NEW v2, Shows(e, m, v2), ShowsTurns(e, c, v2), v2.thread = v.thread, v2.listening = v.listening
    PROVE  PageInv(e, m, c, None, v2)
<1>1. CallInv(e, m, c)
  <2>1. CASE c = None
    BY <2>1 DEF CallInv
  <2>2. CASE c # None
    <3>1. IsCall(c) /\ Holds(d, c) /\ Cites(d, n, c)
      BY <2>2 DEF PageInv, CallInv
    <3>2. Snapshot(e, c) /\ Capsule(e, c)
      BY <2>2 DEF Snapshot, Capsule, InSection
    <3>3. Holds(e, c)
      BY <3>1 DEF Holds
    <3>4. \A G : (Sound(d, n, G) => Sound(e, m, G)) /\ (SoundOrNone(d, n, G) => SoundOrNone(e, m, G))
      BY SoundStays
    <3>5. Cites(e, m, c)
      BY <3>1, <3>4 DEF Cites
    <3> QED BY <3>1, <3>2, <3>3, <3>5 DEF CallInv
  <2> QED BY <2>1, <2>2
<1>2. Here(e, c, v2)
  <2>1. Tests(c) => TurnsOf(e, c.thread) = TurnsOf(d, c.thread)
    BY DEF PageInv, Spoken, Only
  <2>2. TurnsOf(d, v.thread) \subseteq TurnsOf(e, v.thread)
    BY DEF TurnsOf
  <2>3. Here(d, c, v)
    BY DEF PageInv
  <2> QED BY <2>1, <2>2, <2>3 DEF Here
<1> QED BY <1>1, <1>2 DEF PageInv, CallInv, Spoken, InSection

LEMMA AcceptVoiceKeeps ==
    ASSUME NoneIsNull, OnePage, ConvInd, NEW k \in Slot, AcceptVoice(k) PROVE ConvInd'
<1> DEFINE s == call[k]  v == view[k[1]]  c == call[Ui(k[1])]
           User == UserTurn(Id("turn", 1), s.thread, NextPosition(s.listed), "accepted")
           Reply == SpecularTurn(Id("turn", 2), s.thread, User.position + 1, User.id)
           Row == [s.snap EXCEPT !.turnIds = AppendTurnId(AppendTurnId(@, User.id), Reply.id)]
           View2 == IF v.thread # s.thread THEN v
                    ELSE [v EXCEPT !.conclusion = Row.conclusion,
                                   !.turns = MergeTurns(@, {User, Reply})]
<1>1. At(k, {"accept"}) /\ s # None /\ s.pc = "accept" /\ s.op = "voice"
  BY DEF AcceptVoice, At
<1>2. CASE Refused(k)
  BY <1>1, <1>2, RefusedKeeps
<1>3. CASE /\ db' = AcceptExchange(db, Row, User, Reply) /\ Draw("turn", 2)
           /\ Return(k, View2)
  <2>1. /\ k[1] \in Page /\ k = <<k[1], "voice">> /\ k # Ui(k[1]) /\ Ui(k[1]) \in Slot
        /\ PageInv(db, drawn, c, s, v) /\ Stores(db, drawn)
    BY <1>1, VoiceCall
  <2>2. ~InSection(c)
    BY <1>1, <2>1, Alone
  <2>3. Snapshot(db, s) /\ ~OfCapsule(s) /\ Shows(db, drawn, v) /\ ShowsTurns(db, c, v)
    BY <1>1, <2>1 DEF PageInv, CallInv, OfCapsule
  <2>4. PICK t : t = s.snap
    OBVIOUS
  <2>5. t \in db.threads /\ t.id = s.thread /\ t.state = "active" /\ s.listed = TurnsOf(db, t.id)
    BY <1>1, <2>3, <2>4 DEF Snapshot
  <2>6. /\ drawn \in [thread : Nat, turn : Nat, capsule : Nat] /\ t \in ThreadRow /\ t.id \in Nat
        /\ \A q \in db.turns : q.id \in 1 .. drawn.turn
        /\ \A q \in db.threads : q.id = t.id => q = t
        /\ NextPosition(TurnsOf(db, t.id)) \in Nat
    BY <2>1, <2>5, StoresAreTyped, NextPositionIs DEF Distinct, ThreadRow
  <2>7. PICK x : x = UserTurn(drawn.turn + 1, t.id, NextPosition(TurnsOf(db, t.id)), "accepted")
    OBVIOUS
  <2>8. /\ x \in TurnRow /\ x.id = drawn.turn + 1 /\ x.thread = t.id /\ x.role = "user" /\ x.to = None
        /\ x.state = "accepted" /\ x.position = NextPosition(TurnsOf(db, t.id))
    BY <2>6, <2>7 DEF UserTurn, TurnRow
  <2>9. PICK y : y = SpecularTurn(drawn.turn + 2, t.id, x.position + 1, x.id)
    OBVIOUS
  <2>10. /\ y \in TurnRow /\ y.id = drawn.turn + 2 /\ y.thread = t.id /\ y.role = "specular"
         /\ y.position = x.position + 1 /\ y.to = x.id
    <3>1. x.position + 1 \in Nat /\ x.id \in Nat /\ drawn.turn + 2 \in Nat
      BY <2>6, <2>8
    <3> QED BY <2>6, <2>9, <3>1 DEF SpecularTurn, TurnRow
  <2>11. PICK row : row = [t EXCEPT !.turnIds = AppendTurnId(AppendTurnId(@, x.id), y.id)]
    OBVIOUS
  <2>12. /\ row \in ThreadRow /\ row.id = t.id /\ row.state = t.state /\ row.conclusion = t.conclusion
         /\ row.turnIds = AppendTurnId(AppendTurnId(t.turnIds, x.id), y.id)
    <3>1. x.id \in Nat /\ y.id \in Nat
      BY <2>8, <2>10 DEF TurnRow
    <3> QED BY <2>6, <2>11, <3>1, RowTwice
  <2>13. User = x /\ Reply = y /\ Row = row
    <3>1. User = x
      BY <2>5, <2>7 DEF Id
    <3> HIDE DEF User
    <3>2. Reply = y
      BY <2>5, <2>9, <3>1 DEF Id
    <3> HIDE DEF Reply
    <3>3. Row = row
      BY <2>4, <2>11, <3>1, <3>2
    <3> QED BY <3>1, <3>2, <3>3
  <2>14. PICK v2 : v2 = View2
    OBVIOUS
  <2>15. /\ db' = AcceptExchange(db, row, x, y) /\ Return(k, v2)
         /\ v2 = IF v.thread # s.thread THEN v
                 ELSE [v EXCEPT !.conclusion = row.conclusion, !.turns = MergeTurns(@, {x, y})]
    <3> HIDE DEF Reply, User, Row
    <3> QED BY <1>3, <2>13, <2>14
  <2>16. /\ drawn' \in [thread : Nat, turn : Nat, capsule : Nat] /\ drawn'.thread = drawn.thread
         /\ drawn'.turn = drawn.turn + 2 /\ drawn'.capsule = drawn.capsule /\ drawn.thread <= drawn'.thread
    BY <1>3, <2>6, Drawn
  <2> HIDE DEF Reply, User, Row, View2
  <2>17. /\ Stores(db', drawn') /\ Later(db, drawn, db', drawn') /\ Only(db, db', t.id) /\ row \in db'.threads
         /\ TurnsOf(db', t.id) = (TurnsOf(db, t.id) \cup {x}) \cup {y}
         /\ db'.capsules = db.capsules /\ db.turns \subseteq db'.turns
    BY <2>1, <2>5, <2>8, <2>10, <2>12, <2>15, <2>16, VoiceStored
  <2>18. v2.thread = v.thread /\ v2.listening = v.listening /\ Shows(db', drawn', v2) /\ ShowsTurns(db', c, v2)
    <3>1. CASE v.thread # s.thread
      <4>1. v2 = v
        BY <2>15, <3>1
      <4>2. v.thread # None => \E q \in db'.threads :
              q.id = v.thread /\ q.state = "active" /\ v.conclusion = q.conclusion
        BY <2>3, <2>5, <2>17, <3>1 DEF Shows, Only
      <4>3. Shows(db', drawn', v)
        BY <2>3, <2>6, <2>16, <2>17, <4>2, ShowsStays
      <4>4. TurnsOf(db', v.thread) = TurnsOf(db, v.thread)
        BY <2>5, <2>17, <3>1 DEF Only
      <4> QED BY <2>3, <4>1, <4>3, <4>4 DEF ShowsTurns
    <3>2. CASE v.thread = s.thread
      <4>1. v2 = [v EXCEPT !.conclusion = row.conclusion, !.turns = MergeTurns(@, {x, y})]
        BY <2>15, <3>2
      <4>2. /\ v2 = [z \in ViewFields |-> v2[z]] /\ v2.thread = v.thread /\ v2.conclusion = row.conclusion
            /\ v2.turns = MergeTurns(v.turns, {x, y}) /\ v2.listening = v.listening /\ v2.capsules = v.capsules
            /\ v2.gathered = v.gathered
        <5>1. v = [z \in ViewFields |-> v[z]]
          BY <2>3 DEF Shows
        <5> HIDE <2>15
        <5> QED BY <4>1, <5>1 DEF ViewFields
      <4>3. SoundOrNone(db', drawn', v2.gathered)
        BY <2>3, <2>6, <2>16, <2>17, <4>2, SoundStays DEF Shows
      <4>4. Shows(db', drawn', v2)
        BY <2>3, <2>5, <2>12, <2>17, <3>2, <4>2, <4>3 DEF Shows
      <4>5. \A q \in TurnsOf(db, t.id) : q.id \notin Ids({x, y})
        BY <2>6, <2>8, <2>10 DEF TurnsOf, Ids
      <4>6. Other(v.turns, c) = Other(TurnsOf(db, t.id), c)
        BY <2>3, <2>5, <3>2 DEF ShowsTurns
      <4>7. Other(MergeTurns(v.turns, {x, y}), c) = Other(TurnsOf(db, t.id) \cup {x, y}, c)
        <5>1. PICK rows : rows = {x, y}
          OBVIOUS
        <5>2. PICK S : S = TurnsOf(db, t.id)
          OBVIOUS
        <5>3. PICK shown : shown = v.turns
          OBVIOUS
        <5>4. Other(shown, c) = Other(S, c) /\ \A q \in S : q.id \notin Ids(rows)
          BY <4>5, <4>6, <5>1, <5>2, <5>3
        <5>5. Other(MergeTurns(shown, rows), c) = Other(S \cup rows, c)
          BY <5>4, MergedOther
        <5> QED BY <5>1, <5>2, <5>3, <5>5
      <4>8. TurnsOf(db, t.id) \cup {x, y} = TurnsOf(db', v2.thread)
        BY <2>5, <2>17, <3>2, <4>2
      <4> QED BY <4>2, <4>4, <4>7, <4>8 DEF ShowsTurns
    <3> QED BY <3>1, <3>2
  <2>19. PageInv(db', drawn', c, None, v2)
    BY <1>1, <2>1, <2>2, <2>5, <2>6, <2>16, <2>17, <2>18, VoiceStep
  <2>20. call' = [call EXCEPT ![<<k[1], "voice">>] = None] /\ view' = [view EXCEPT ![k[1]] = v2]
    BY <2>1, <2>15 DEF Return
  <2> QED BY <2>1, <2>17, <2>19, <2>20, VoiceKeeps
<1> QED BY <1>2, <1>3 DEF AcceptVoice, Commit

(* What a call knows that keeps, saves or finishes what was gathered.      *)
LEMMA GatheredKnown ==
    ASSUME NoneIsNull, OnePage, ConvInd, NEW k \in Slot, At(k, {"write"}), call[k].op \in {"keep", "save", "finish"}
    PROVE  LET c == call[k]  v == view[k[1]]
           IN  /\ c # None /\ c.pc = "write" /\ c.snap \in db.threads /\ c.snap \in ThreadRow
               /\ c.snap.id = c.thread /\ c.snap.state = "active" /\ c.listed = TurnsOf(db, c.thread)
               /\ Sound(db, drawn, c.arg)
               /\ Stores(db, drawn) /\ drawn \in [thread : Nat, turn : Nat, capsule : Nat]
               /\ Shows(db, drawn, v) /\ v.thread = c.thread /\ c.thread # None
               /\ v.conclusion = c.snap.conclusion
               /\ v.turns = TurnsOf(db, v.thread) /\ v = [z \in ViewFields |-> v[z]]
<1> DEFINE c == call[k]  v == view[k[1]]
<1>1. /\ c # None /\ c.pc = "write" /\ Stores(db, drawn) /\ Snapshot(db, c) /\ Cites(db, drawn, c)
      /\ Shows(db, drawn, v) /\ ShowsTurns(db, c, v) /\ Here(db, c, v)
  <2>1. c # None /\ c.pc = "write" /\ c.op # "voice"
    BY DEF At
  <2> QED BY <2>1, UiKnown
<1>2. ~OfCapsule(c)
  BY DEF OfCapsule
<1>3. c.snap \in db.threads /\ c.snap.id = c.thread /\ c.snap.state = "active" /\ c.listed = TurnsOf(db, c.thread)
  BY <1>1, <1>2 DEF Snapshot
<1>4. v.thread = c.thread /\ c.thread # None
  BY <1>1, <1>2 DEF Here
<1>5. /\ c.snap \in ThreadRow /\ drawn \in [thread : Nat, turn : Nat, capsule : Nat]
      /\ \A q \in db.threads : q.id = c.snap.id => q = c.snap
  BY <1>1, <1>3, StoresAreTyped DEF Distinct
<1>6. v.conclusion = c.snap.conclusion /\ v = [z \in ViewFields |-> v[z]]
  BY <1>1, <1>3, <1>4, <1>5 DEF Shows
<1>7. v.turns = TurnsOf(db, v.thread) /\ Sound(db, drawn, c.arg)
  BY <1>1 DEF ShowsTurns, Other, Cites
<1> QED BY <1>1, <1>3, <1>4, <1>5, <1>6, <1>7

LEMMA KeepConclusionKeeps ==
    ASSUME NoneIsNull, OnePage, ConvInd, NEW k \in Slot, KeepConclusion(k) PROVE ConvInd'
<1> DEFINE c == call[k]  v == view[k[1]]
           Row == [c.snap EXCEPT !.conclusion = c.arg]
           View2 == [v EXCEPT !.thread = Row.id, !.conclusion = c.arg, !.gathered = None]
<1>1. At(k, {"write"}) /\ c # None /\ c.pc = "write" /\ c.op = "keep"
  BY DEF KeepConclusion, At
<1>2. CASE Refused(k)
  BY <1>1, <1>2, RefusedKeeps
<1>3. CASE db' = PutThread(db, Row) /\ Return(k, View2) /\ drawn' = drawn
  <2>1. PICK t : t = c.snap
    OBVIOUS
  <2>2. /\ t \in db.threads /\ t \in ThreadRow /\ t.id = c.thread /\ t.state = "active"
        /\ Sound(db, drawn, c.arg) /\ Stores(db, drawn) /\ drawn \in [thread : Nat, turn : Nat, capsule : Nat]
        /\ Shows(db, drawn, v) /\ v.thread = t.id /\ t.id # None
        /\ v.turns = TurnsOf(db, v.thread) /\ v = [z \in ViewFields |-> v[z]]
    BY <1>1, <2>1, GatheredKnown
  <2>3. PICK row : row = [t EXCEPT !.conclusion = c.arg]
    OBVIOUS
  <2>4. /\ row \in ThreadRow /\ row.id = t.id /\ row.turnIds = t.turnIds /\ row.state = t.state
        /\ row.conclusion = c.arg
    <3>1. c.arg \in {None} \cup SUBSET Nat
      BY <2>2 DEF Sound
    <3> QED BY <2>2, <2>3, <3>1 DEF ThreadRow
  <2>5. Row = row
    BY <2>1, <2>3
  <2>6. PICK v2 : v2 = View2
    OBVIOUS
  <2>7. db' = PutThread(db, row) /\ Return(k, v2) /\ v2 = [v EXCEPT !.thread = t.id, !.conclusion = c.arg, !.gathered = None]
    <3> HIDE DEF Row
    <3> QED BY <1>3, <2>4, <2>5, <2>6
  <2> HIDE DEF Row, View2
  <2>8. /\ Stores(db', drawn) /\ Later(db, drawn, db', drawn)
        /\ row \in db'.threads /\ db'.turns = db.turns /\ db'.capsules = db.capsules
    <3>1. SoundOrNone(db, drawn, row.conclusion) /\ db' = PutThread(db, row)
      BY <2>2, <2>4, <2>7 DEF SoundOrNone
    <3> QED BY <2>2, <2>4, <3>1, ThreadRewritten
  <2>9. /\ v2 = [z \in ViewFields |-> v2[z]] /\ v2.thread = t.id /\ v2.conclusion = c.arg
        /\ v2.turns = v.turns /\ v2.listening = v.listening /\ v2.capsules = v.capsules
        /\ v2.gathered = None
    BY <2>2, <2>7 DEF ViewFields
  <2>10. Shows(db', drawn', v2)
    BY <1>3, <2>2, <2>4, <2>8, <2>9 DEF Shows, SoundOrNone
  <2>11. v2.turns = TurnsOf(db', v2.thread)
    BY <2>2, <2>8, <2>9 DEF TurnsOf
  <2>12. Stores(db', drawn') /\ drawn.thread <= drawn'.thread
    BY <1>3, <2>2, <2>8
  <2> QED BY <1>1, <2>7, <2>10, <2>11, <2>12, UiReturns
<1> QED BY <1>2, <1>3 DEF KeepConclusion, Commit

(* A capsule within the range of its thread.                               *)
LEMMA CapsuleBuilt ==
    ASSUME NEW d, NEW n, Stores(d, n), NEW t \in d.threads, NEW first, NEW last, NEW G, Sound(d, n, G),
           WithinRange(TurnsOf(d, t.id), first, last, G),
           NEW x, x = [id |-> n.capsule + 1, thread |-> t.id, first |-> first, last |-> last, provenance |-> G]
    PROVE  x \in CapsuleRow /\ CapsuleOf(d, n, x)
<1> DEFINE rows == TurnsOf(d, t.id)
<1>1. /\ n \in [thread : Nat, turn : Nat, capsule : Nat] /\ t \in ThreadRow /\ t.id \in 1 .. n.thread
      /\ \A r \in d.turns : r \in TurnRow /\ r.id \in 1 .. n.turn
      /\ Distinct(d.turns)
  BY StoresAreTyped
<1>2. {first, last} \cup G \subseteq Ids(rows)
  BY DEF WithinRange
<1>3. rows \in SUBSET d.turns /\ Distinct(rows) /\ \A r \in rows : r.thread = t.id
  BY <1>1 DEF Distinct, TurnsOf
<1>4. Ids(rows) \in SUBSET Ids(d.turns) /\ Ids(rows) \in SUBSET (1 .. n.turn)
  BY <1>1, <1>3 DEF Ids
<1>5. \A r \in d.turns : r.id \in Ids(rows) => r \in rows
  BY <1>1, <1>3 DEF Ids, Distinct
<1>6. \A r, f, l \in rows : r.id \in {first, last} \cup G /\ f.id = first /\ l.id = last =>
        f.position <= r.position /\ r.position <= l.position
  <2>1. ASSUME NEW r \in rows, NEW f \in rows, NEW l \in rows, r.id \in {first, last} \cup G, f.id = first, l.id = last
        PROVE  f.position <= r.position /\ r.position <= l.position
    <3>1. Get(rows, r.id) = r /\ Get(rows, first) = f /\ Get(rows, last) = l
      BY <1>3, <2>1, GetIs
    <3>2. r.position \in Nat /\ f.position \in Nat /\ l.position \in Nat
      BY <1>1, <1>3 DEF TurnRow
    <3>3. l.position \in f.position .. l.position
      BY <2>1, <3>1 DEF WithinRange
    <3>4. r.id \in G \cup {last} => r.position \in f.position .. l.position
      BY <2>1, <3>1 DEF WithinRange
    <3>5. r.id = first => r = f
      BY <1>3, <2>1 DEF Distinct
    <3> QED BY <2>1, <3>2, <3>3, <3>4, <3>5
  <2> QED BY <2>1
<1> HIDE DEF rows
<1>7. x.id = n.capsule + 1 /\ x.thread = t.id /\ x.first = first /\ x.last = last /\ x.provenance = G
  OBVIOUS
<1>8. x \in CapsuleRow
  <2>1. first \in Nat /\ last \in Nat /\ G \in SUBSET Nat /\ n.capsule + 1 \in Nat /\ t.id \in Nat
    BY <1>1, <1>2, <1>4
  <2> QED BY <2>1 DEF CapsuleRow
<1>9. CapsuleOf(d, n, x)
  <2> DEFINE cited == {x.first, x.last} \cup x.provenance
  <2>1. x.thread \in 1 .. n.thread /\ {x.first, x.last} \subseteq 1 .. n.turn
    BY <1>1, <1>2, <1>4, <1>7
  <2>2. \A r \in d.turns : r.id \in cited => r.thread = x.thread
    BY <1>2, <1>3, <1>5, <1>7
  <2>3. cited \subseteq Ids(d.turns)
    BY <1>2, <1>4, <1>7
  <2>4. \A r, f, l \in d.turns : r.id \in cited /\ f.id = x.first /\ l.id = x.last =>
          f.position <= r.position /\ r.position <= l.position
    BY <1>2, <1>5, <1>6, <1>7
  <2> QED BY <1>7, <2>1, <2>2, <2>3, <2>4 DEF CapsuleOf
<1> QED BY <1>8, <1>9

LEMMA StoreCapsuleKeeps ==
    ASSUME NoneIsNull, OnePage, ConvInd, NEW k \in Slot, StoreCapsule(k) PROVE ConvInd'
<1> DEFINE c == call[k]  v == view[k[1]]  id == drawn.capsule + 1
           View2 == [v EXCEPT !.capsules = @ \cup {id}]
<1>1. At(k, {"write"}) /\ c # None /\ c.pc = "write" /\ c.op = "save"
  BY DEF StoreCapsule, At
<1>2. CASE Refused(k)
  BY <1>1, <1>2, RefusedKeeps
<1>3. CASE CapsuleAllowed(c) /\ db' = PutCapsule(db, BuildCapsule(c)) /\ Draw("capsule", 1) /\ Return(k, View2)
  <2>1. PICK t : t = c.snap
    OBVIOUS
  <2>2. /\ t \in db.threads /\ t \in ThreadRow /\ t.id = c.thread /\ t.state = "active"
        /\ c.listed = TurnsOf(db, t.id)
        /\ Sound(db, drawn, c.arg) /\ Stores(db, drawn) /\ drawn \in [thread : Nat, turn : Nat, capsule : Nat]
        /\ Shows(db, drawn, v) /\ v.thread = t.id /\ t.id # None
        /\ v.conclusion = t.conclusion
        /\ v.turns = TurnsOf(db, v.thread) /\ v = [z \in ViewFields |-> v[z]]
    BY <1>1, <2>1, GatheredKnown
  <2>3. PICK x : x = BuildCapsule(c)
    OBVIOUS
  <2>4. x = [id |-> drawn.capsule + 1, thread |-> t.id, first |-> c.turn[1], last |-> c.turn[2], provenance |-> c.arg]
    BY <2>2, <2>3 DEF BuildCapsule, Id
  <2>5. WithinRange(TurnsOf(db, t.id), c.turn[1], c.turn[2], c.arg)
    BY <1>3, <2>2 DEF CapsuleAllowed
  <2>6. x \in CapsuleRow /\ CapsuleOf(db, drawn, x) /\ x.id = id
    BY <2>2, <2>4, <2>5, CapsuleBuilt
  <2>7. PICK v2 : v2 = View2
    OBVIOUS
  <2>8. db' = PutCapsule(db, x) /\ Return(k, v2)
    BY <1>3, <2>3, <2>7
  <2>9. /\ drawn' \in [thread : Nat, turn : Nat, capsule : Nat] /\ drawn'.thread = drawn.thread
        /\ drawn'.turn = drawn.turn /\ drawn'.capsule = id /\ drawn.thread <= drawn'.thread
    BY <1>3, <2>2, Drawn
  <2>10. /\ Stores(db', drawn') /\ Later(db, drawn, db', drawn')
         /\ db'.threads = db.threads /\ db'.turns = db.turns
         /\ Ids(db'.capsules) = Ids(db.capsules) \cup {id}
    BY <2>2, <2>6, <2>8, <2>9, CapsuleStored
  <2>11. /\ v2 = [z \in ViewFields |-> v2[z]] /\ v2.thread = v.thread /\ v2.conclusion = v.conclusion
         /\ v2.turns = v.turns /\ v2.listening = v.listening /\ v2.capsules = v.capsules \cup {id}
         /\ v2.gathered = v.gathered
    BY <2>2, <2>7 DEF ViewFields
  <2>12. SoundOrNone(db', drawn', v2.gathered)
    BY <2>2, <2>9, <2>10, <2>11, SoundStays DEF Shows
  <2>13. Shows(db', drawn', v2)
    BY <2>2, <2>10, <2>11, <2>12 DEF Shows
  <2>14. v2.turns = TurnsOf(db', v2.thread)
    BY <2>2, <2>10, <2>11 DEF TurnsOf
  <2> HIDE DEF id, View2
  <2> QED BY <1>1, <2>8, <2>9, <2>10, <2>13, <2>14, UiReturns
<1> QED BY <1>2, <1>3 DEF StoreCapsule, Commit, Id

LEMMA SaveAndFinishKeeps ==
    ASSUME NoneIsNull, OnePage, ConvInd, NEW k \in Slot, SaveAndFinish(k) PROVE ConvInd'
<1> DEFINE c == call[k]  v == view[k[1]]
           Row == [c.snap EXCEPT !.state = "completed", !.conclusion = c.arg]
           Fresh == NewThread(Id("thread", 1), None)
           View2 == [EmptyView EXCEPT !.thread = Fresh.id, !.capsules = v.capsules \cup {BuildCapsule(c).id}]
<1>1. At(k, {"write"}) /\ c # None /\ c.pc = "write" /\ c.op = "finish"
  BY DEF SaveAndFinish, At
<1>2. CASE Refused(k)
  BY <1>1, <1>2, RefusedKeeps
<1>3. CASE /\ CapsuleAllowed(c) /\ db' = FinishAndStart(db, Row, Fresh, BuildCapsule(c))
           /\ drawn' = [drawn EXCEPT !.thread = @ + 1, !.capsule = @ + 1]
           /\ Return(k, View2)
  <2>1. PICK t : t = c.snap
    OBVIOUS
  <2>2. /\ t \in db.threads /\ t \in ThreadRow /\ t.id = c.thread /\ t.state = "active"
        /\ c.listed = TurnsOf(db, t.id)
        /\ Sound(db, drawn, c.arg) /\ Stores(db, drawn) /\ drawn \in [thread : Nat, turn : Nat, capsule : Nat]
        /\ Shows(db, drawn, v)
    BY <1>1, <2>1, GatheredKnown
  <2>3. PICK x : x = BuildCapsule(c)
    OBVIOUS
  <2>4. x = [id |-> drawn.capsule + 1, thread |-> t.id, first |-> c.turn[1], last |-> c.turn[2], provenance |-> c.arg]
    BY <2>2, <2>3 DEF BuildCapsule, Id
  <2>5. WithinRange(TurnsOf(db, t.id), c.turn[1], c.turn[2], c.arg)
    BY <1>3, <2>2 DEF CapsuleAllowed
  <2>6. x \in CapsuleRow /\ CapsuleOf(db, drawn, x) /\ x.id = drawn.capsule + 1
    BY <2>2, <2>4, <2>5, CapsuleBuilt
  <2>7. PICK f : f = NewThread(drawn.thread + 1, None)
    OBVIOUS
  <2>8. f.id = drawn.thread + 1 /\ f.state = "active" /\ f.conclusion = None
    BY <2>7 DEF NewThread
  <2>9. PICK row : row = [t EXCEPT !.state = "completed", !.conclusion = c.arg]
    OBVIOUS
  <2>10. /\ row \in ThreadRow /\ row.id = t.id /\ row.turnIds = t.turnIds
         /\ SoundOrNone(db, drawn, row.conclusion)
    <3>1. c.arg \in {None} \cup SUBSET Nat
      BY <2>2 DEF Sound
    <3>2. row \in ThreadRow /\ row.id = t.id /\ row.turnIds = t.turnIds /\ row.conclusion = c.arg
      BY <2>2, <2>9, <3>1 DEF ThreadRow
    <3> QED BY <2>2, <3>2 DEF SoundOrNone
  <2>11. Row = row /\ Fresh = f
    BY <2>1, <2>7, <2>9 DEF Id
  <2>12. PICK v2 : v2 = View2
    OBVIOUS
  <2>13. /\ db' = FinishAndStart(db, row, f, x) /\ Return(k, v2)
         /\ v2 = [EmptyView EXCEPT !.thread = drawn.thread + 1, !.capsules = v.capsules \cup {drawn.capsule + 1}]
    <3> HIDE DEF Row, Fresh
    <3> QED BY <1>3, <2>3, <2>6, <2>8, <2>11, <2>12
  <2> HIDE DEF Row, Fresh, View2
  <2>14. /\ drawn' \in [thread : Nat, turn : Nat, capsule : Nat] /\ drawn'.thread = drawn.thread + 1
         /\ drawn'.turn = drawn.turn /\ drawn'.capsule = drawn.capsule + 1 /\ drawn.thread <= drawn'.thread
    <3>1. PICK o : o = [drawn EXCEPT !.thread = drawn.thread + 1]
      OBVIOUS
    <3>2. drawn' = [o EXCEPT !.capsule = drawn.capsule + 1]
      BY <1>3, <3>1
    <3>3. drawn \in [thread : Nat, turn : Nat, capsule : Nat]
      BY <2>2
    <3>4. drawn.thread + 1 \in Nat /\ drawn.capsule + 1 \in Nat /\ drawn.thread <= drawn.thread + 1
      BY <3>3
    <3>5. /\ o \in [thread : Nat, turn : Nat, capsule : Nat] /\ o.thread = drawn.thread + 1
          /\ o.turn = drawn.turn
      BY <3>1, <3>3, <3>4
    <3>6. /\ drawn' \in [thread : Nat, turn : Nat, capsule : Nat] /\ drawn'.thread = o.thread
          /\ drawn'.turn = o.turn /\ drawn'.capsule = drawn.capsule + 1
      BY <3>2, <3>4, <3>5
    <3> QED BY <3>4, <3>5, <3>6
  <2>15. /\ Stores(db', drawn') /\ f \in db'.threads
         /\ TurnsOf(db', drawn.thread + 1) = {}
         /\ Ids(db'.capsules) = Ids(db.capsules) \cup {drawn.capsule + 1}
    <3>1. db' = FinishAndStart(db, row, f, x)
      BY <2>13
    <3> QED BY <2>2, <2>6, <2>7, <2>10, <2>14, <3>1, FinishStored
  <2>16. /\ v2 = [z \in ViewFields |-> v2[z]] /\ v2.thread = drawn.thread + 1 /\ v2.conclusion = None
         /\ v2.turns = {} /\ v2.listening = FALSE /\ v2.capsules = v.capsules \cup {drawn.capsule + 1}
         /\ v2.gathered = None
    BY <2>13 DEF ViewFields, EmptyView
  <2>17. Shows(db', drawn', v2)
    <3>1. drawn.thread + 1 # None
      BY <2>2 DEF NoneIsNull
    <3> QED BY <2>2, <2>8, <2>15, <2>16, <3>1 DEF Shows, SoundOrNone
  <2>18. v2.turns = TurnsOf(db', v2.thread)
    BY <2>15, <2>16
  <2> QED BY <1>1, <2>13, <2>14, <2>15, <2>17, <2>18, UiReturns
<1> QED BY <1>2, <1>3 DEF SaveAndFinish, Commit

LEMMA UpdateCapsuleKeeps ==
    ASSUME NoneIsNull, OnePage, ConvInd, NEW k \in Slot, UpdateCapsule(k) PROVE ConvInd'
<1> DEFINE c == call[k]  v == view[k[1]]
<1>1. At(k, {"write"}) /\ c # None /\ c.pc = "write" /\ c.op = "update"
  BY DEF UpdateCapsule, At
<1>2. CASE Refused(k)
  BY <1>1, <1>2, RefusedKeeps
<1>3. CASE db' = PutCapsule(db, c.snap) /\ Return(k, v) /\ drawn' = drawn
  <2>1. /\ Stores(db, drawn) /\ Capsule(db, c) /\ Shows(db, drawn, v) /\ ShowsTurns(db, c, v)
        /\ drawn.thread \in Nat
    BY <1>1, UiKnown
  <2>2. c.snap \in db.capsules
    BY <1>1, <2>1 DEF Capsule, OfCapsule
  <2>3. db' = db
    BY <1>3, <2>1, <2>2, CapsuleKept
  <2>4. v.turns = TurnsOf(db, v.thread)
    BY <1>1, <2>1 DEF ShowsTurns, Other
  <2>5. Stores(db', drawn') /\ Shows(db', drawn', v) /\ v.turns = TurnsOf(db', v.thread) /\ drawn.thread <= drawn'.thread
    BY <1>3, <2>1, <2>3, <2>4
  <2> QED BY <1>1, <1>3, <2>5, UiReturns
<1> QED BY <1>2, <1>3 DEF UpdateCapsule, Commit

LEMMA StartFromCapsuleKeeps ==
    ASSUME NoneIsNull, OnePage, ConvInd, NEW k \in Slot, StartFromCapsule(k) PROVE ConvInd'
<1> DEFINE c == call[k]  v == view[k[1]]  id == drawn.thread + 1  G == c.snap.provenance
           t == NewThread(id, G)
           Next2 == IF c.op = "resume" THEN None ELSE NewCall("test", t.id, "thread", None)
           View2 == [EmptyView EXCEPT !.thread = t.id, !.conclusion = t.conclusion, !.capsules = v.capsules]
<1>1. At(k, {"write"}) /\ c # None /\ c.pc = "write" /\ c.op \in {"resume", "test"}
  BY DEF StartFromCapsule, At
<1>2. CASE Refused(k)
  BY <1>1, <1>2, RefusedKeeps
<1>3. CASE /\ db' = PutThread(db, t) /\ Draw("thread", 1)
           /\ view' = [view EXCEPT ![k[1]] = View2]
           /\ call' = [call EXCEPT ![k] = Next2]
  <2>1. /\ Stores(db, drawn) /\ Capsule(db, c) /\ Shows(db, drawn, v)
    BY <1>1, UiKnown
  <2>2. c.snap \in db.capsules
    BY <1>1, <2>1 DEF Capsule, OfCapsule
  <2>3. Sound(db, drawn, G) /\ drawn \in [thread : Nat, turn : Nat, capsule : Nat]
    BY <2>1, <2>2, StoresAreTyped DEF Rows, CapsuleOf
  <2> HIDE DEF G
  <2>4. /\ drawn' \in [thread : Nat, turn : Nat, capsule : Nat] /\ drawn'.thread = id
        /\ drawn'.turn = drawn.turn /\ drawn'.capsule = drawn.capsule /\ drawn.thread <= drawn'.thread
    BY <1>3, <2>3, Drawn
  <2>5. /\ Stores(db', drawn') /\ Later(db, drawn, db', drawn') /\ t \in db'.threads
        /\ TurnsOf(db', id) = {} /\ db'.capsules = db.capsules
    BY <1>3, <2>1, <2>3, <2>4, ThreadStarted DEF SoundOrNone
  <2>6. t.id = id /\ t.state = "active" /\ t.conclusion = G
    BY DEF NewThread
  <2> HIDE DEF t
  <2>7. PICK v2 : v2 = View2
    OBVIOUS
  <2>8. PICK c2 : c2 = Next2
    OBVIOUS
  <2>9. /\ v2 = [z \in ViewFields |-> v2[z]] /\ v2.thread = id /\ v2.conclusion = G
        /\ v2.turns = {} /\ v2.listening = FALSE /\ v2.capsules = v.capsules
        /\ v2.gathered = None
    BY <2>6, <2>7 DEF ViewFields, EmptyView
  <2>10. id # None
    BY <2>3 DEF NoneIsNull
  <2>11. Shows(db', drawn', v2)
    BY <2>1, <2>5, <2>6, <2>9, <2>10 DEF Shows, SoundOrNone
  <2>12. ShowsTurns(db', c2, v2)
    BY <2>5, <2>9 DEF ShowsTurns
  <2>13. /\ CallInv(db', drawn', c2) /\ Here(db', c2, v2)
         /\ (Tests(c2) => c2.thread \notin 1 .. drawn.thread)
    <3>1. CASE c.op = "resume"
      BY <2>8, <3>1 DEF CallInv, Here, Tests
    <3>2. CASE c.op # "resume"
      <4>1. c2 = NewCall("test", id, "thread", None)
        BY <2>6, <2>8, <3>2
      <4>2. /\ c2 = [z \in CallFields |-> c2[z]] /\ c2.op = "test" /\ c2.thread = id /\ c2.pc = "thread"
        BY <4>1 DEF NewCall, CallFields
      <4>3. CallInv(db', drawn', c2) /\ ~OfCapsule(c2)
        BY <4>2 DEF CallInv, IsCall, Ops, Stage, Snapshot, Capsule, Holds, HasTurn, Cites, OfCapsule
      <4>4. Here(db', c2, v2)
        BY <2>5, <2>9, <2>10, <4>2 DEF Here
      <4>5. c2.thread \notin 1 .. drawn.thread
        BY <2>3, <4>2
      <4> QED BY <4>3, <4>4, <4>5
    <3> QED BY <3>1, <3>2
  <2>14. call' = [call EXCEPT ![k] = c2] /\ view' = [view EXCEPT ![k[1]] = v2]
    BY <1>3, <2>7, <2>8
  <2> QED BY <1>1, <2>4, <2>5, <2>11, <2>12, <2>13, <2>14, UiWrites
<1> QED BY <1>2, <1>3 DEF StartFromCapsule, Commit, Id

(***************************************************************************)
(* The invariant holds in every state.                                     *)
(***************************************************************************)
LEMMA ConvStarts == ASSUME NoneIsNull, Init PROVE ConvInd
<1>1. db = EmptyDb /\ drawn \in [thread : Nat, turn : Nat, capsule : Nat]
  BY DEF Init
<1>2. Stores(db, drawn)
  BY <1>1, NothingStored
<1>3. /\ call = [k \in Slot |-> call[k]] /\ view = [p \in Page |-> view[p]]
      /\ \A k \in Slot : call[k] = None
      /\ \A p \in Page : view[p] = EmptyView
  BY DEF Init
<1>4. \A p \in Page : call[Ui(p)] = None /\ call[<<p, "voice">>] = None
  BY <1>3 DEF Slot, Ui
<1>5. Shows(db, drawn, EmptyView) /\ EmptyView.turns = TurnsOf(db, EmptyView.thread)
  <2>1. PICK v : v = EmptyView
    OBVIOUS
  <2>2. /\ v = [x \in ViewFields |-> v[x]] /\ v.thread = None /\ v.turns = {} /\ v.gathered = None
        /\ v.listening = FALSE /\ v.capsules = {}
    BY <2>1 DEF EmptyView, ViewFields
  <2>3. {} = Ids(db.capsules)
    BY <1>1 DEF EmptyDb, Ids
  <2>4. Shows(db, drawn, v) /\ v.turns = TurnsOf(db, v.thread)
    BY <1>2, <2>2, <2>3, EmptyShows
  <2> QED BY <2>1, <2>4
<1>6. PageInv(db, drawn, None, None, EmptyView)
  BY <1>5 DEF PageInv, CallInv, InSection, Here, Spoken, ShowsTurns, Other
<1> QED BY <1>2, <1>3, <1>4, <1>6 DEF ConvInd

LEMMA ProgressKeeps ==
    ASSUME NoneIsNull, OnePage, ConvInd, NEW k \in Slot, Progress(k) PROVE ConvInd'
BY StartThreadKeeps, ReadTurnKeeps, ReadRangeKeeps, RequireActiveThreadKeeps, ListTurnsKeeps,
   PersistUserTurnKeeps, BuildContextKeeps, AnswerKeeps, AcceptReplyKeeps, AcceptVoiceKeeps,
   AcceptSpecularKeeps, FailUserTurnKeeps, RefreshTurnsKeeps, KeepConclusionKeeps, StoreCapsuleKeeps,
   SaveAndFinishKeeps, ReadCapsuleKeeps, StartFromCapsuleKeeps, CheckSourceKeeps, UpdateCapsuleKeeps
DEF Progress

LEMMA ConvStep == ASSUME NoneIsNull, OnePage, ConvInd, [Next]_vars PROVE ConvInd'
<1>1. CASE UNCHANGED vars
  BY <1>1 DEF vars, ConvInd
<1>2. ASSUME NEW k \in Slot, Progress(k) PROVE ConvInd'
  BY <1>2, ProgressKeeps
<1>3. ASSUME NEW p \in Page,
             Submit(p) \/ Retry(p) \/ Challenge(p) \/ DraftConclusion(p)
             \/ KeepDigging(p) \/ SaveCapsule(p) \/ Finish(p)
             \/ (\E op \in {"resume", "test", "update"} : Revisit(p, op))
             \/ DeleteCurrentThread(p) \/ DeleteOneCapsule(p) \/ DeleteAll(p)
             \/ Listen(p) \/ Exchange(p) \/ Reload(p)
      PROVE  ConvInd'
  BY <1>3, SubmitKeeps, RetryKeeps, ChallengeKeeps, DraftConclusionKeeps, GatheredKeeps, RevisitKeeps,
     DeleteCurrentThreadKeeps, DeleteOneCapsuleKeeps, DeleteAllKeeps, ListenKeeps, ExchangeKeeps, ReloadKeeps
<1> QED BY <1>1, <1>2, <1>3 DEF Next

(* With one page and its voice session, ConvInd is inductive: whatever was *)
(* called, refused, reloaded or deleted, what a call has read before its   *)
(* section is what is stored in it (conversation-service.ts), and the page *)
(* shows what is stored but for a turn that is under way.                  *)
THEOREM ConversationInvariant == NoneIsNull /\ OnePage /\ Spec => []ConvInd
<1> SUFFICES ASSUME NoneIsNull, OnePage PROVE Spec => []ConvInd
  OBVIOUS
<1>1. Init => ConvInd
  BY ConvStarts
<1>2. ConvInd /\ [Next]_vars => ConvInd'
  BY ConvStep
<1> QED BY <1>1, <1>2, PTL DEF Spec

-----------------------------------------------------------------------------
(* What the invariant says of the stores.                                  *)
LEMMA AsManyIds ==
    ASSUME NEW S, IsFiniteSet(S), Distinct(S) PROVE Cardinality(Ids(S)) = Cardinality(S)
<1> DEFINE f == [r \in S |-> r.id]
<1>1. f \in [S -> Ids(S)]
  BY DEF Ids
<1>2. \A r, s \in S : f[r] = f[s] => r = s
  BY DEF Distinct
<1>3. \A id \in Ids(S) : \E r \in S : f[r] = id
  BY DEF Ids
<1> HIDE DEF f
<1>4. f \in Bijection(S, Ids(S))
  BY <1>1, <1>2, <1>3 DEF Bijection, Injection, Surjection, IsInjective
<1> QED BY <1>4, FS_Bijection DEF ExistsBijection

LEMMA TypesHold == ASSUME NoneIsNull, ConvInd PROVE TypeOK
<1>1. Stores(db, drawn)
  BY DEF ConvInd
<1>2. /\ drawn \in [thread : Nat, turn : Nat, capsule : Nat]
      /\ IsFiniteSet(db.threads) /\ IsFiniteSet(db.turns)
      /\ Distinct(db.threads) /\ Distinct(db.turns)
      /\ Ids(db.threads) \subseteq 1 .. drawn.thread
      /\ Ids(db.turns) \subseteq 1 .. drawn.turn
      /\ Ids(db.capsules) \subseteq 1 .. drawn.capsule
  BY <1>1 DEF Stores, Rows, Typed
<1>3. Cardinality(Ids(db.threads)) = Cardinality(db.threads) /\ Cardinality(Ids(db.turns)) = Cardinality(db.turns)
  BY <1>2, AsManyIds
<1>4. ASSUME NEW p \in Page PROVE view[p].thread \in {None} \cup 1 .. drawn.thread
  BY <1>2 DEF ConvInd, PageInv, Shows, Ids
<1> QED BY <1>2, <1>3, <1>4 DEF TypeOK

LEMMA TurnsHold == ASSUME NoneIsNull, NEW d, NEW n, Stores(d, n) PROVE TurnIntegrity(d)
<1>1. /\ \A t \in d.threads : t \in ThreadRow
      /\ \A r \in d.turns : r \in TurnRow
      /\ Distinct(d.threads) /\ Distinct(d.turns) /\ HaveThreads(d) /\ InOrder(d)
  BY StoresAreTyped DEF Stores, Rows
<1>2. ASSUME NEW r \in d.turns PROVE Get(d.threads, r.thread) # None
  <2>1. PICK t \in d.threads : t.id = r.thread
    BY <1>1 DEF HaveThreads
  <2> QED BY <1>1, <2>1, GetIs, RowsAreSome
<1>3. ASSUME NEW r \in d.turns, NEW s \in d.turns, r.thread = s.thread, r.position = s.position
      PROVE  r = s
  <2>1. PICK t \in d.threads : t.id = r.thread /\ \E i \in DOMAIN t.turnIds : t.turnIds[i] = r.id
    BY <1>1 DEF HaveThreads
  <2>2. PICK u \in d.threads : u.id = s.thread /\ \E i \in DOMAIN u.turnIds : u.turnIds[i] = s.id
    BY <1>1 DEF HaveThreads
  <2>3. u = t
    BY <1>1, <1>3, <2>1, <2>2 DEF Distinct
  <2>4. PICK i \in DOMAIN t.turnIds : t.turnIds[i] = r.id
    BY <2>1
  <2>5. PICK j \in DOMAIN t.turnIds : t.turnIds[j] = s.id
    BY <2>2, <2>3
  <2>6. r.position \in Nat /\ s.position \in Nat
    BY <1>1 DEF TurnRow
  <2>7. t.turnIds \in Seq(Nat)
    BY <1>1 DEF ThreadRow
  <2>8. i \in Nat /\ j \in Nat
    BY <2>7
  <2>9. ~(i < j) /\ ~(j < i)
    <3>1. i < j => r.position < s.position
      BY <1>1, <2>4, <2>5 DEF InOrder
    <3>2. j < i => s.position < r.position
      BY <1>1, <2>4, <2>5 DEF InOrder
    <3> QED BY <1>3, <2>6, <3>1, <3>2
  <2>10. i = j
    BY <2>8, <2>9
  <2> QED BY <1>1, <2>4, <2>5, <2>10 DEF Distinct
<1> QED BY <1>2, <1>3 DEF TurnIntegrity

LEMMA ThreadsHold == ASSUME NoneIsNull, NEW d, NEW n, Stores(d, n) PROVE ThreadIntegrity(d)
<1>1. /\ \A r \in d.turns : r \in TurnRow
      /\ Distinct(d.threads) /\ Distinct(d.turns) /\ HaveThreads(d) /\ InOrder(d) /\ AreListed(d)
  BY StoresAreTyped DEF Stores, Rows
<1> SUFFICES ASSUME NEW t \in d.threads
             PROVE  /\ \A i \in DOMAIN t.turnIds : /\ Get(d.turns, t.turnIds[i]) # None
                                                   /\ Get(d.turns, t.turnIds[i]).thread = t.id
                    /\ \A i, j \in DOMAIN t.turnIds : i < j =>
                          Get(d.turns, t.turnIds[i]).position < Get(d.turns, t.turnIds[j]).position
                    /\ \A r \in TurnsOf(d, t.id) : \E i \in DOMAIN t.turnIds : t.turnIds[i] = r.id
  BY DEF ThreadIntegrity
<1>2. ASSUME NEW i \in DOMAIN t.turnIds
      PROVE  \E r \in d.turns : r.id = t.turnIds[i] /\ r.thread = t.id /\ Get(d.turns, t.turnIds[i]) = r
  <2>1. PICK r \in d.turns : r.id = t.turnIds[i] /\ r.thread = t.id
    BY <1>1 DEF AreListed
  <2> QED BY <1>1, <2>1, GetIs
<1>3. \A i \in DOMAIN t.turnIds : Get(d.turns, t.turnIds[i]) # None /\ Get(d.turns, t.turnIds[i]).thread = t.id
  BY <1>1, <1>2, RowsAreSome
<1>4. ASSUME NEW i \in DOMAIN t.turnIds, NEW j \in DOMAIN t.turnIds, i < j
      PROVE  Get(d.turns, t.turnIds[i]).position < Get(d.turns, t.turnIds[j]).position
  <2>1. PICK r \in d.turns : r.id = t.turnIds[i] /\ Get(d.turns, t.turnIds[i]) = r
    BY <1>2
  <2>2. PICK s \in d.turns : s.id = t.turnIds[j] /\ Get(d.turns, t.turnIds[j]) = s
    BY <1>2
  <2> QED BY <1>1, <1>4, <2>1, <2>2 DEF InOrder
<1>5. ASSUME NEW r \in TurnsOf(d, t.id) PROVE \E i \in DOMAIN t.turnIds : t.turnIds[i] = r.id
  BY <1>1 DEF TurnsOf, HaveThreads, Distinct
<1> QED BY <1>3, <1>4, <1>5

LEMMA CapsulesHold == ASSUME NoneIsNull, NEW d, NEW n, Stores(d, n) PROVE CapsuleIntegrity(d)
<1>1. /\ \A t \in d.threads : t \in ThreadRow
      /\ \A r \in d.turns : r \in TurnRow
      /\ Distinct(d.threads) /\ Distinct(d.turns) /\ HaveThreads(d)
      /\ \A c \in d.capsules : CapsuleOf(d, n, c)
  BY StoresAreTyped DEF Stores, Rows
<1> SUFFICES ASSUME NEW c \in d.capsules, NEW cited, cited = {c.first, c.last} \cup c.provenance
             PROVE  IF Get(d.threads, c.thread) = None
                    THEN \A id \in cited : Get(d.turns, id) = None
                    ELSE /\ \A id \in cited : Get(d.turns, id) # None /\ Get(d.turns, id).thread = c.thread
                         /\ \A id \in cited : Get(d.turns, id).position \in
                               Get(d.turns, c.first).position .. Get(d.turns, c.last).position
  BY DEF CapsuleIntegrity
<1>2. \A r \in d.turns : r.id \in cited => r.thread = c.thread
  BY <1>1 DEF CapsuleOf
<1>3. CASE Get(d.threads, c.thread) = None
  <2>1. \A t \in d.threads : t.id # c.thread
    BY <1>1, <1>3, GetIs, RowsAreSome
  <2>2. \A r \in d.turns : r.id \notin cited
    BY <1>1, <1>2, <2>1 DEF HaveThreads
  <2> QED BY <1>3, <2>2, GetNone
<1>4. CASE Get(d.threads, c.thread) # None
  <2>1. c.thread \in Ids(d.threads)
    BY <1>4, GetSome DEF Ids
  <2>2. cited \subseteq Ids(d.turns) /\ c.first \in cited /\ c.last \in cited
    BY <1>1, <2>1 DEF CapsuleOf
  <2>3. ASSUME NEW id \in cited
        PROVE  \E r \in d.turns : r.id = id /\ Get(d.turns, id) = r /\ r.thread = c.thread /\ r.position \in Nat
    <3>1. PICK r \in d.turns : r.id = id
      BY <2>2 DEF Ids
    <3> QED BY <1>1, <1>2, <3>1, GetIs DEF TurnRow
  <2>4. \A id \in cited : Get(d.turns, id) # None /\ Get(d.turns, id).thread = c.thread
    BY <1>1, <2>3, RowsAreSome
  <2>5. ASSUME NEW id \in cited
        PROVE  Get(d.turns, id).position \in Get(d.turns, c.first).position .. Get(d.turns, c.last).position
    <3>1. PICK r \in d.turns : r.id = id /\ Get(d.turns, id) = r /\ r.position \in Nat
      BY <2>3
    <3>2. PICK f \in d.turns : f.id = c.first /\ Get(d.turns, c.first) = f /\ f.position \in Nat
      BY <2>2, <2>3
    <3>3. PICK l \in d.turns : l.id = c.last /\ Get(d.turns, c.last) = l /\ l.position \in Nat
      BY <2>2, <2>3
    <3>4. f.position <= r.position /\ r.position <= l.position
      BY <1>1, <2>1, <3>1, <3>2, <3>3 DEF CapsuleOf
    <3> QED BY <3>1, <3>2, <3>3, <3>4
  <2> QED BY <1>4, <2>4, <2>5
<1> QED BY <1>3, <1>4

LEMMA GroundsHold == ASSUME NoneIsNull, ConvInd PROVE CapsulesGrounded
<1>1. Stores(db, drawn)
  BY DEF ConvInd
<1>2. /\ \A r \in db.turns : r \in TurnRow
      /\ Distinct(db.threads) /\ Distinct(db.turns)
      /\ \A c \in db.capsules : CapsuleOf(db, drawn, c)
  BY <1>1, StoresAreTyped DEF Stores, Rows
<1> SUFFICES ASSUME NEW c \in db.capsules, Get(db.threads, c.thread) # None,
                    NEW rows, rows = TurnsOf(db, c.thread)
             PROVE  /\ \A r \in rows : r.id \in c.provenance => r.role = "user" /\ r.state = "accepted"
                    /\ WithinRange(rows, c.first, c.last, c.provenance)
  BY DEF CapsulesGrounded
<1> DEFINE cited == {c.first, c.last} \cup c.provenance
<1>3. c.thread \in Ids(db.threads) /\ rows \subseteq db.turns
  BY GetSome DEF Ids, TurnsOf
<1>4. \A r \in rows : r.id \in c.provenance => r.role = "user" /\ r.state = "accepted"
  BY <1>2, <1>3 DEF CapsuleOf, Sound, Accepted
<1>5. ASSUME NEW id \in cited PROVE \E r \in rows : r.id = id /\ Get(rows, id) = r /\ r.position \in Nat
  <2>1. PICK r \in db.turns : r.id = id /\ r.thread = c.thread
    BY <1>2, <1>3 DEF CapsuleOf, Ids
  <2>2. r \in rows /\ Distinct(rows)
    BY <1>2, <2>1 DEF TurnsOf, Distinct
  <2> QED BY <1>2, <2>1, <2>2, GetIs DEF TurnRow
<1>6. cited \subseteq Ids(rows)
  BY <1>5 DEF Ids
<1>7. ASSUME NEW id \in cited
      PROVE  Get(rows, id).position \in Get(rows, c.first).position .. Get(rows, c.last).position
  <2>1. PICK r \in rows : r.id = id /\ Get(rows, id) = r /\ r.position \in Nat
    BY <1>5
  <2>2. PICK f \in rows : f.id = c.first /\ Get(rows, c.first) = f /\ f.position \in Nat
    BY <1>5
  <2>3. PICK l \in rows : l.id = c.last /\ Get(rows, c.last) = l /\ l.position \in Nat
    BY <1>5
  <2>4. f.position <= r.position /\ r.position <= l.position
    BY <1>2, <1>3, <2>1, <2>2, <2>3 DEF CapsuleOf
  <2> QED BY <2>1, <2>2, <2>3, <2>4
<1> QED BY <1>4, <1>6, <1>7 DEF WithinRange

LEMMA RepliesHold == ASSUME NoneIsNull, ConvInd PROVE OneReplyEach
<1>1. Replies(db, drawn)
  BY DEF ConvInd, Stores
<1> SUFFICES ASSUME NEW r \in db.turns, r.role = "user"
             PROVE  Cardinality({s \in db.turns : s.to = r.id}) = IF r.state = "accepted" THEN 1 ELSE 0
  BY DEF OneReplyEach
<1> DEFINE S == {s \in db.turns : s.to = r.id}
<1>2. CASE r.state = "accepted"
  <2>1. PICK s \in db.turns : \A q \in db.turns : q.to = r.id <=> q = s
    BY <1>1, <1>2 DEF Replies
  <2>2. S = {s}
    BY <2>1
  <2> HIDE DEF S
  <2>3. Cardinality(S) = 1
    BY <2>2, FS_Singleton
  <2> QED BY <1>2, <2>3 DEF S
<1>3. CASE r.state # "accepted"
  <2>1. S = {}
    BY <1>1, <1>3 DEF Replies
  <2> HIDE DEF S
  <2>3. Cardinality(S) = 0
    BY <2>1, FS_EmptySet
  <2> QED BY <1>3, <2>3 DEF S
<1> QED BY <1>2, <1>3

LEMMA ViewsHold == ASSUME NoneIsNull, ConvInd PROVE ShownIsStored
<1>1. Stores(db, drawn) /\ Distinct(db.threads)
  BY StoresAreTyped DEF ConvInd
<1> SUFFICES ASSUME NEW p \in Page, \A k \in Slot : k[1] = p => call[k] = None
             PROVE  IF view[p].thread = None THEN view[p].turns = {}
                    ELSE /\ view[p].thread \in Ids(ActiveThreads(db))
                         /\ view[p].turns = TurnsOf(db, view[p].thread)
                         /\ view[p].conclusion = Get(db.threads, view[p].thread).conclusion
                         /\ view[p].capsules = Ids(db.capsules)
  BY DEF ShownIsStored
<1>2. call[Ui(p)] = None
  <2>1. Ui(p) \in Slot /\ Ui(p)[1] = p
    BY DEF Ui, Slot
  <2> QED BY <2>1
<1>3. PICK v : v = view[p]
  OBVIOUS
<1>4. Shows(db, drawn, v) /\ v.turns = TurnsOf(db, v.thread)
  BY <1>2, <1>3 DEF ConvInd, PageInv, ShowsTurns, Other
<1>5. CASE v.thread = None
  BY <1>1, <1>3, <1>4, <1>5, NoThread
<1>6. CASE v.thread # None
  <2>1. PICK t \in db.threads : t.id = v.thread /\ t.state = "active" /\ v.conclusion = t.conclusion
    BY <1>4, <1>6 DEF Shows
  <2>2. Get(db.threads, v.thread) = t
    BY <1>1, <2>1, GetIs
  <2>3. v.thread \in Ids(ActiveThreads(db))
    BY <2>1 DEF Ids, ActiveThreads
  <2> QED BY <1>3, <1>4, <1>6, <2>1, <2>2, <2>3 DEF Shows
<1> QED BY <1>3, <1>5, <1>6

(* What is stored always passes the integrity check of an export, and a    *)
(* capsule cites only accepted turns of its range, whatever was called,    *)
(* failed, reloaded or deleted (parseSpecularExport, export.ts).           *)
THEOREM StoresStayExportable == NoneIsNull /\ OnePage /\ Spec => []ConversationInv
<1> SUFFICES ASSUME NoneIsNull, OnePage PROVE Spec => []ConversationInv
  OBVIOUS
<1>1. ConvInd => ConversationInv
  BY TypesHold, TurnsHold, ThreadsHold, CapsulesHold, GroundsHold
  DEF ConversationInv, AlwaysExportable, Exportable, ConvInd
<1> QED BY <1>1, ConversationInvariant, PTL

(* A user turn is accepted exactly when one reply to it is stored, over    *)
(* retries, reloads and voice exchanges in between (acceptExchange,        *)
(* failUserTurn).                                                          *)
THEOREM TurnsAreAnsweredOnce == NoneIsNull /\ OnePage /\ Spec => []OneReplyEach
<1> SUFFICES ASSUME NoneIsNull, OnePage PROVE Spec => []OneReplyEach
  OBVIOUS
<1>1. ConvInd => OneReplyEach
  BY RepliesHold
<1> QED BY <1>1, ConversationInvariant, PTL

(* A page without a call in flight shows its thread as it is stored (the   *)
(* setView of every operation of use-specular.ts).                         *)
THEOREM PagesShowWhatIsStored == NoneIsNull /\ OnePage /\ Spec => []ShownIsStored
<1> SUFFICES ASSUME NoneIsNull, OnePage PROVE Spec => []ShownIsStored
  OBVIOUS
<1>1. ConvInd => ShownIsStored
  BY ViewsHold
<1> QED BY <1>1, ConversationInvariant, PTL

-----------------------------------------------------------------------------
(* A step spares the finished threads: each stays as it is, with its       *)
(* turns, or goes with them.                                               *)
Spares(d, e) == \A t \in d.threads : t.state = "completed" =>
    \/ Get(e.threads, t.id) = None /\ TurnsOf(e, t.id) = {}
    \/ t \in e.threads /\ TurnsOf(e, t.id) = TurnsOf(d, t.id)

LEMMA SameSpared ==
    ASSUME NEW d, NEW e, e.threads = d.threads, e.turns = d.turns PROVE Spares(d, e)
BY DEF Spares, TurnsOf

LEMMA RefusedSpares == ASSUME NEW k, Refused(k) PROVE Spares(db, db')
BY SameSpared DEF Refused

LEMMA ActiveSpared ==
    ASSUME NEW d, NEW n, Stores(d, n), NEW t \in d.threads, t.state = "active",
           NEW e, Only(d, e, t.id)
    PROVE  Spares(d, e)
<1>1. Distinct(d.threads)
  BY StoresAreTyped
<1>2. \A u \in d.threads : u.state = "completed" => u.id # t.id
  BY <1>1 DEF Distinct
<1> QED BY <1>2 DEF Spares, Only

LEMMA ThreadWritten ==
    ASSUME NEW d, NEW n, Stores(d, n), NEW t \in d.threads, t.state = "active",
           NEW row, row.id = t.id, NEW e, e = PutThread(d, row)
    PROVE  Spares(d, e)
<1>1. d \in [threads : SUBSET ThreadRow, turns : SUBSET TurnRow, capsules : SUBSET CapsuleRow]
  BY StoresAreTyped
<1>2. e.threads = Put(d.threads, row) /\ e.turns = d.turns
  BY <1>1 DEF PutThread
<1>3. Only(d, e, t.id)
  BY <1>2, PutIs DEF Only, TurnsOf
<1> QED BY <1>3, ActiveSpared

LEMMA FreshSpared ==
    ASSUME NEW d, NEW n, Stores(d, n), NEW G, NEW e, e = PutThread(d, NewThread(n.thread + 1, G))
    PROVE  Spares(d, e)
<1>1. /\ d \in [threads : SUBSET ThreadRow, turns : SUBSET TurnRow, capsules : SUBSET CapsuleRow]
      /\ n \in [thread : Nat, turn : Nat, capsule : Nat]
      /\ \A t \in d.threads : t.id \in 1 .. n.thread
  BY StoresAreTyped
<1>2. PICK f : f = NewThread(n.thread + 1, G)
  OBVIOUS
<1>3. e.threads = Put(d.threads, f) /\ e.turns = d.turns /\ f.id = n.thread + 1
  BY <1>1, <1>2 DEF PutThread, NewThread
<1>4. \A t \in d.threads : t \in e.threads
  BY <1>1, <1>3, PutIs
<1> QED BY <1>3, <1>4 DEF Spares, TurnsOf

LEMMA TurnWritten ==
    ASSUME NEW d, NEW n, Stores(d, n), NEW t \in d.threads, t.state = "active",
           NEW row, row.id = t.id,
           NEW x, x.thread = t.id, \A r \in d.turns : r.id = x.id => r.thread = t.id,
           NEW e, e = PersistPendingTurn(d, row, x)
    PROVE  Spares(d, e)
<1>1. d \in [threads : SUBSET ThreadRow, turns : SUBSET TurnRow, capsules : SUBSET CapsuleRow]
  BY StoresAreTyped
<1>2. e.threads = Put(d.threads, row) /\ e.turns = Put(d.turns, x)
  BY <1>1 DEF PersistPendingTurn
<1>3. \A a : a # t.id => TurnsOf(e, a) = TurnsOf(d, a)
  BY <1>2, PutIs DEF TurnsOf
<1>4. \A r : r.id # t.id => (r \in e.threads <=> r \in d.threads)
  BY <1>2, PutIs
<1> QED BY <1>3, <1>4, ActiveSpared DEF Only

LEMMA ExchangeWritten ==
    ASSUME NEW d, NEW n, Stores(d, n), NEW t \in d.threads, t.state = "active",
           NEW row, row.id = t.id,
           NEW x, x.thread = t.id, \A r \in d.turns : r.id = x.id => r.thread = t.id,
           NEW y, y.thread = t.id, \A r \in d.turns : r.id # y.id,
           NEW e, e = AcceptExchange(d, row, x, y)
    PROVE  Spares(d, e)
<1>1. d \in [threads : SUBSET ThreadRow, turns : SUBSET TurnRow, capsules : SUBSET CapsuleRow]
  BY StoresAreTyped
<1>2. e.threads = Put(d.threads, row) /\ e.turns = Put(Put(d.turns, x), y)
  BY <1>1 DEF AcceptExchange
<1>3. \A r : r \in e.turns <=> r = y \/ ((r = x \/ (r \in d.turns /\ r.id # x.id)) /\ r.id # y.id)
  BY <1>2, PutIs
<1>4. \A a : a # t.id => TurnsOf(e, a) = TurnsOf(d, a)
  BY <1>3 DEF TurnsOf
<1>5. \A r : r.id # t.id => (r \in e.threads <=> r \in d.threads)
  BY <1>2, PutIs
<1> QED BY <1>4, <1>5, ActiveSpared DEF Only

(* The snapshot a call writes by is of an active thread.                   *)
LEMMA SnapshotActive ==
    ASSUME OnePage, ConvInd, NEW k \in Slot, NEW pcs, At(k, pcs), ~OfCapsule(call[k]),
           call[k].pc \in {"pending", "write", "accept"}
    PROVE  /\ call[k].snap \in db.threads /\ call[k].snap \in ThreadRow
           /\ call[k].snap.id = call[k].thread /\ call[k].snap.state = "active"
           /\ Stores(db, drawn) /\ drawn.turn \in Nat /\ drawn.thread \in Nat
           /\ \A r \in db.turns : r.id \in 1 .. drawn.turn
           /\ Distinct(db.turns)
<1>1. Snapshot(db, call[k]) /\ Stores(db, drawn)
  BY CallKnown
<1>2. call[k].snap \in db.threads /\ call[k].snap.id = call[k].thread /\ call[k].snap.state = "active"
  BY <1>1 DEF Snapshot
<1> QED BY <1>1, <1>2, StoresAreTyped

LEMMA StartThreadSpares ==
    ASSUME ConvInd, NEW k \in Slot, StartThread(k) PROVE Spares(db, db')
<1>1. Stores(db, drawn)
  BY DEF ConvInd
<1>2. CASE Refused(k)
  BY <1>2, RefusedSpares
<1>3. CASE db' = PutThread(db, NewThread(drawn.thread + 1, None))
  BY <1>1, <1>3, FreshSpared
<1> QED BY <1>2, <1>3 DEF StartThread, Commit, Id

LEMMA StartFromCapsuleSpares ==
    ASSUME ConvInd, NEW k \in Slot, StartFromCapsule(k) PROVE Spares(db, db')
<1>1. Stores(db, drawn)
  BY DEF ConvInd
<1>2. CASE Refused(k)
  BY <1>2, RefusedSpares
<1>3. CASE db' = PutThread(db, NewThread(drawn.thread + 1, call[k].snap.provenance))
  BY <1>1, <1>3, FreshSpared
<1> QED BY <1>2, <1>3 DEF StartFromCapsule, Commit, Id

LEMMA PersistUserTurnSpares ==
    ASSUME OnePage, ConvInd, NEW k \in Slot, PersistUserTurn(k) PROVE Spares(db, db')
<1> DEFINE c == call[k]
           Turn == IF c.op = "submit"
                   THEN UserTurn(Id("turn", 1), c.thread, NextPosition(c.listed), "pending")
                   ELSE [c.turn EXCEPT !.state = "pending"]
           Row == [c.snap EXCEPT !.turnIds = AppendTurnId(@, Turn.id)]
<1>2. CASE Refused(k)
  BY <1>2, RefusedSpares
<1>3. CASE db' = PersistPendingTurn(db, Row, Turn)
  <2>1. \/ At(k, {"write"}) /\ c # None /\ c.op = "submit" /\ c.pc = "write"
        \/ At(k, {"pending"}) /\ c # None /\ c.pc = "pending"
    BY DEF PersistUserTurn, At
  <2>2. PICK pcs : At(k, pcs)
    BY <2>1
  <2>3. ~OfCapsule(c) /\ c.pc \in {"pending", "write"}
    <3>1. CASE At(k, {"pending"}) /\ c.pc = "pending"
      BY <3>1, CallKnown DEF OfCapsule, Stage, Ops, Waiting
    <3>2. CASE c.op = "submit" /\ c.pc = "write"
      BY <3>2 DEF OfCapsule
    <3> QED BY <2>1, <3>1, <3>2
  <2>4. /\ c.snap \in db.threads /\ c.snap \in ThreadRow /\ c.snap.id = c.thread /\ c.snap.state = "active"
        /\ Stores(db, drawn) /\ drawn.turn \in Nat
        /\ \A r \in db.turns : r.id \in 1 .. drawn.turn
        /\ Distinct(db.turns)
    BY <2>2, <2>3, SnapshotActive
  <2>5. PICK x : x = Turn
    OBVIOUS
  <2>6. x.thread = c.thread /\ \A r \in db.turns : r.id = x.id => r.thread = c.thread
    <3>1. CASE c.op = "submit"
      <4>1. x.id = drawn.turn + 1 /\ x.thread = c.thread
        BY <2>5, <3>1 DEF UserTurn, Id
      <4> QED BY <2>4, <4>1
    <3>2. CASE c.op # "submit"
      <4>1. c.op = "retry" /\ c.pc = "pending"
        BY <2>1, <3>2, CallKnown DEF Stage, Ops, Waiting
      <4>2. c.turn \in db.turns /\ c.turn.thread = c.thread
        BY <2>2, <4>1, CallKnown DEF Holds, HasTurn
      <4>3. c.turn \in TurnRow
        BY <2>4, <4>2, StoresAreTyped
      <4>4. x.thread = c.turn.thread /\ x.id = c.turn.id
        BY <2>5, <3>2, <4>3 DEF TurnRow
      <4> QED BY <2>4, <4>2, <4>4 DEF Distinct
    <3> QED BY <3>1, <3>2
  <2>7. PICK row : row = [c.snap EXCEPT !.turnIds = AppendTurnId(@, x.id)]
    OBVIOUS
  <2>8. row.id = c.snap.id
    BY <2>4, <2>7 DEF ThreadRow
  <2>9. db' = PersistPendingTurn(db, row, x)
    BY <1>3, <2>5, <2>7
  <2> HIDE DEF Turn, Row
  <2> QED BY <2>4, <2>6, <2>8, <2>9, TurnWritten
<1> QED BY <1>2, <1>3 DEF PersistUserTurn, Commit

LEMMA AcceptReplySpares ==
    ASSUME OnePage, ConvInd, NEW k \in Slot, AcceptReply(k) PROVE Spares(db, db')
<1> DEFINE c == call[k]
           User == [c.turn EXCEPT !.state = "accepted"]
           Reply == SpecularTurn(Id("turn", 1), c.thread, NextPosition(c.listed), User.id)
           Row == [c.snap EXCEPT !.turnIds = AppendTurnId(AppendTurnId(@, User.id), Reply.id)]
<1>1. At(k, {"accept"}) /\ c # None /\ c.pc = "accept" /\ c.op \in {"submit", "retry"}
  BY DEF AcceptReply, At
<1>2. CASE Refused(k)
  BY <1>2, RefusedSpares
<1>3. CASE db' = AcceptExchange(db, Row, User, Reply)
  <2>1. /\ c.snap \in db.threads /\ c.snap \in ThreadRow /\ c.snap.id = c.thread /\ c.snap.state = "active"
        /\ Stores(db, drawn) /\ drawn.turn \in Nat
        /\ \A r \in db.turns : r.id \in 1 .. drawn.turn
        /\ Distinct(db.turns)
    BY <1>1, SnapshotActive DEF OfCapsule
  <2>2. c.turn \in db.turns /\ c.turn.thread = c.thread
    BY <1>1, CallKnown DEF Holds, HasTurn, Waiting
  <2>3. c.turn \in TurnRow
    BY <2>1, <2>2, StoresAreTyped
  <2>4. PICK x : x = User
    OBVIOUS
  <2>5. PICK y : y = SpecularTurn(Id("turn", 1), c.thread, NextPosition(c.listed), x.id)
    OBVIOUS
  <2>6. PICK row : row = [c.snap EXCEPT !.turnIds = AppendTurnId(AppendTurnId(@, x.id), y.id)]
    OBVIOUS
  <2>7. x.thread = c.thread /\ x.id = c.turn.id
    BY <2>2, <2>3, <2>4 DEF TurnRow
  <2>8. \A r \in db.turns : r.id = x.id => r.thread = c.thread
    BY <2>1, <2>2, <2>7 DEF Distinct
  <2>9. y.thread = c.thread /\ \A r \in db.turns : r.id # y.id
    BY <2>1, <2>5 DEF SpecularTurn, Id
  <2>10. row.id = c.snap.id
    BY <2>1, <2>6 DEF ThreadRow
  <2>11. db' = AcceptExchange(db, row, x, y)
    BY <1>3, <2>4, <2>5, <2>6
  <2> HIDE DEF User, Reply, Row
  <2> QED BY <2>1, <2>7, <2>8, <2>9, <2>10, <2>11, ExchangeWritten
<1> QED BY <1>2, <1>3 DEF AcceptReply, Commit

LEMMA AcceptVoiceSpares ==
    ASSUME OnePage, ConvInd, NEW k \in Slot, AcceptVoice(k) PROVE Spares(db, db')
<1> DEFINE c == call[k]
           User == UserTurn(Id("turn", 1), c.thread, NextPosition(c.listed), "accepted")
           Reply == SpecularTurn(Id("turn", 2), c.thread, User.position + 1, User.id)
           Row == [c.snap EXCEPT !.turnIds = AppendTurnId(AppendTurnId(@, User.id), Reply.id)]
<1>1. At(k, {"accept"}) /\ c # None /\ c.pc = "accept" /\ c.op = "voice"
  BY DEF AcceptVoice, At
<1>2. CASE Refused(k)
  BY <1>2, RefusedSpares
<1>3. CASE db' = AcceptExchange(db, Row, User, Reply)
  <2>1. /\ c.snap \in db.threads /\ c.snap \in ThreadRow /\ c.snap.id = c.thread /\ c.snap.state = "active"
        /\ Stores(db, drawn) /\ drawn.turn \in Nat
        /\ \A r \in db.turns : r.id \in 1 .. drawn.turn
    BY <1>1, SnapshotActive DEF OfCapsule
  <2>4. PICK x : x = User
    OBVIOUS
  <2>5. PICK y : y = SpecularTurn(Id("turn", 2), c.thread, x.position + 1, x.id)
    OBVIOUS
  <2>6. PICK row : row = [c.snap EXCEPT !.turnIds = AppendTurnId(AppendTurnId(@, x.id), y.id)]
    OBVIOUS
  <2>7. x.thread = c.thread /\ \A r \in db.turns : r.id # x.id
    BY <2>1, <2>4 DEF UserTurn, Id
  <2>9. y.thread = c.thread /\ \A r \in db.turns : r.id # y.id
    BY <2>1, <2>5 DEF SpecularTurn, Id
  <2>10. row.id = c.snap.id
    BY <2>1, <2>6 DEF ThreadRow
  <2>11. db' = AcceptExchange(db, row, x, y)
    BY <1>3, <2>4, <2>5, <2>6
  <2> HIDE DEF User, Reply, Row
  <2> QED BY <2>1, <2>7, <2>9, <2>10, <2>11, ExchangeWritten
<1> QED BY <1>2, <1>3 DEF AcceptVoice, Commit

LEMMA AcceptSpecularSpares ==
    ASSUME OnePage, ConvInd, NEW k \in Slot, AcceptSpecular(k) PROVE Spares(db, db')
<1> DEFINE c == call[k]
           Reply == SpecularTurn(Id("turn", 1), c.thread, NextPosition(c.listed), None)
           Row == [c.snap EXCEPT !.turnIds = AppendTurnId(@, Reply.id),
                                 !.conclusion = IF c.arg # None THEN c.arg ELSE @]
<1>1. At(k, {"accept"}) /\ c # None /\ c.pc = "accept" /\ c.op \in {"challenge", "conclude", "test"}
  BY DEF AcceptSpecular, At
<1>2. CASE Refused(k)
  BY <1>2, RefusedSpares
<1>3. CASE db' = PersistSpecularTurn(db, Row, Reply)
  <2>1. /\ c.snap \in db.threads /\ c.snap \in ThreadRow /\ c.snap.id = c.thread /\ c.snap.state = "active"
        /\ Stores(db, drawn) /\ drawn.turn \in Nat
        /\ \A r \in db.turns : r.id \in 1 .. drawn.turn
    BY <1>1, SnapshotActive DEF OfCapsule
  <2>5. PICK y : y = Reply
    OBVIOUS
  <2>6. PICK o : o = [c.snap EXCEPT !.turnIds = AppendTurnId(@, y.id)]
    OBVIOUS
  <2>7. PICK row : row = [o EXCEPT !.conclusion = IF c.arg # None THEN c.arg ELSE c.snap.conclusion]
    OBVIOUS
  <2>8. row = Row
    BY <2>5, <2>6, <2>7
  <2>9. y.thread = c.thread /\ \A r \in db.turns : r.id # y.id
    BY <2>1, <2>5 DEF SpecularTurn, Id
  <2>10. row.id = c.snap.id
    <3>1. o = [x \in DOMAIN o |-> o[x]] /\ "id" \in DOMAIN o /\ o.id = c.snap.id
      BY <2>1, <2>6 DEF ThreadRow
    <3> HIDE <2>6
    <3> QED BY <2>7, <3>1
  <2>11. db' = PersistPendingTurn(db, row, y)
    BY <1>3, <2>5, <2>8 DEF PersistSpecularTurn, PersistPendingTurn
  <2> HIDE DEF Reply, Row
  <2> QED BY <2>1, <2>9, <2>10, <2>11, TurnWritten
<1> QED BY <1>2, <1>3 DEF AcceptSpecular, Commit

LEMMA FailUserTurnSpares ==
    ASSUME OnePage, ConvInd, NEW k \in Slot, FailUserTurn(k) PROVE Spares(db, db')
<1> DEFINE c == call[k]  v == view[k[1]]
<1>1. At(k, {"fail"}) /\ c # None /\ c.pc = "fail"
  BY DEF FailUserTurn, At
<1>2. CASE db' = db
  BY <1>2, SameSpared
<1>3. CASE db' = PutTurn(db, [c.turn EXCEPT !.state = "failed"])
  <2>1. /\ Stores(db, drawn) /\ Holds(db, c) /\ Here(db, c, v) /\ Shows(db, drawn, v)
        /\ c.op \in {"submit", "retry"}
    BY <1>1, UiKnown DEF Stage, Ops, Waiting
  <2>2. c.turn \in db.turns /\ c.turn.thread = c.thread
    BY <1>1, <2>1 DEF Holds, HasTurn
  <2>3. c.turn \in TurnRow /\ Distinct(db.turns)
        /\ db \in [threads : SUBSET ThreadRow, turns : SUBSET TurnRow, capsules : SUBSET CapsuleRow]
    BY <2>1, <2>2, StoresAreTyped
  <2>4. c.thread = v.thread /\ c.thread # None
    BY <1>1, <2>1 DEF Here, OfCapsule
  <2>5. PICK t \in db.threads : t.id = c.thread /\ t.state = "active"
    BY <2>1, <2>4 DEF Shows
  <2>6. PICK x : x = [c.turn EXCEPT !.state = "failed"]
    OBVIOUS
  <2>7. x.id = c.turn.id /\ x.thread = c.thread
    BY <2>2, <2>3, <2>6 DEF TurnRow
  <2>8. db'.threads = db.threads /\ db'.turns = Put(db.turns, x)
    BY <1>3, <2>3, <2>6 DEF PutTurn
  <2>9. \A r \in db.turns : r.id = x.id => r.thread = c.thread
    BY <2>2, <2>3, <2>7 DEF Distinct
  <2>10. Only(db, db', t.id)
    <3>1. \A r : r \in db'.turns <=> r = x \/ (r \in db.turns /\ r.id # x.id)
      BY <2>8, PutIs
    <3>2. \A a : a # t.id => TurnsOf(db', a) = TurnsOf(db, a)
      BY <2>5, <2>7, <2>9, <3>1 DEF TurnsOf
    <3> QED BY <2>8, <3>2 DEF Only
  <2> QED BY <2>1, <2>5, <2>10, ActiveSpared
<1> QED BY <1>2, <1>3 DEF FailUserTurn

LEMMA KeepConclusionSpares ==
    ASSUME OnePage, ConvInd, NEW k \in Slot, KeepConclusion(k) PROVE Spares(db, db')
<1> DEFINE c == call[k]
<1>1. At(k, {"write"}) /\ c # None /\ c.pc = "write" /\ c.op = "keep"
  BY DEF KeepConclusion, At
<1>2. CASE Refused(k)
  BY <1>2, RefusedSpares
<1>3. CASE db' = PutThread(db, [c.snap EXCEPT !.conclusion = c.arg])
  <2>1. /\ c.snap \in db.threads /\ c.snap \in ThreadRow /\ c.snap.state = "active"
        /\ Stores(db, drawn)
    BY <1>1, SnapshotActive DEF OfCapsule
  <2>2. PICK row : row = [c.snap EXCEPT !.conclusion = c.arg]
    OBVIOUS
  <2>3. row.id = c.snap.id
    BY <2>1, <2>2 DEF ThreadRow
  <2>4. db' = PutThread(db, row)
    BY <1>3, <2>2
  <2> QED BY <2>1, <2>3, <2>4, ThreadWritten
<1> QED BY <1>2, <1>3 DEF KeepConclusion, Commit

LEMMA CapsulesSpared ==
    ASSUME ConvInd, NEW C, db' = [db EXCEPT !.capsules = C] PROVE Spares(db, db')
<1>1. db \in [threads : SUBSET ThreadRow, turns : SUBSET TurnRow, capsules : SUBSET CapsuleRow]
  BY StoresAreTyped DEF ConvInd
<1>2. db'.threads = db.threads /\ db'.turns = db.turns
  BY <1>1
<1> QED BY <1>2, SameSpared

LEMMA SaveAndFinishSpares ==
    ASSUME OnePage, ConvInd, NEW k \in Slot, SaveAndFinish(k) PROVE Spares(db, db')
<1> DEFINE c == call[k]
           Row == [c.snap EXCEPT !.state = "completed", !.conclusion = c.arg]
           Fresh == NewThread(Id("thread", 1), None)
<1>1. At(k, {"write"}) /\ c # None /\ c.pc = "write" /\ c.op = "finish"
  BY DEF SaveAndFinish, At
<1>2. CASE Refused(k)
  BY <1>2, RefusedSpares
<1>3. CASE db' = FinishAndStart(db, Row, Fresh, BuildCapsule(c))
  <2>1. /\ c.snap \in db.threads /\ c.snap \in ThreadRow /\ c.snap.state = "active"
        /\ Stores(db, drawn) /\ drawn.thread \in Nat
    BY <1>1, SnapshotActive DEF OfCapsule
  <2>2. /\ db \in [threads : SUBSET ThreadRow, turns : SUBSET TurnRow, capsules : SUBSET CapsuleRow]
        /\ \A t \in db.threads : t.id \in 1 .. drawn.thread
        /\ Distinct(db.threads)
    BY <2>1, StoresAreTyped
  <2>3. PICK o : o = [c.snap EXCEPT !.state = "completed"]
    OBVIOUS
  <2>4. PICK row : row = [o EXCEPT !.conclusion = c.arg]
    OBVIOUS
  <2>5. PICK f : f = Fresh
    OBVIOUS
  <2>6. row = Row
    BY <2>3, <2>4
  <2>7. row.id = c.snap.id
    <3>1. o = [x \in DOMAIN o |-> o[x]] /\ "id" \in DOMAIN o /\ o.id = c.snap.id
      BY <2>1, <2>3 DEF ThreadRow
    <3> HIDE <2>3
    <3> QED BY <2>4, <3>1
  <2>8. f.id = drawn.thread + 1
    BY <2>5 DEF NewThread, Id
  <2>9. db' = FinishAndStart(db, row, f, BuildCapsule(c))
    BY <1>3, <2>5, <2>6
  <2> HIDE DEF Row, Fresh
  <2>10. db'.threads = Put(Put(db.threads, row), f) /\ db'.turns = db.turns
    <3> HIDE <2>3, <2>4, <2>5, <2>6
    <3> QED BY <2>2, <2>9 DEF FinishAndStart
  <2>11. \A r : r \in db'.threads <=> r = f \/ ((r = row \/ (r \in db.threads /\ r.id # row.id)) /\ r.id # f.id)
    BY <2>10, PutIs
  <2>12. ASSUME NEW t \in db.threads, t.state = "completed" PROVE t \in db'.threads
    <3>1. t.id # row.id
      BY <2>1, <2>2, <2>7, <2>12 DEF Distinct
    <3>2. t.id # f.id
      BY <2>1, <2>2, <2>8
    <3> QED BY <2>11, <3>1, <3>2
  <2> QED BY <2>10, <2>12 DEF Spares, TurnsOf
<1> QED BY <1>2, <1>3 DEF SaveAndFinish, Commit

LEMMA DeleteCurrentThreadSpares ==
    ASSUME NoneIsNull, OnePage, ConvInd, NEW p \in Page, DeleteCurrentThread(p) PROVE Spares(db, db')
<1>1. Shows(db, drawn, view[p]) /\ Stores(db, drawn)
  BY DEF ConvInd, PageInv
<1>2. PICK t \in db.threads : t.id = view[p].thread /\ t.state = "active"
  BY <1>1 DEF DeleteCurrentThread, Shows
<1>3. db' = DeleteThread(db, t.id)
  BY <1>2 DEF DeleteCurrentThread
<1>4. Only(db, db', t.id)
  BY <1>1, <1>3, ThreadDeleted
<1> QED BY <1>1, <1>2, <1>4, ActiveSpared

LEMMA DeleteAllSpares == ASSUME NEW p \in Page, DeleteAll(p) PROVE Spares(db, db')
BY GetNone DEF DeleteAll, DeleteOwnerRows, EmptyDb, Spares, TurnsOf

LEMMA CapsuleStepsSpare ==
    ASSUME ConvInd, NEW k \in Slot, StoreCapsule(k) \/ UpdateCapsule(k) PROVE Spares(db, db')
<1>1. CASE Refused(k)
  BY <1>1, RefusedSpares
<1>2. CASE \E x : db' = PutCapsule(db, x)
  <2>1. PICK x : db' = PutCapsule(db, x)
    BY <1>2
  <2> QED BY <2>1, CapsulesSpared DEF PutCapsule
<1> QED BY <1>1, <1>2 DEF StoreCapsule, UpdateCapsule, Commit

LEMMA DeleteOneCapsuleSpares ==
    ASSUME ConvInd, NEW p \in Page, DeleteOneCapsule(p) PROVE Spares(db, db')
<1>1. PICK x : db' = DeleteCapsule(db, x)
  BY DEF DeleteOneCapsule
<1> QED BY <1>1, CapsulesSpared DEF DeleteCapsule

LEMMA ReadsSpare ==
    ASSUME NEW k \in Slot,
           \/ ReadTurn(k) \/ ReadRange(k) \/ RequireActiveThread(k) \/ ListTurns(k) \/ BuildContext(k)
           \/ Answer(k) \/ RefreshTurns(k) \/ ReadCapsule(k) \/ CheckSource(k)
    PROVE  Spares(db, db')
<1>1. db' = db
  BY DEF ReadTurn, ReadRange, RequireActiveThread, ListTurns, BuildContext, Answer, RefreshTurns,
         ReadCapsule, CheckSource, Refused
<1> QED BY <1>1, SameSpared

LEMMA ProgressSpares ==
    ASSUME NoneIsNull, OnePage, ConvInd, NEW k \in Slot, Progress(k) PROVE Spares(db, db')
BY StartThreadSpares, StartFromCapsuleSpares, PersistUserTurnSpares, AcceptReplySpares, AcceptVoiceSpares,
   AcceptSpecularSpares, FailUserTurnSpares, KeepConclusionSpares, SaveAndFinishSpares, CapsuleStepsSpare,
   ReadsSpare
DEF Progress

LEMMA ControlsSpare ==
    ASSUME NEW p \in Page,
           \/ Submit(p) \/ Retry(p) \/ Challenge(p) \/ DraftConclusion(p)
           \/ KeepDigging(p) \/ SaveCapsule(p) \/ Finish(p)
           \/ (\E op \in {"resume", "test", "update"} : Revisit(p, op))
           \/ Listen(p) \/ Exchange(p) \/ Reload(p)
    PROVE  Spares(db, db')
<1>1. db' = db
  BY DEF Submit, Retry, Challenge, DraftConclusion, KeepDigging, SaveCapsule, Finish, Revisit,
         Listen, Exchange, Reload, Start
<1> QED BY <1>1, SameSpared

LEMMA StepSpares == ASSUME NoneIsNull, OnePage, ConvInd, [Next]_vars PROVE Spares(db, db')
<1>1. CASE UNCHANGED vars
  BY <1>1, SameSpared DEF vars
<1>2. ASSUME NEW k \in Slot, Progress(k) PROVE Spares(db, db')
  BY <1>2, ProgressSpares
<1>3. ASSUME NEW p \in Page,
             Submit(p) \/ Retry(p) \/ Challenge(p) \/ DraftConclusion(p)
             \/ KeepDigging(p) \/ SaveCapsule(p) \/ Finish(p)
             \/ (\E op \in {"resume", "test", "update"} : Revisit(p, op))
             \/ DeleteCurrentThread(p) \/ DeleteOneCapsule(p) \/ DeleteAll(p)
             \/ Listen(p) \/ Exchange(p) \/ Reload(p)
      PROVE  Spares(db, db')
  BY <1>3, ControlsSpare, DeleteCurrentThreadSpares, DeleteOneCapsuleSpares, DeleteAllSpares
<1> QED BY <1>1, <1>2, <1>3 DEF Next

(* No answer or exchange that was under way when a thread finished reaches *)
(* it: a finished thread stays as it is until it is deleted with its turns *)
(* (requireActiveThread).                                                  *)
THEOREM FinishedThreadsStay == NoneIsNull /\ OnePage /\ Spec => FinishedIsFinal
<1> SUFFICES ASSUME NoneIsNull, OnePage PROVE Spec => FinishedIsFinal
  OBVIOUS
<1>1. ConvInd /\ [Next]_vars => [\A t \in db.threads : t.state = "completed" =>
         \/ Get(db'.threads, t.id) = None /\ TurnsOf(db', t.id) = {}
         \/ t \in db'.threads /\ TurnsOf(db', t.id) = TurnsOf(db, t.id)]_vars
  BY StepSpares DEF Spares
<1> QED BY <1>1, ConversationInvariant, PTL DEF Spec, FinishedIsFinal
=============================================================================
