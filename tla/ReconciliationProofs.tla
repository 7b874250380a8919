------------------------ MODULE ReconciliationProofs ------------------------
(***************************************************************************)
(* Theorems about Reconciliation.  Whatever edits two sides make of one    *)
(* base, in any numbers, the merge of the two loses no words, combines     *)
(* independent changes, and takes along what hangs on the words.           *)
(***************************************************************************)
EXTENDS Reconciliation, TLAPS, SequenceTheorems, FiniteSetTheorems

(***************************************************************************)
(* The inductive invariant: what a side has made of the base.              *)
(***************************************************************************)

(* A document that does not carry the side's stamp is the base's.          *)
Documents(w, s) ==
    /\ DOMAIN Base.documents \subseteq DOMAIN w.documents
    /\ \A d \in DOMAIN w.documents :
          /\ w.documents[d].blocks # << >> /\ IsInjective(w.documents[d].blocks)
          /\ w.documents[d].words # s => d \in DOMAIN Base.documents /\ w.documents[d] = Base.documents[d]
          /\ \A e \in DOMAIN w.documents \ {d} : BlocksOf(w, d) \cap BlocksOf(w, e) = {}
          /\ \A e \in DOMAIN Base.documents \ {d} : BlocksOf(w, d) \cap BlocksOf(Base, e) = {}

(* A connection lies in a document, and is made and removed with a stamp   *)
(* of that document.                                                       *)
Connections(w, s) ==
    /\ \A c \in DOMAIN w.connections :
          /\ \E d \in DOMAIN w.documents : Ends(w, c) \subseteq BlocksOf(w, d)
          /\ c \in DOMAIN Base.connections => w.connections[c] = Base.connections[c]
          /\ c \notin DOMAIN Base.connections =>
                \A d \in DOMAIN w.documents : Ends(w, c) \cap BlocksOf(w, d) # {} => w.documents[d].words = s
    /\ \A c \in DOMAIN Base.connections \ DOMAIN w.connections, d \in DOMAIN Base.documents :
          Ends(Base, c) \cap BlocksOf(Base, d) # {} => w.documents[d].words = s

(* A snapshot shows blocks of its document, and changes with a stamp of it.*)
Snapshots(w, s) ==
    /\ DOMAIN Base.snapshots \subseteq DOMAIN w.snapshots
    /\ \A p \in DOMAIN w.snapshots :
          /\ w.snapshots[p].document \in DOMAIN w.documents
          /\ w.snapshots[p].blocks \subseteq BlocksOf(w, w.snapshots[p].document)
          /\ p \in DOMAIN Base.snapshots =>
                /\ w.snapshots[p].document = Base.snapshots[p].document
                /\ w.documents[w.snapshots[p].document].words # s => w.snapshots[p] = Base.snapshots[p]

Grown(w, s) == Typed(w) /\ Documents(w, s) /\ Connections(w, s) /\ Snapshots(w, s)

(* What both sides have was in the base.                                   *)
Apart(v, w) ==
    /\ DOMAIN v.documents \cap DOMAIN w.documents \subseteq DOMAIN Base.documents
    /\ DOMAIN v.connections \cap DOMAIN w.connections \subseteq DOMAIN Base.connections
    /\ DOMAIN v.snapshots \cap DOMAIN w.snapshots \subseteq DOMAIN Base.snapshots
    /\ Held(v) \cap Held(w) \subseteq Held(Base)

ReconciliationInd ==
    /\ Grown(local, "local") /\ Grown(server, "server") /\ Apart(local, server)
    /\ merged = << >> \/ merged = <<Reconciled>>

-----------------------------------------------------------------------------
(* The merge of a collection, for all collections.                         *)

(* Where the server changed something, its value stands, and the device's  *)
(* everywhere else: changes of one side are taken, whichever side it was.  *)
LEMMA ThreeWayAt ==
    ASSUME NEW s, NEW l, NEW b, NEW x
    PROVE  At(ThreeWay(s, l, b), x) = IF Changed(s, b, x) THEN At(s, x) ELSE At(l, x)
<1> DEFINE wins == LocalWins(s, l, b)
           held == (DOMAIN s \cup wins) \ LocalDrops(s, l, b)
<1>1. At(ThreeWay(s, l, b), x) = IF x \in held THEN IF x \in wins THEN l[x] ELSE s[x] ELSE Absent
  BY DEF ThreeWay, At
<1>2. x \in wins <=> x \in DOMAIN l /\ At(l, x) # At(b, x) /\ At(s, x) = At(b, x)
  BY DEF LocalWins, Changed
<1>3. x \in LocalDrops(s, l, b) <=> x \in DOMAIN b /\ x \notin DOMAIN l /\ At(s, x) = At(b, x)
  BY DEF LocalDrops, Changed
<1>4. x \in held <=> (x \in DOMAIN s \/ x \in wins) /\ x \notin LocalDrops(s, l, b)
  OBVIOUS
<1> HIDE DEF wins, held
<1>5. CASE Changed(s, b, x)
  BY <1>1, <1>2, <1>3, <1>4, <1>5 DEF Changed, At
<1>6. CASE ~Changed(s, b, x) /\ x \in wins
  BY <1>1, <1>2, <1>3, <1>4, <1>6 DEF Changed, At
<1>7. CASE ~Changed(s, b, x) /\ x \notin wins /\ x \in DOMAIN l
  BY <1>1, <1>2, <1>3, <1>4, <1>7 DEF Changed, At
<1>8. CASE ~Changed(s, b, x) /\ x \notin DOMAIN l
  BY <1>1, <1>2, <1>3, <1>4, <1>8 DEF Changed, At
<1> QED
  BY <1>5, <1>6, <1>7, <1>8

(* The ids of a merge are of one side.                                     *)
LEMMA ThreeWayIds == ASSUME NEW s, NEW l, NEW b PROVE DOMAIN ThreeWay(s, l, b) \subseteq DOMAIN s \cup DOMAIN l
BY DEF ThreeWay, LocalWins
-----------------------------------------------------------------------------
(* Sequences without repetition.                                           *)

Distinct(q) == \A i, j \in DOMAIN q : q[i] = q[j] => i = j
Orders(q, S) == q \in Seq(S) /\ Distinct(q) /\ S \subseteq ToSet(q)

LEMMA PieceOf ==
    ASSUME NEW S, NEW q \in Seq(S), NEW m \in 1 .. Len(q) + 1, NEW n \in m - 1 .. Len(q),
           NEW T, S \subseteq T, NEW l \in Nat, l = n - m + 1
    PROVE  /\ SubSeq(q, m, n) \in Seq(T) /\ Len(SubSeq(q, m, n)) = l
           /\ \A k \in 1 .. l : SubSeq(q, m, n)[k] = q[m - 1 + k]
<1>1. Len(q) \in Nat /\ m \in Int /\ n \in Int
  OBVIOUS
<1>2. \A k \in m .. n : q[k] \in T
  BY <1>1
<1>3. /\ SubSeq(q, m, n) \in Seq(T) /\ Len(SubSeq(q, m, n)) = IF m <= n THEN n - m + 1 ELSE 0
      /\ \A k \in 1 .. n - m + 1 : SubSeq(q, m, n)[k] = q[m + k - 1]
  BY <1>1, <1>2, SubSeqProperties
<1>4. \A k \in 1 .. l : m + k - 1 = m - 1 + k
  BY <1>1
<1> QED
  BY <1>1, <1>3, <1>4

LEMMA RestOf ==
    ASSUME NEW S, NEW q \in Seq(S), NEW i \in 0 .. Len(q), NEW T, S \subseteq T
    PROVE  /\ SubSeq(q, i + 1, Len(q)) \in Seq(T) /\ Len(SubSeq(q, i + 1, Len(q))) = Len(q) - i
           /\ \A k \in 1 .. Len(q) - i : SubSeq(q, i + 1, Len(q))[k] = q[i + k]
<1> DEFINE l == Len(q) - i
           m == i + 1
           n == Len(q)
<1>1. m \in 1 .. Len(q) + 1 /\ n \in m - 1 .. Len(q) /\ l \in Nat /\ l = n - m + 1 /\ i \in Nat
  OBVIOUS
<1>2. \A k \in 1 .. l : m - 1 + k = i + k
  BY <1>1
<1> HIDE DEF l, m, n
<1>3. SubSeq(q, m, n) \in Seq(T) /\ Len(SubSeq(q, m, n)) = l /\ \A k \in 1 .. l : SubSeq(q, m, n)[k] = q[m - 1 + k]
  BY <1>1, PieceOf
<1> QED
  BY <1>2, <1>3 DEF l, m, n

LEMMA Joined ==
    ASSUME NEW S, NEW q \in Seq(S), NEW p \in Seq(S)
    PROVE  /\ q \o p \in Seq(S) /\ Len(q \o p) = Len(q) + Len(p) /\ DOMAIN (q \o p) = 1 .. Len(q) + Len(p)
           /\ \A k \in 1 .. Len(q) + Len(p) : (q \o p)[k] = IF k <= Len(q) THEN q[k] ELSE p[k - Len(q)]
BY ConcatProperties

LEMMA OrderAppended ==
    ASSUME NEW S, NEW q, Orders(q, S), NEW b, b \notin S
    PROVE  Orders(Append(q, b), S \cup {b}) /\ Len(Append(q, b)) = Len(q) + 1
<1> DEFINE w == Append(q, b)
           T == S \cup {b}
<1>1. q \in Seq(T) /\ q \in Seq(S) /\ Len(q) \in Nat /\ DOMAIN q = 1 .. Len(q) /\ b \in T
  BY DEF Orders
<1>2. w \in Seq(T) /\ Len(w) = Len(q) + 1
      /\ \A k \in DOMAIN w : w[k] = IF k <= Len(q) THEN q[k] ELSE b
  BY <1>1
<1> HIDE DEF w
<1>3. \A k \in DOMAIN q : q[k] \in S
  BY <1>1
<1>4. Distinct(w)
  BY <1>1, <1>2, <1>3 DEF Orders, Distinct
<1>5. ASSUME NEW x \in T PROVE \E k \in DOMAIN w : w[k] = x
  <2>1. CASE x = b
    BY <1>1, <1>2, <2>1
  <2>2. CASE x # b
    <3>1. PICK k \in DOMAIN q : q[k] = x
      BY <2>2 DEF Orders, ToSet
    <3> QED
      BY <1>1, <1>2, <3>1
  <2> QED
    BY <2>1, <2>2
<1> QED
  BY <1>2, <1>4, <1>5 DEF Orders, ToSet, w

LEMMA OrderWithout ==
    ASSUME NEW S, NEW q, Orders(q, S), NEW i \in DOMAIN q
    PROVE  Orders(RemoveAt(q, i), S \ {q[i]}) /\ Len(RemoveAt(q, i)) = Len(q) - 1
<1> DEFINE w == RemoveAt(q, i)
           T == S \ {q[i]}
<1>1. q \in Seq(S) /\ Len(q) \in Nat /\ DOMAIN q = 1 .. Len(q) /\ i \in Nat /\ i \in 1 .. Len(q)
  BY DEF Orders
<1> DEFINE u == SubSeq(q, 1, i - 1)
           v == SubSeq(q, i + 1, Len(q))
<1>2. u \in Seq(S) /\ Len(u) = i - 1 /\ \A k \in 1 .. i - 1 : u[k] = q[k]
  <2> DEFINE l == i - 1
  <2>1. 1 \in 1 .. Len(q) + 1 /\ l \in 1 - 1 .. Len(q) /\ l \in Nat /\ l = l - 1 + 1
    BY <1>1
  <2> HIDE DEF l
  <2>2. SubSeq(q, 1, l) \in Seq(S) /\ Len(SubSeq(q, 1, l)) = l /\ \A k \in 1 .. l : SubSeq(q, 1, l)[k] = q[1 - 1 + k]
    BY <1>1, <2>1, PieceOf
  <2>3. \A k \in 1 .. l : 1 - 1 + k = k
    OBVIOUS
  <2> QED
    BY <2>2, <2>3 DEF l
<1>3. v \in Seq(S) /\ Len(v) = Len(q) - i /\ \A k \in 1 .. Len(q) - i : v[k] = q[i + k]
  <2>1. i \in 0 .. Len(q) /\ S \subseteq S
    BY <1>1
  <2> QED
    BY <1>1, <2>1, RestOf
<1>4. w = u \o v
  BY DEF RemoveAt
<1> HIDE DEF w, u, v
<1>5. w \in Seq(S) /\ Len(w) = Len(q) - 1
      /\ \A k \in DOMAIN w : w[k] = IF k < i THEN q[k] ELSE q[k + 1]
  <2>1. /\ w \in Seq(S) /\ Len(w) = Len(u) + Len(v) /\ DOMAIN w = 1 .. Len(u) + Len(v)
        /\ \A k \in 1 .. Len(u) + Len(v) : w[k] = IF k <= Len(u) THEN u[k] ELSE v[k - Len(u)]
    BY <1>2, <1>3, <1>4, Joined
  <2>2. Len(u) + Len(v) = Len(q) - 1
    BY <1>1, <1>2, <1>3
  <2>3. ASSUME NEW k \in 1 .. Len(q) - 1 PROVE w[k] = IF k < i THEN q[k] ELSE q[k + 1]
    <3>1. CASE k < i
      BY <1>1, <1>2, <2>1, <2>2, <3>1
    <3>2. CASE k >= i
      <4>1. k - (i - 1) \in 1 .. Len(q) - i /\ i + (k - (i - 1)) = k + 1
        BY <1>1, <3>2
      <4>2. w[k] = v[k - (i - 1)]
        BY <1>1, <1>2, <2>1, <2>2, <3>2
      <4> QED
        BY <1>1, <1>3, <3>2, <4>1, <4>2
    <3> QED
      BY <1>1, <3>1, <3>2
  <2> QED
    BY <2>1, <2>2, <2>3
<1>6. DOMAIN w = 1 .. Len(q) - 1
  BY <1>1, <1>5
<1>7. Distinct(w)
  BY <1>1, <1>5, <1>6 DEF Orders, Distinct
<1>8. \A k \in DOMAIN w : w[k] \in T
  BY <1>1, <1>5, <1>6 DEF Orders, Distinct
<1>9. w \in Seq(T)
  BY <1>1, <1>5, <1>6, <1>8
<1>10. ASSUME NEW x \in T PROVE \E k \in DOMAIN w : w[k] = x
  <2>1. PICK k \in DOMAIN q : q[k] = x
    BY DEF Orders, ToSet
  <2>2. k # i
    BY <2>1
  <2>3. (k \in DOMAIN w /\ w[k] = x) \/ (k - 1 \in DOMAIN w /\ w[k - 1] = x)
    BY <1>1, <1>5, <1>6, <2>1, <2>2
  <2> QED
    BY <2>3
<1> QED
  BY <1>5, <1>7, <1>9, <1>10 DEF Orders, ToSet, w


-----------------------------------------------------------------------------
(* An edit of one document d by side s, which takes new ids N.             *)

NewTo(w, N) == N \cap (Taken(w) \cup Taken(Base)) = {}
Before(w, d) == IF d \in DOMAIN w.documents THEN BlocksOf(w, d) ELSE {}

DocumentEdit(w, v, s, d, N) ==
    /\ Typed(v)
    /\ DOMAIN v.documents = DOMAIN w.documents \cup {d} /\ (d \in DOMAIN w.documents \/ d \in N)
    /\ v.documents[d].words = s /\ v.documents[d].blocks # << >> /\ IsInjective(v.documents[d].blocks)
    /\ \A e \in DOMAIN w.documents \ {d} : v.documents[e] = w.documents[e]
    /\ BlocksOf(v, d) \subseteq N \cup Before(w, d)
    /\ \A c \in DOMAIN v.connections :
          \/ /\ c \in DOMAIN w.connections /\ v.connections[c] = w.connections[c]
             /\ Ends(w, c) \subseteq Before(w, d) => Ends(w, c) \subseteq BlocksOf(v, d)
          \/ c \in N /\ Ends(v, c) \subseteq BlocksOf(v, d)
    /\ \A c \in DOMAIN w.connections \ DOMAIN v.connections : Ends(w, c) \cap Before(w, d) # {}
    /\ DOMAIN v.snapshots = DOMAIN w.snapshots
    /\ \A p \in DOMAIN w.snapshots :
          /\ v.snapshots[p].document = w.snapshots[p].document
          /\ IF w.snapshots[p].document = d THEN v.snapshots[p].blocks \subseteq BlocksOf(v, d)
             ELSE v.snapshots[p] = w.snapshots[p]

Adds(w, v, N) ==
    /\ DOMAIN v.documents \subseteq DOMAIN w.documents \cup N
    /\ DOMAIN v.connections \subseteq DOMAIN w.connections \cup N
    /\ DOMAIN v.snapshots \subseteq DOMAIN w.snapshots \cup N
    /\ Held(v) \subseteq Held(w) \cup N

(* An id that is not taken is no document's, no connection's, nobody's.    *)
LEMMA TakenIs ==
    ASSUME NEW w, NEW x, x \notin Taken(w)
    PROVE  /\ x \notin DOMAIN w.documents /\ x \notin DOMAIN w.connections
           /\ x \notin DOMAIN w.snapshots /\ x \notin DOMAIN w.annotations
           /\ \A d \in DOMAIN w.documents : x \notin BlocksOf(w, d)
BY DEF Taken

(* Two blocks of a side that are in one connection are in one document.    *)
LEMMA OneDocument ==
    ASSUME NEW w, NEW s, Documents(w, s), NEW d \in DOMAIN w.documents, NEW e \in DOMAIN w.documents,
           NEW S, S \subseteq BlocksOf(w, d), S \cap BlocksOf(w, e) # {}
    PROVE  d = e
BY DEF Documents

(* An edit stamps its document, and takes only new blocks into it, ...     *)
LEMMA EditedDocuments ==
    ASSUME NEW w, NEW v, NEW s, NEW d, NEW N, Documents(w, s), NewTo(w, N), DocumentEdit(w, v, s, d, N)
    PROVE  Documents(v, s)
<1>1. \A x \in N : x \notin Taken(w) /\ x \notin Taken(Base)
  BY DEF NewTo
<1>2. /\ DOMAIN v.documents = DOMAIN w.documents \cup {d}
      /\ v.documents[d].words = s /\ v.documents[d].blocks # << >> /\ IsInjective(v.documents[d].blocks)
      /\ \A e \in DOMAIN w.documents \ {d} : v.documents[e] = w.documents[e]
      /\ BlocksOf(v, d) \subseteq N \cup Before(w, d)
  BY DEF DocumentEdit
<1>3. \A e \in DOMAIN w.documents \ {d} : BlocksOf(v, e) = BlocksOf(w, e)
  BY <1>2 DEF BlocksOf
<1>4. \A e \in DOMAIN w.documents \ {d} : BlocksOf(v, d) \cap BlocksOf(w, e) = {}
  <2> SUFFICES ASSUME NEW e \in DOMAIN w.documents \ {d}, NEW x \in BlocksOf(v, d), x \in BlocksOf(w, e) PROVE FALSE
    OBVIOUS
  <2>1. CASE x \in N
    BY <1>1, <2>1, TakenIs
  <2>2. CASE x \in Before(w, d)
    BY <2>2 DEF Before, Documents
  <2> QED
    BY <1>2, <2>1, <2>2
<1>5. \A e \in DOMAIN Base.documents \ {d} : BlocksOf(v, d) \cap BlocksOf(Base, e) = {}
  <2> SUFFICES ASSUME NEW e \in DOMAIN Base.documents \ {d}, NEW x \in BlocksOf(v, d), x \in BlocksOf(Base, e) PROVE FALSE
    OBVIOUS
  <2>1. CASE x \in N
    BY <1>1, <2>1, TakenIs
  <2>2. CASE x \in Before(w, d)
    BY <2>2 DEF Before, Documents
  <2> QED
    BY <1>2, <2>1, <2>2
<1>6. ASSUME NEW e \in DOMAIN v.documents
      PROVE  /\ v.documents[e].blocks # << >> /\ IsInjective(v.documents[e].blocks)
             /\ v.documents[e].words # s => e \in DOMAIN Base.documents /\ v.documents[e] = Base.documents[e]
             /\ \A f \in DOMAIN v.documents \ {e} : BlocksOf(v, e) \cap BlocksOf(v, f) = {}
             /\ \A f \in DOMAIN Base.documents \ {e} : BlocksOf(v, e) \cap BlocksOf(Base, f) = {}
  <2>1. CASE e = d
    BY <1>2, <1>3, <1>4, <1>5, <2>1
  <2>2. CASE e # d
    <3>1. e \in DOMAIN w.documents /\ v.documents[e] = w.documents[e] /\ BlocksOf(v, e) = BlocksOf(w, e)
      BY <1>2, <1>3, <2>2
    <3>2. \A f \in DOMAIN v.documents \ {e} : BlocksOf(v, e) \cap BlocksOf(v, f) = {}
      <4> SUFFICES ASSUME NEW f \in DOMAIN v.documents \ {e} PROVE BlocksOf(w, e) \cap BlocksOf(v, f) = {}
        BY <3>1
      <4>1. CASE f = d
        BY <1>4, <2>2, <3>1, <4>1
      <4>2. CASE f # d
        BY <1>2, <1>3, <3>1, <4>2 DEF Documents
      <4> QED
        BY <4>1, <4>2
    <3> QED
      BY <3>1, <3>2 DEF Documents
  <2> QED
    BY <2>1, <2>2
<1>7. DOMAIN Base.documents \subseteq DOMAIN v.documents
  BY <1>2 DEF Documents
<1> QED
  BY <1>6, <1>7 DEF Documents

(* ... makes and removes connections of that document only, ...            *)
LEMMA EditedConnections ==
    ASSUME NEW w, NEW v, NEW s, NEW d, NEW N, Documents(w, s), Documents(v, s), Connections(w, s),
           NewTo(w, N), DocumentEdit(w, v, s, d, N)
    PROVE  Connections(v, s)
<1>1. \A x \in N : x \notin Taken(w) /\ x \notin Taken(Base)
  BY DEF NewTo
<1>2. /\ DOMAIN v.documents = DOMAIN w.documents \cup {d} /\ v.documents[d].words = s
      /\ \A e \in DOMAIN w.documents \ {d} : v.documents[e] = w.documents[e]
  BY DEF DocumentEdit
<1>3. \A e \in DOMAIN w.documents \ {d} : BlocksOf(v, e) = BlocksOf(w, e)
  BY <1>2 DEF BlocksOf
<1>4. \A e \in DOMAIN w.documents : w.documents[e].words = s => v.documents[e].words = s
  BY <1>2
<1>5. ASSUME NEW c \in DOMAIN v.connections
      PROVE  /\ \E e \in DOMAIN v.documents : Ends(v, c) \subseteq BlocksOf(v, e)
             /\ c \in DOMAIN Base.connections => v.connections[c] = Base.connections[c]
             /\ c \notin DOMAIN Base.connections =>
                   \A e \in DOMAIN v.documents : Ends(v, c) \cap BlocksOf(v, e) # {} => v.documents[e].words = s
  <2>1. CASE c \in N /\ Ends(v, c) \subseteq BlocksOf(v, d)
    <3>1. c \notin DOMAIN Base.connections
      BY <1>1, <2>1, TakenIs
    <3>2. \A e \in DOMAIN v.documents : Ends(v, c) \cap BlocksOf(v, e) # {} => e = d
      BY <1>2, <2>1, OneDocument
    <3> QED
      BY <1>2, <2>1, <3>1, <3>2
  <2>2. CASE /\ c \in DOMAIN w.connections /\ v.connections[c] = w.connections[c]
             /\ Ends(w, c) \subseteq Before(w, d) => Ends(w, c) \subseteq BlocksOf(v, d)
    <3>1. Ends(v, c) = Ends(w, c)
      BY <2>2 DEF Ends
    <3>2. PICK e \in DOMAIN w.documents : Ends(w, c) \subseteq BlocksOf(w, e)
      BY <2>2 DEF Connections
    <3>3. e \in DOMAIN v.documents /\ Ends(w, c) \subseteq BlocksOf(v, e)
      <4>1. CASE e = d
        BY <1>2, <2>2, <3>2, <4>1 DEF Before
      <4>2. CASE e # d
        BY <1>2, <1>3, <3>2, <4>2
      <4> QED
        BY <4>1, <4>2
    <3>4. c \in DOMAIN Base.connections => v.connections[c] = Base.connections[c]
      BY <2>2 DEF Connections
    <3>5. ASSUME c \notin DOMAIN Base.connections, NEW f \in DOMAIN v.documents, Ends(v, c) \cap BlocksOf(v, f) # {}
          PROVE  v.documents[f].words = s
      <4>1. e = f
        BY <3>1, <3>3, <3>5, OneDocument
      <4>2. Ends(w, c) \cap BlocksOf(w, e) # {}
        BY <3>1, <3>2, <3>5
      <4> QED
        BY <1>4, <2>2, <3>2, <3>5, <4>1, <4>2 DEF Connections
    <3> QED
      BY <3>1, <3>3, <3>4, <3>5
  <2> QED
    BY <2>1, <2>2 DEF DocumentEdit
<1>6. ASSUME NEW c \in DOMAIN Base.connections \ DOMAIN v.connections, NEW e \in DOMAIN Base.documents,
             Ends(Base, c) \cap BlocksOf(Base, e) # {}
      PROVE  v.documents[e].words = s
  <2>1. CASE c \notin DOMAIN w.connections
    BY <1>4, <1>6, <2>1 DEF Connections, Documents
  <2>2. CASE c \in DOMAIN w.connections
    <3>1. Ends(w, c) \cap Before(w, d) # {} /\ Ends(Base, c) = Ends(w, c)
      BY <1>6, <2>2 DEF DocumentEdit, Connections, Ends
    <3>2. d \in DOMAIN w.documents /\ Before(w, d) = BlocksOf(w, d)
      BY <3>1 DEF Before
    <3>3. PICK f \in DOMAIN w.documents : Ends(w, c) \subseteq BlocksOf(w, f)
      BY <2>2 DEF Connections
    <3>4. f = d
      BY <3>1, <3>2, <3>3, OneDocument
    <3>5. BlocksOf(w, d) \cap BlocksOf(Base, e) # {}
      BY <1>6, <3>1, <3>3, <3>4
    <3>6. e = d
      BY <3>2, <3>5 DEF Documents
    <3> QED
      BY <1>2, <3>6
  <2> QED
    BY <2>1, <2>2
<1> QED
  BY <1>5, <1>6 DEF Connections

(* ... and leaves the snapshots of the others.                             *)
LEMMA EditedSnapshots ==
    ASSUME NEW w, NEW v, NEW s, NEW d, NEW N, Snapshots(w, s), DocumentEdit(w, v, s, d, N)
    PROVE  Snapshots(v, s)
<1>1. /\ DOMAIN v.documents = DOMAIN w.documents \cup {d} /\ v.documents[d].words = s
      /\ \A e \in DOMAIN w.documents \ {d} : v.documents[e] = w.documents[e]
      /\ DOMAIN v.snapshots = DOMAIN w.snapshots
      /\ \A p \in DOMAIN w.snapshots :
            /\ v.snapshots[p].document = w.snapshots[p].document
            /\ IF w.snapshots[p].document = d THEN v.snapshots[p].blocks \subseteq BlocksOf(v, d)
               ELSE v.snapshots[p] = w.snapshots[p]
  BY DEF DocumentEdit
<1>2. \A e \in DOMAIN w.documents \ {d} : BlocksOf(v, e) = BlocksOf(w, e)
  BY <1>1 DEF BlocksOf
<1>3. ASSUME NEW p \in DOMAIN v.snapshots
      PROVE  /\ v.snapshots[p].document \in DOMAIN v.documents
             /\ v.snapshots[p].blocks \subseteq BlocksOf(v, v.snapshots[p].document)
             /\ p \in DOMAIN Base.snapshots =>
                   /\ v.snapshots[p].document = Base.snapshots[p].document
                   /\ v.documents[v.snapshots[p].document].words # s => v.snapshots[p] = Base.snapshots[p]
  <2>1. /\ p \in DOMAIN w.snapshots /\ w.snapshots[p].document \in DOMAIN w.documents
        /\ w.snapshots[p].blocks \subseteq BlocksOf(w, w.snapshots[p].document)
        /\ p \in DOMAIN Base.snapshots =>
              /\ w.snapshots[p].document = Base.snapshots[p].document
              /\ w.documents[w.snapshots[p].document].words # s => w.snapshots[p] = Base.snapshots[p]
    BY <1>1 DEF Snapshots
  <2>2. CASE w.snapshots[p].document = d
    BY <1>1, <2>1, <2>2
  <2>3. CASE w.snapshots[p].document # d
    BY <1>1, <1>2, <2>1, <2>3
  <2> QED
    BY <2>2, <2>3
<1> QED
  BY <1>1, <1>3 DEF Snapshots

(* So what a side made of the base grows by the edit.                      *)
LEMMA EditedGrows ==
    ASSUME NEW w, NEW v, NEW s, NEW d, NEW N, Grown(w, s), NewTo(w, N), DocumentEdit(w, v, s, d, N)
    PROVE  Grown(v, s) /\ Adds(w, v, N)
<1>1. Documents(w, s) /\ Connections(w, s) /\ Snapshots(w, s)
  BY DEF Grown
<1>2. Documents(v, s)
  BY <1>1, EditedDocuments
<1>3. Connections(v, s)
  BY <1>1, <1>2, EditedConnections
<1>4. Snapshots(v, s)
  BY <1>1, EditedSnapshots
<1>5. Held(v) \subseteq Held(w) \cup N
  <2> SUFFICES ASSUME NEW e \in DOMAIN v.documents, NEW x \in BlocksOf(v, e) PROVE x \in Held(w) \/ x \in N
    BY DEF Held
  <2>1. CASE e = d
    BY <2>1 DEF DocumentEdit, Before, Held
  <2>2. CASE e # d
    BY <2>2 DEF DocumentEdit, BlocksOf, Held
  <2> QED
    BY <2>1, <2>2
<1>6. /\ DOMAIN v.documents \subseteq DOMAIN w.documents \cup N
      /\ DOMAIN v.connections \subseteq DOMAIN w.connections \cup N
      /\ DOMAIN v.snapshots \subseteq DOMAIN w.snapshots \cup N
  BY DEF DocumentEdit
<1> QED
  BY <1>2, <1>3, <1>4, <1>5, <1>6 DEF Grown, Adds, DocumentEdit

-----------------------------------------------------------------------------
(* The edits of App.                                                       *)

WithOne(C, D, ids, V, x, v) ==
    /\ Collection(D, ids, V) /\ DOMAIN D = DOMAIN C \cup {x}
    /\ D[x] = v /\ \A y \in DOMAIN C \ {x} : D[y] = C[y]

WithNone(C, D, ids, V, X) ==
    Collection(D, ids, V) /\ DOMAIN D = DOMAIN C \ X /\ \A y \in DOMAIN C \ X : D[y] = C[y]

(* A collection with one more value, another value, or fewer ids.          *)
LEMMA PutIn ==
    ASSUME NEW C, NEW ids, NEW V, Collection(C, ids, V), NEW x \in ids, NEW v \in V
    PROVE  WithOne(C, Put(C, x, v), ids, V, x, v)
BY DEF Put, With, Collection, WithOne

LEMMA ExceptIn ==
    ASSUME NEW C, NEW ids, NEW V, Collection(C, ids, V), NEW x \in DOMAIN C, NEW v \in V
    PROVE  /\ Collection([C EXCEPT ![x] = v], ids, V) /\ DOMAIN [C EXCEPT ![x] = v] = DOMAIN C
           /\ [C EXCEPT ![x] = v][x] = v /\ \A y \in DOMAIN C \ {x} : [C EXCEPT ![x] = v][y] = C[y]
BY DEF Collection

LEMMA WithoutIn ==
    ASSUME NEW C, NEW ids, NEW V, Collection(C, ids, V), NEW X
    PROVE  WithNone(C, Without(C, X), ids, V, X)
BY DEF Without, Collection, WithNone

(* What a workspace holds as a document.                                   *)
LEMMA DocumentIs ==
    ASSUME NEW w, Typed(w), NEW d \in DOMAIN w.documents
    PROVE  /\ d \in Doc /\ w.documents[d] \in Document /\ w.documents[d].blocks \in Seq(Block)
           /\ BlocksOf(w, d) \subseteq Block
<1>1. w.documents[d] \in Document /\ d \in Doc
  BY DEF Typed, Collection
<1>2. w.documents[d].blocks \in Seq(Block)
  BY <1>1 DEF Document
<1> QED
  BY <1>1, <1>2 DEF BlocksOf, ToSet

(* Writing and titles.                                                     *)
LEMMA WroteEdits ==
    ASSUME NEW w, NEW s \in Side, Grown(w, s), NEW d \in DOMAIN w.documents,
           NEW v, v \in {Wrote(w, s, d), Retitled(w, s, d)}
    PROVE  DocumentEdit(w, v, s, d, {})
<1> DEFINE a == w.documents[d]
<1>1. PICK r \in Document : /\ v.documents = [w.documents EXCEPT ![d] = r]
                            /\ r.words = s /\ r.blocks = a.blocks
                            /\ v.connections = w.connections /\ v.annotations = w.annotations
                            /\ v.snapshots = w.snapshots
                            /\ v = [documents |-> v.documents, connections |-> v.connections,
                                    annotations |-> v.annotations, snapshots |-> v.snapshots, settings |-> v.settings]
  <2>1. a \in Document
    BY DocumentIs DEF Grown
  <2>2. CASE v = Wrote(w, s, d)
    <3> DEFINE r == [a EXCEPT !.words = s]
    <3>1. r \in Document /\ r.words = s /\ r.blocks = a.blocks
      BY <2>1 DEF Document
    <3>2. v = [w EXCEPT !.documents = [w.documents EXCEPT ![d] = r]]
      BY <2>2 DEF Wrote
    <3> HIDE DEF r
    <3> QED
      BY <3>1, <3>2 DEF Grown, Typed
  <2>3. CASE v = Retitled(w, s, d)
    <3> DEFINE r == [a EXCEPT !.words = s, !.title = "full"]
    <3>1. r \in Document /\ r.words = s /\ r.blocks = a.blocks
      BY <2>1 DEF Document
    <3>2. v = [w EXCEPT !.documents = [w.documents EXCEPT ![d] = r]]
      BY <2>3 DEF Retitled
    <3> HIDE DEF r
    <3> QED
      BY <3>1, <3>2 DEF Grown, Typed
  <2> QED
    BY <2>2, <2>3
<1>2. /\ Collection(v.documents, Doc, Document) /\ DOMAIN v.documents = DOMAIN w.documents
      /\ v.documents[d] = r /\ \A e \in DOMAIN w.documents \ {d} : v.documents[e] = w.documents[e]
  BY <1>1, ExceptIn DEF Grown, Typed
<1>3. Typed(v)
  BY <1>1, <1>2 DEF Grown, Typed
<1>4. BlocksOf(v, d) = BlocksOf(w, d) /\ Before(w, d) = BlocksOf(w, d)
  BY <1>1, <1>2 DEF BlocksOf, Before
<1>5. a.blocks # << >> /\ IsInjective(a.blocks)
  BY DEF Grown, Documents
<1>6. \A p \in DOMAIN w.snapshots : w.snapshots[p].document = d => w.snapshots[p].blocks \subseteq BlocksOf(v, d)
  BY <1>4 DEF Grown, Snapshots
<1> QED
  BY <1>1, <1>2, <1>3, <1>4, <1>5, <1>6 DEF DocumentEdit

(* A branch of a block.                                                    *)
LEMMA BranchedEdits ==
    ASSUME NEW w, NEW s \in Side, Grown(w, s), NEW d \in DOMAIN w.documents,
           NEW q \in BlocksOf(w, d), NEW b \in Block, NEW c \in Connection, NewTo(w, {b, c}),
           NEW v, v = Branched(w, s, d, q, b, c)
    PROVE  DocumentEdit(w, v, s, d, {b, c})
<1> DEFINE a == w.documents[d]
           line == Append(a.blocks, b)
           r == [a EXCEPT !.words = s, !.blocks = line]
           link == [from |-> q, to |-> b]
<1>1. a \in Document /\ a.blocks \in Seq(Block) /\ q \in Block /\ d \in Doc
  BY DocumentIs DEF Grown
<1>2. line \in Seq(Block) /\ line # << >> /\ IsInjective(line) /\ ToSet(line) = ToSet(a.blocks) \cup {b}
  <2>1. b \notin ToSet(a.blocks)
    BY TakenIs DEF NewTo, BlocksOf
  <2>2. Orders(a.blocks, ToSet(a.blocks))
    <3>1. a.blocks \in Seq(ToSet(a.blocks))
      BY <1>1 DEF ToSet
    <3> QED
      BY <3>1 DEF Orders, Distinct, Grown, Documents, IsInjective
  <2>3. Orders(line, ToSet(a.blocks) \cup {b})
    BY <2>1, <2>2, OrderAppended
  <2>4. line \in Seq(Block) /\ Len(line) = Len(a.blocks) + 1
    BY <1>1
  <2>5. line # << >>
    BY <1>1, <2>4
  <2>6. \A S : \A p \in Seq(S) : ToSet(p) \subseteq S
    BY DEF ToSet
  <2> HIDE DEF line
  <2> QED
    BY <2>3, <2>4, <2>5, <2>6 DEF Orders, Distinct, IsInjective
<1>3. r \in Document /\ r.words = s /\ r.blocks = line
  BY <1>1, <1>2 DEF Document
<1>4. v = [w EXCEPT !.documents = [w.documents EXCEPT ![d] = r], !.connections = Put(w.connections, c, link)]
  BY DEF Branched
<1>5. link \in [from : Block, to : Block] /\ link.from = q /\ link.to = b
  BY <1>1
<1> HIDE DEF r, link, line
<1>6. /\ v.documents = [w.documents EXCEPT ![d] = r] /\ v.connections = Put(w.connections, c, link)
      /\ v.annotations = w.annotations /\ v.snapshots = w.snapshots
      /\ v = [documents |-> v.documents, connections |-> v.connections, annotations |-> v.annotations,
              snapshots |-> v.snapshots, settings |-> v.settings]
  BY <1>4 DEF Grown, Typed
<1>7. /\ Collection(v.documents, Doc, Document) /\ DOMAIN v.documents = DOMAIN w.documents
      /\ v.documents[d] = r /\ \A e \in DOMAIN w.documents \ {d} : v.documents[e] = w.documents[e]
  BY <1>3, <1>6, ExceptIn DEF Grown, Typed
<1>8. /\ Collection(v.connections, Connection, [from : Block, to : Block])
      /\ DOMAIN v.connections = DOMAIN w.connections \cup {c}
      /\ v.connections[c] = link /\ \A y \in DOMAIN w.connections \ {c} : v.connections[y] = w.connections[y]
  <2> DEFINE V == [from : Block, to : Block]
  <2>1. Collection(w.connections, Connection, V) /\ link \in V
    BY <1>5 DEF Grown, Typed
  <2> HIDE DEF V
  <2>2. WithOne(w.connections, Put(w.connections, c, link), Connection, V, c, link)
    BY <2>1, PutIn
  <2> QED
    BY <1>6, <2>2 DEF V, WithOne
<1>9. Typed(v)
  BY <1>6, <1>7, <1>8 DEF Grown, Typed
<1>10. /\ Before(w, d) = BlocksOf(w, d) /\ BlocksOf(v, d) = BlocksOf(w, d) \cup {b}
       /\ Ends(v, c) = {q, b}
  BY <1>2, <1>3, <1>5, <1>7, <1>8 DEF Before, BlocksOf, Ends
<1>11. c \notin DOMAIN w.connections
  BY TakenIs DEF NewTo
<1>12. \A p \in DOMAIN w.snapshots : w.snapshots[p].document = d => w.snapshots[p].blocks \subseteq BlocksOf(v, d)
  BY <1>10 DEF Grown, Snapshots
<1>13. \A y \in DOMAIN v.connections :
          \/ /\ y \in DOMAIN w.connections /\ v.connections[y] = w.connections[y]
             /\ Ends(w, y) \subseteq Before(w, d) => Ends(w, y) \subseteq BlocksOf(v, d)
          \/ y \in {b, c} /\ Ends(v, y) \subseteq BlocksOf(v, d)
  BY <1>8, <1>10, <1>11
<1> QED
  BY <1>2, <1>3, <1>6, <1>7, <1>8, <1>9, <1>10, <1>12, <1>13 DEF DocumentEdit

(* A new document.                                                         *)
LEMMA CreatedEdits ==
    ASSUME NEW w, NEW s \in Side, Grown(w, s), NEW d \in Doc, NEW b \in Block, NewTo(w, {d, b}),
           NEW v, v = Created(w, s, d, b)
    PROVE  DocumentEdit(w, v, s, d, {d, b})
<1> DEFINE r == [words |-> s, title |-> "short", blocks |-> <<b>>]
<1>1. r \in Document /\ r.words = s /\ r.blocks = <<b>>
  BY DEF Document
<1>2. /\ v.documents = Put(w.documents, d, r) /\ v.connections = w.connections
      /\ v.annotations = w.annotations /\ v.snapshots = w.snapshots
      /\ v = [documents |-> v.documents, connections |-> v.connections, annotations |-> v.annotations,
              snapshots |-> v.snapshots, settings |-> v.settings]
  BY DEF Created, Grown, Typed
<1> HIDE DEF r
<1>3. /\ Collection(v.documents, Doc, Document) /\ DOMAIN v.documents = DOMAIN w.documents \cup {d}
      /\ v.documents[d] = r /\ \A e \in DOMAIN w.documents \ {d} : v.documents[e] = w.documents[e]
  <2>1. Collection(w.documents, Doc, Document)
    BY DEF Grown, Typed
  <2>2. WithOne(w.documents, v.documents, Doc, Document, d, r)
    BY <1>1, <1>2, <2>1, PutIn
  <2> QED
    BY <2>2 DEF WithOne
<1>4. Typed(v)
  BY <1>2, <1>3 DEF Grown, Typed
<1>5. d \notin DOMAIN w.documents
  BY TakenIs DEF NewTo
<1>6. Before(w, d) = {} /\ BlocksOf(v, d) = {b}
  BY <1>1, <1>3, <1>5 DEF Before, BlocksOf, ToSet
<1>7. r.blocks # << >> /\ IsInjective(r.blocks)
  BY <1>1 DEF IsInjective
<1>8. \A p \in DOMAIN w.snapshots : w.snapshots[p].document # d
  BY <1>5 DEF Grown, Snapshots
<1>9. \A c \in DOMAIN w.connections : Ends(w, c) \subseteq Before(w, d) => Ends(w, c) \subseteq BlocksOf(v, d)
  BY <1>6
<1> QED
  BY <1>1, <1>2, <1>3, <1>4, <1>6, <1>7, <1>8, <1>9 DEF DocumentEdit

(* A block deleted, and what hangs on it; an empty document gets block r.  *)
LEMMA BlocksLeft ==
    ASSUME NEW w, NEW s, Grown(w, s), NEW d \in DOMAIN w.documents, NEW b \in BlocksOf(w, d),
           NEW r \in Block, NewTo(w, {r}),
           NEW q, q = IF Len(w.documents[d].blocks) = 1 THEN <<r>>
                      ELSE RemoveAt(w.documents[d].blocks, Position(w, d, b))
    PROVE  /\ q \in Seq(Block) /\ q # << >> /\ IsInjective(q)
           /\ BlocksOf(w, d) \ {b} \subseteq ToSet(q) /\ ToSet(q) \subseteq (BlocksOf(w, d) \ {b}) \cup {r}
<1> DEFINE a == w.documents[d].blocks
<1>1. a \in Seq(Block) /\ a # << >> /\ IsInjective(a) /\ Len(a) \in Nat /\ DOMAIN a = 1 .. Len(a)
  BY DocumentIs DEF Grown, Documents
<1>2. \E i \in DOMAIN a : a[i] = b
  BY DEF BlocksOf, ToSet
<1>0. BlocksOf(w, d) = ToSet(a) /\ q = IF Len(a) = 1 THEN <<r>> ELSE RemoveAt(a, Position(w, d, b))
  BY DEF BlocksOf
<1>p. \E i \in DOMAIN a : i = Position(w, d, b) /\ a[i] = b
  BY <1>2 DEF Position
<1> HIDE DEF a
<1>3. CASE Len(a) = 1
  <2>1. q = <<r>> /\ ToSet(a) = {b}
    BY <1>0, <1>1, <1>2, <1>3 DEF ToSet
  <2>2. <<r>> \in Seq(Block) /\ DOMAIN <<r>> = {1} /\ <<r>>[1] = r /\ <<r>> # << >>
    OBVIOUS
  <2>3. ToSet(q) = {r}
    BY <2>1, <2>2 DEF ToSet
  <2>4. q \in Seq(Block) /\ q # << >>
    BY <2>1, <2>2
  <2>5. IsInjective(q)
    BY <2>1, <2>2 DEF IsInjective
  <2> QED
    BY <1>0, <2>1, <2>3, <2>4, <2>5
<1>4. CASE Len(a) # 1
  <2>1. PICK i \in DOMAIN a : i = Position(w, d, b) /\ a[i] = b
    BY <1>p
  <2>2. Orders(a, ToSet(a))
    <3>1. a \in Seq(ToSet(a))
      BY <1>1 DEF ToSet
    <3> QED
      BY <1>1, <3>1 DEF Orders, Distinct, IsInjective
  <2>3. q = RemoveAt(a, i)
    BY <1>0, <1>4, <2>1
  <2>4. Orders(q, ToSet(a) \ {b}) /\ Len(q) = Len(a) - 1
    <3> DEFINE S == ToSet(a)
    <3>1. Orders(a, S)
      BY <2>2
    <3> HIDE DEF S
    <3>2. Orders(RemoveAt(a, i), S \ {a[i]}) /\ Len(RemoveAt(a, i)) = Len(a) - 1
      BY <3>1, OrderWithout
    <3>3. S \ {a[i]} = ToSet(a) \ {b}
      BY <2>1 DEF S
    <3> QED
      BY <2>3, <3>2, <3>3
  <2>5. q # << >>
    <3>1. Len(q) # 0
      <4>1. Len(q) = Len(a) - 1 /\ Len(a) \in Nat /\ Len(a) # 1
        BY <1>1, <1>4, <2>4
      <4>2. \A n \in Nat : n # 1 => n - 1 # 0
        OBVIOUS
      <4> QED
        BY <4>1, <4>2, Zenon
    <3>2. Len(<< >>) = 0
      OBVIOUS
    <3> QED
      BY <3>1, <3>2
  <2>6. \A S : \A p \in Seq(S) : ToSet(p) \subseteq S
    BY DEF ToSet
  <2>7. ToSet(q) = ToSet(a) \ {b}
    BY <2>4, <2>6 DEF Orders
  <2>8. ToSet(a) \subseteq Block
    BY <1>1, <2>6
  <2>9. q \in Seq(Block)
    <3>1. q \in Seq(ToSet(a) \ {b})
      BY <2>4 DEF Orders
    <3> QED
      BY <2>8, <3>1
  <2> QED
    BY <1>0, <2>4, <2>5, <2>7, <2>9 DEF Orders, Distinct, IsInjective
<1> QED
  BY <1>3, <1>4

LEMMA DeletedEdits ==
    ASSUME NEW w, NEW s \in Side, Grown(w, s), NEW d \in DOMAIN w.documents, NEW b \in BlocksOf(w, d),
           NEW r \in Block, NewTo(w, {r}), NEW v, v = BlockDeleted(w, s, d, b, r)
    PROVE  DocumentEdit(w, v, s, d, {r})
<1> DEFINE a == w.documents[d]
           q == IF Len(a.blocks) = 1 THEN <<r>> ELSE RemoveAt(a.blocks, Position(w, d, b))
           n == [a EXCEPT !.words = s, !.blocks = q]
           cut == {c \in DOMAIN w.connections : b \in Ends(w, c)}
           gone == {x \in DOMAIN w.annotations : w.annotations[x] = b}
           shown == [p \in DOMAIN w.snapshots |-> [w.snapshots[p] EXCEPT !.blocks = @ \ {b}]]
<1>1. a \in Document /\ a.blocks \in Seq(Block) /\ d \in Doc
  BY DocumentIs DEF Grown
<1>2. /\ q \in Seq(Block) /\ q # << >> /\ IsInjective(q)
      /\ BlocksOf(w, d) \ {b} \subseteq ToSet(q) /\ ToSet(q) \subseteq (BlocksOf(w, d) \ {b}) \cup {r}
  BY BlocksLeft
<1> HIDE DEF q
<1>3. n \in Document /\ n.words = s /\ n.blocks = q
  BY <1>1, <1>2 DEF Document
<1>4. [w.documents EXCEPT ![d].words = s, ![d].blocks = q] = [w.documents EXCEPT ![d] = n]
  OBVIOUS
<1>5. /\ v.documents = [w.documents EXCEPT ![d] = n] /\ v.connections = Without(w.connections, cut)
      /\ v.annotations = Without(w.annotations, gone) /\ v.snapshots = shown
      /\ v = [documents |-> v.documents, connections |-> v.connections, annotations |-> v.annotations,
              snapshots |-> v.snapshots, settings |-> v.settings]
  BY DEF BlockDeleted, q
<1> HIDE DEF n, cut, gone
<1>6. /\ Collection(v.documents, Doc, Document) /\ DOMAIN v.documents = DOMAIN w.documents
      /\ v.documents[d] = n /\ \A e \in DOMAIN w.documents \ {d} : v.documents[e] = w.documents[e]
  BY <1>3, <1>5, ExceptIn DEF Grown, Typed
<1>7. /\ Collection(v.connections, Connection, [from : Block, to : Block])
      /\ DOMAIN v.connections = DOMAIN w.connections \ cut
      /\ \A c \in DOMAIN w.connections \ cut : v.connections[c] = w.connections[c]
  <2> DEFINE V == [from : Block, to : Block]
  <2>1. Collection(w.connections, Connection, V)
    BY DEF Grown, Typed
  <2> HIDE DEF V
  <2>2. WithNone(w.connections, v.connections, Connection, V, cut)
    BY <1>5, <2>1, WithoutIn
  <2> QED
    BY <2>2 DEF V, WithNone
<1>8. Collection(v.annotations, Annotation, Block)
  <2>1. Collection(w.annotations, Annotation, Block)
    BY DEF Grown, Typed
  <2>2. WithNone(w.annotations, v.annotations, Annotation, Block, gone)
    BY <1>5, <2>1, WithoutIn
  <2> QED
    BY <2>2 DEF WithNone
<1>9. /\ Collection(v.snapshots, Snapshot, [document : Doc, blocks : SUBSET Block])
      /\ DOMAIN v.snapshots = DOMAIN w.snapshots
      /\ \A p \in DOMAIN w.snapshots : /\ w.snapshots[p] \in [document : Doc, blocks : SUBSET Block]
                                       /\ v.snapshots[p] = [w.snapshots[p] EXCEPT !.blocks = @ \ {b}]
                                       /\ v.snapshots[p].document = w.snapshots[p].document
                                       /\ v.snapshots[p].blocks = w.snapshots[p].blocks \ {b}
  <2>1. /\ DOMAIN w.snapshots \subseteq Snapshot
        /\ \A p \in DOMAIN w.snapshots : w.snapshots[p] \in [document : Doc, blocks : SUBSET Block]
    BY DEF Grown, Typed, Collection
  <2>2. DOMAIN v.snapshots = DOMAIN w.snapshots /\ v.snapshots = [p \in DOMAIN w.snapshots |-> v.snapshots[p]]
    BY <1>5
  <2>3. ASSUME NEW p \in DOMAIN w.snapshots
        PROVE  /\ v.snapshots[p] = [w.snapshots[p] EXCEPT !.blocks = @ \ {b}]
               /\ v.snapshots[p].document = w.snapshots[p].document
               /\ v.snapshots[p].blocks = w.snapshots[p].blocks \ {b}
               /\ v.snapshots[p] \in [document : Doc, blocks : SUBSET Block]
    <3>1. v.snapshots[p] = [w.snapshots[p] EXCEPT !.blocks = @ \ {b}]
      BY <1>5
    <3> QED
      BY <2>1, <3>1
  <2> QED
    BY <2>1, <2>2, <2>3 DEF Collection
<1>10. Typed(v)
  BY <1>5, <1>6, <1>7, <1>8, <1>9 DEF Typed
<1>11. /\ Before(w, d) = BlocksOf(w, d) /\ BlocksOf(v, d) = ToSet(q)
  BY <1>3, <1>6 DEF Before, BlocksOf
<1>12. ASSUME NEW c \in DOMAIN v.connections
       PROVE  /\ c \in DOMAIN w.connections /\ v.connections[c] = w.connections[c]
              /\ Ends(w, c) \subseteq Before(w, d) => Ends(w, c) \subseteq BlocksOf(v, d)
  BY <1>2, <1>7, <1>11 DEF cut
<1>13. \A c \in DOMAIN w.connections \ DOMAIN v.connections : Ends(w, c) \cap Before(w, d) # {}
  BY <1>7, <1>11 DEF cut
<1>14. ASSUME NEW p \in DOMAIN w.snapshots
       PROVE  /\ w.snapshots[p].document = d => v.snapshots[p].blocks \subseteq BlocksOf(v, d)
              /\ w.snapshots[p].document # d => v.snapshots[p] = w.snapshots[p]
  <2>1. w.snapshots[p].document \in DOMAIN w.documents /\ w.snapshots[p].blocks \subseteq BlocksOf(w, w.snapshots[p].document)
    BY DEF Grown, Snapshots
  <2>2. CASE w.snapshots[p].document = d
    <3>1. w.snapshots[p].blocks \subseteq BlocksOf(w, d)
      BY <2>1, <2>2
    <3>2. v.snapshots[p].blocks = w.snapshots[p].blocks \ {b}
      BY <1>9
    <3>3. v.snapshots[p].blocks \subseteq BlocksOf(v, d)
      BY <1>2, <1>11, <3>1, <3>2
    <3> QED
      BY <2>2, <3>3
  <2>3. CASE w.snapshots[p].document # d
    <3>1. b \notin w.snapshots[p].blocks
      BY <2>1, <2>3 DEF Grown, Documents
    <3> QED
      <4>1. w.snapshots[p].blocks \ {b} = w.snapshots[p].blocks
        BY <3>1
      <4>2. [w.snapshots[p] EXCEPT !.blocks = w.snapshots[p].blocks] = w.snapshots[p]
        BY <1>9
      <4> QED
        BY <1>9, <2>3, <4>1, <4>2
  <2> QED
    BY <2>2, <2>3
<1>15. \A c \in DOMAIN v.connections :
          \/ /\ c \in DOMAIN w.connections /\ v.connections[c] = w.connections[c]
             /\ Ends(w, c) \subseteq Before(w, d) => Ends(w, c) \subseteq BlocksOf(v, d)
          \/ c \in {r} /\ Ends(v, c) \subseteq BlocksOf(v, d)
  BY <1>12
<1>16. \A p \in DOMAIN w.snapshots :
          /\ v.snapshots[p].document = w.snapshots[p].document
          /\ IF w.snapshots[p].document = d THEN v.snapshots[p].blocks \subseteq BlocksOf(v, d)
             ELSE v.snapshots[p] = w.snapshots[p]
  BY <1>9, <1>14
<1>17. BlocksOf(v, d) \subseteq {r} \cup Before(w, d)
  BY <1>2, <1>11
<1>18. /\ DOMAIN v.documents = DOMAIN w.documents \cup {d}
       /\ v.documents[d].words = s /\ v.documents[d].blocks # << >> /\ IsInjective(v.documents[d].blocks)
       /\ \A e \in DOMAIN w.documents \ {d} : v.documents[e] = w.documents[e]
  BY <1>2, <1>3, <1>6
<1>19. DOMAIN v.snapshots = DOMAIN w.snapshots
  BY <1>9
<1> QED
  BY <1>10, <1>13, <1>15, <1>16, <1>17, <1>18, <1>19 DEF DocumentEdit

(* Snapshots, annotations and settings leave documents and connections.    *)
LEMMA OtherEdits ==
    ASSUME NEW w, NEW v, NEW s, Grown(w, s), Typed(v),
           v.documents = w.documents, v.connections = w.connections, Snapshots(v, s)
    PROVE  Grown(v, s)
<1>1. /\ \A d \in DOMAIN w.documents : BlocksOf(v, d) = BlocksOf(w, d)
      /\ \A c \in DOMAIN w.connections : Ends(v, c) = Ends(w, c)
  BY DEF BlocksOf, Ends
<1>2. Documents(v, s)
  BY <1>1 DEF Grown, Documents
<1>3. Connections(v, s)
  BY <1>1 DEF Grown, Connections
<1> QED
  BY <1>2, <1>3 DEF Grown

(* A snapshot under a new id.                                              *)
LEMMA SnappedEdits ==
    ASSUME NEW w, NEW s \in Side, Grown(w, s), NEW d \in DOMAIN w.documents, NEW p \in Snapshot, NewTo(w, {p}),
           NEW v, v = Snapped(w, d, p)
    PROVE  Grown(v, s) /\ Adds(w, v, {p})
<1> DEFINE r == [document |-> d, blocks |-> BlocksOf(w, d)]
           V == [document : Doc, blocks : SUBSET Block]
<1>0. Typed(w)
  BY DEF Grown
<1>1. r \in V
  BY <1>0, DocumentIs
<1>2. Collection(w.snapshots, Snapshot, V)
  BY <1>0 DEF Typed
<1>3. r.document = d /\ r.blocks = BlocksOf(w, d)
  OBVIOUS
<1>4. /\ v.documents = w.documents /\ v.connections = w.connections /\ v.annotations = w.annotations
      /\ v.snapshots = Put(w.snapshots, p, r)
      /\ v = [documents |-> v.documents, connections |-> v.connections, annotations |-> v.annotations,
              snapshots |-> v.snapshots, settings |-> v.settings]
  BY <1>0 DEF Snapped, Typed
<1> HIDE DEF r, V
<1>5. WithOne(w.snapshots, v.snapshots, Snapshot, V, p, r)
  BY <1>1, <1>2, <1>4, PutIn
<1>6. Typed(v)
  BY <1>0, <1>4, <1>5 DEF Typed, WithOne, V
<1>7. \A e \in DOMAIN w.documents : BlocksOf(v, e) = BlocksOf(w, e)
  BY <1>4 DEF BlocksOf
<1>8. Snapshots(v, s)
  <2>1. p \notin DOMAIN Base.snapshots
    BY TakenIs DEF NewTo
  <2>2. DOMAIN v.snapshots = DOMAIN w.snapshots \cup {p} /\ v.snapshots[p] = r
        /\ \A x \in DOMAIN w.snapshots \ {p} : v.snapshots[x] = w.snapshots[x]
    BY <1>5 DEF WithOne
  <2>3. DOMAIN Base.snapshots \subseteq DOMAIN v.snapshots
    BY <2>2 DEF Grown, Snapshots
  <2>4. ASSUME NEW x \in DOMAIN v.snapshots
        PROVE  /\ v.snapshots[x].document \in DOMAIN v.documents
               /\ v.snapshots[x].blocks \subseteq BlocksOf(v, v.snapshots[x].document)
               /\ x \in DOMAIN Base.snapshots =>
                     /\ v.snapshots[x].document = Base.snapshots[x].document
                     /\ v.documents[v.snapshots[x].document].words # s => v.snapshots[x] = Base.snapshots[x]
    <3>1. CASE x = p
      BY <1>3, <1>4, <1>7, <2>1, <2>2, <3>1
    <3>2. CASE x # p
      <4>1. x \in DOMAIN w.snapshots /\ v.snapshots[x] = w.snapshots[x]
        BY <2>2, <3>2
      <4> QED
        BY <1>4, <1>7, <4>1 DEF Grown, Snapshots
    <3> QED
      BY <3>1, <3>2
  <2> QED
    BY <2>3, <2>4 DEF Snapshots
<1>9. Held(v) = Held(w)
  BY <1>4, <1>7 DEF Held
<1>10. Adds(w, v, {p})
  BY <1>4, <1>5, <1>9 DEF Adds, WithOne
<1> QED
  BY <1>4, <1>6, <1>8, <1>10, OtherEdits

(* An annotation, or a setting.                                            *)
LEMMA AsideEdits ==
    ASSUME NEW w, NEW s \in Side, Grown(w, s),
           NEW v, v = [documents |-> w.documents, connections |-> w.connections, annotations |-> v.annotations,
                       snapshots |-> w.snapshots, settings |-> v.settings],
           Collection(v.annotations, Annotation, Block)
    PROVE  Grown(v, s) /\ Adds(w, v, {})
<1>1. v.documents = w.documents /\ v.connections = w.connections /\ v.snapshots = w.snapshots
  OBVIOUS
<1>2. Typed(v)
  BY <1>1 DEF Grown, Typed
<1>3. \A e \in DOMAIN w.documents : BlocksOf(v, e) = BlocksOf(w, e)
  BY <1>1 DEF BlocksOf
<1>4. Snapshots(v, s)
  BY <1>1, <1>3 DEF Grown, Snapshots
<1>5. Held(v) = Held(w)
  BY <1>1, <1>3 DEF Held
<1> QED
  BY <1>1, <1>2, <1>4, <1>5, OtherEdits DEF Adds

(* An annotation.                                                          *)
LEMMA AnnotatedEdits ==
    ASSUME NEW w, NEW s \in Side, Grown(w, s), NEW b \in Block, NEW a \in Annotation,
           NEW v, v = Annotated(w, b, a)
    PROVE  Grown(v, s) /\ Adds(w, v, {})
<1>1. Typed(w)
  BY DEF Grown
<1>2. v.annotations = Put(w.annotations, a, b) /\ Collection(w.annotations, Annotation, Block)
  BY <1>1 DEF Annotated, Typed
<1>3. Collection(v.annotations, Annotation, Block)
  <2>1. WithOne(w.annotations, Put(w.annotations, a, b), Annotation, Block, a, b)
    BY <1>2, PutIn
  <2> QED
    BY <1>2, <2>1 DEF WithOne
<1>4. v = [documents |-> w.documents, connections |-> w.connections, annotations |-> v.annotations,
           snapshots |-> w.snapshots, settings |-> v.settings]
  BY <1>1 DEF Annotated, Typed
<1> QED
  BY <1>3, <1>4, AsideEdits

(* A setting.                                                              *)
LEMMA ConfiguredEdits ==
    ASSUME NEW w, NEW s \in Side, Grown(w, s), NEW f, NEW v, v = Configured(w, s, f)
    PROVE  Grown(v, s) /\ Adds(w, v, {})
<1>1. Typed(w)
  BY DEF Grown
<1>2. v.annotations = w.annotations /\ Collection(w.annotations, Annotation, Block)
  BY <1>1 DEF Configured, Typed
<1>4. v = [documents |-> w.documents, connections |-> w.connections, annotations |-> v.annotations,
           snapshots |-> w.snapshots, settings |-> v.settings]
  BY <1>1 DEF Configured, Typed
<1> QED
  BY <1>2, <1>4, AsideEdits

-----------------------------------------------------------------------------
(* Every edit, of either side.                                             *)

NewToAll(N) == N \cap (Taken(Base) \cup Taken(local) \cup Taken(server)) = {}

(* Every edit of App is one of these, with ids that neither side has.      *)
LEMMA EditGrows ==
    ASSUME NEW w \in {local, server}, NEW s \in Side, Grown(w, s), NEW v \in Edited(w, s)
    PROVE  \E N : NewToAll(N) /\ Grown(v, s) /\ Adds(w, v, N)
<1> DEFINE Done == \E N : NewToAll(N) /\ Grown(v, s) /\ Adds(w, v, N)
<1>1. \A N : NewToAll(N) => NewTo(w, N)
  BY DEF NewToAll, NewTo
<1>2. \A S, x : x \in NewIn(S) => x \in S /\ NewToAll({x})
  BY DEF NewIn, NewToAll
<1>3. \A x, y : NewToAll({x}) /\ NewToAll({y}) => NewToAll({x, y})
  BY DEF NewToAll
<1>4. NewToAll({})
  BY DEF NewToAll
<1>5. \A d \in DOMAIN w.documents : BlocksOf(w, d) \subseteq Block
  BY DocumentIs DEF Grown
<1>6. CASE \E d \in DOMAIN w.documents : v \in {Wrote(w, s, d), Retitled(w, s, d)}
  <2>1. PICK d \in DOMAIN w.documents : v \in {Wrote(w, s, d), Retitled(w, s, d)}
    BY <1>6
  <2>2. DocumentEdit(w, v, s, d, {})
    BY <2>1, WroteEdits
  <2> QED
    BY <1>1, <1>4, <2>2, EditedGrows
<1>7. CASE \E d \in DOMAIN w.documents : \E q \in BlocksOf(w, d), b \in NewIn(Block), c \in NewIn(Connection) :
             v = Branched(w, s, d, q, b, c)
  <2>0. PICK d \in DOMAIN w.documents : \E q \in BlocksOf(w, d), b \in NewIn(Block), c \in NewIn(Connection) :
               v = Branched(w, s, d, q, b, c)
    BY <1>7
  <2>1. PICK q \in BlocksOf(w, d), b \in NewIn(Block), c \in NewIn(Connection) : v = Branched(w, s, d, q, b, c)
    BY <2>0
  <2>2. b \in Block /\ c \in Connection /\ NewToAll({b, c})
    BY <1>2, <1>3
  <2>3. DocumentEdit(w, v, s, d, {b, c})
    BY <1>1, <2>1, <2>2, BranchedEdits
  <2> QED
    BY <1>1, <2>2, <2>3, EditedGrows
<1>8. CASE \E d \in DOMAIN w.documents : \E b \in BlocksOf(w, d), r \in NewIn(Block) : v = BlockDeleted(w, s, d, b, r)
  <2>0. PICK d \in DOMAIN w.documents : \E b \in BlocksOf(w, d), r \in NewIn(Block) : v = BlockDeleted(w, s, d, b, r)
    BY <1>8
  <2>1. PICK b \in BlocksOf(w, d), r \in NewIn(Block) : v = BlockDeleted(w, s, d, b, r)
    BY <2>0
  <2>2. r \in Block /\ NewToAll({r})
    BY <1>2
  <2>3. DocumentEdit(w, v, s, d, {r})
    BY <1>1, <2>1, <2>2, DeletedEdits
  <2> QED
    BY <1>1, <2>2, <2>3, EditedGrows
<1>9. CASE \E d \in DOMAIN w.documents, p \in NewIn(Snapshot) : v = Snapped(w, d, p)
  <2>1. PICK d \in DOMAIN w.documents, p \in NewIn(Snapshot) : v = Snapped(w, d, p)
    BY <1>9
  <2>2. p \in Snapshot /\ NewToAll({p})
    BY <1>2
  <2> QED
    BY <1>1, <2>1, <2>2, SnappedEdits
<1>10. CASE \E d \in NewIn(Doc), b \in NewIn(Block) : v = Created(w, s, d, b)
  <2>1. PICK d \in NewIn(Doc), b \in NewIn(Block) : v = Created(w, s, d, b)
    BY <1>10
  <2>2. d \in Doc /\ b \in Block /\ NewToAll({d, b})
    BY <1>2, <1>3
  <2>3. DocumentEdit(w, v, s, d, {d, b})
    BY <1>1, <2>1, <2>2, CreatedEdits
  <2> QED
    BY <1>1, <2>2, <2>3, EditedGrows
<1>11. CASE \E d \in DOMAIN w.documents : \E b \in BlocksOf(w, d), a \in NewIn(Annotation) : v = Annotated(w, b, a)
  <2>0. PICK d \in DOMAIN w.documents : \E b \in BlocksOf(w, d), a \in NewIn(Annotation) : v = Annotated(w, b, a)
    BY <1>11
  <2>1. PICK b \in BlocksOf(w, d), a \in NewIn(Annotation) : v = Annotated(w, b, a)
    BY <2>0
  <2>2. a \in Annotation /\ b \in Block
    BY <1>2, <1>5
  <2> QED
    BY <1>4, <2>1, <2>2, AnnotatedEdits
<1>12. CASE \E f : v = Configured(w, s, f)
  BY <1>4, <1>12, ConfiguredEdits
<1> DEFINE Wr == \E d \in DOMAIN w.documents : v \in {Wrote(w, s, d), Retitled(w, s, d)}
           Br == \E d \in DOMAIN w.documents : \E q \in BlocksOf(w, d), b \in NewIn(Block), c \in NewIn(Connection) :
                    v = Branched(w, s, d, q, b, c)
           De == \E d \in DOMAIN w.documents : \E b \in BlocksOf(w, d), r \in NewIn(Block) :
                    v = BlockDeleted(w, s, d, b, r)
           Sn == \E d \in DOMAIN w.documents, p \in NewIn(Snapshot) : v = Snapped(w, d, p)
           Cr == \E d \in NewIn(Doc), b \in NewIn(Block) : v = Created(w, s, d, b)
           An == \E d \in DOMAIN w.documents : \E b \in BlocksOf(w, d), a \in NewIn(Annotation) : v = Annotated(w, b, a)
           Co == \E f : v = Configured(w, s, f)
<1>13. Wr \/ Br \/ De \/ Sn \/ Cr \/ An \/ Co
  <2> DEFINE wr == {Wrote(w, s, d) : d \in DOMAIN w.documents} \cup {Retitled(w, s, d) : d \in DOMAIN w.documents}
             br == UNION {{Branched(w, s, d, q, b, c) : q \in BlocksOf(w, d), b \in NewIn(Block), c \in NewIn(Connection)}
                             : d \in DOMAIN w.documents}
             de == UNION {{BlockDeleted(w, s, d, b, r) : b \in BlocksOf(w, d), r \in NewIn(Block)}
                             : d \in DOMAIN w.documents}
             sn == {Snapped(w, d, p) : d \in DOMAIN w.documents, p \in NewIn(Snapshot)}
             cr == {Created(w, s, d, b) : d \in NewIn(Doc), b \in NewIn(Block)}
             an == {Annotated(w, b, a) : b \in UNION {BlocksOf(w, d) : d \in DOMAIN w.documents}, a \in NewIn(Annotation)}
             co == {Configured(w, s, f) : f \in DOMAIN w.settings}
  <2>1. v \in wr \cup br \cup de \cup sn \cup cr \cup an \cup co
    BY DEF Edited
  <2>2. (v \in wr => Wr) /\ (v \in sn => Sn) /\ (v \in cr => Cr) /\ (v \in co => Co)
    OBVIOUS
  <2>3. v \in br => Br
    OBVIOUS
  <2>4. v \in de => De
    OBVIOUS
  <2>5. v \in an => An
    OBVIOUS
  <2> HIDE DEF wr, br, de, sn, cr, an, co, Wr, Br, De, Sn, Cr, An, Co
  <2> QED
    BY <2>1, <2>2, <2>3, <2>4, <2>5
<1>14. (Wr => Done) /\ (Br => Done) /\ (De => Done) /\ (Sn => Done)
  BY <1>6, <1>7, <1>8, <1>9
<1>15. (Cr => Done) /\ (An => Done) /\ (Co => Done)
  BY <1>10, <1>11, <1>12
<1> HIDE DEF Wr, Br, De, Sn, Cr, An, Co
<1> QED
  BY <1>13, <1>14, <1>15

-----------------------------------------------------------------------------
(* The invariant is inductive.                                             *)

(* Blocks that are held are taken.                                         *)
LEMMA HeldIsTaken == ASSUME NEW w PROVE Held(w) \subseteq Taken(w)
BY DEF Held, Taken

(* An edit with new ids leaves the sides apart.                            *)
LEMMA StaysApart ==
    ASSUME NEW w, NEW v, NEW x, NEW N, Apart(w, x), Adds(w, v, N), N \cap Taken(x) = {}
    PROVE  Apart(v, x) /\ Apart(x, v)
<1>1. Held(x) \subseteq Taken(x)
  BY HeldIsTaken
<1>2. /\ DOMAIN x.documents \subseteq Taken(x) /\ DOMAIN x.connections \subseteq Taken(x)
      /\ DOMAIN x.snapshots \subseteq Taken(x)
  BY DEF Taken
<1>3. Apart(v, x)
  BY <1>1, <1>2 DEF Apart, Adds
<1> QED
  BY <1>3 DEF Apart

LEMMA ApartIsSymmetric == ASSUME NEW v, NEW w, Apart(v, w) PROVE Apart(w, v)
BY DEF Apart

(* The base is grown from itself, without edits.                           *)
LEMMA BaseGrows == ASSUME NEW s PROVE Grown(Base, s) /\ Apart(Base, Base)
<1>1. Documents(Base, s)
  BY BaseAssumption DEF Documents
<1>2. Connections(Base, s)
  BY BaseAssumption DEF Connections
<1>3. Snapshots(Base, s)
  BY BaseAssumption DEF Snapshots
<1> QED
  BY <1>1, <1>2, <1>3, BaseAssumption DEF Grown, Apart

(* The result depends on the sides and the base only.                      *)
LEMMA StaysReconciled ==
    ASSUME UNCHANGED <<local, server>> PROVE Reconciled' = Reconciled
BY DEF Reconciled, Parses, Conf, CopiedDocuments, ReconciledConnections, ReconciledSnapshots, CopiedConnections,
       CopiedSnapshots, Links, MovedConnections, MovedSnapshots, Touching, Showing, Copied, BlocksOf, Ends

(* The invariant holds at first, ...                                       *)
LEMMA Initially == Init => ReconciliationInd
BY BaseGrows DEF Init, ReconciliationInd

(* ... and every step preserves it.                                        *)
LEMMA Stays == ReconciliationInd /\ [Next]_vars => ReconciliationInd'
<1> SUFFICES ASSUME ReconciliationInd, [Next]_vars PROVE ReconciliationInd'
  OBVIOUS
<1>0. "local" \in Side /\ "server" \in Side
  BY DEF Side
<1>1. CASE EditHere
  <2>1. local' \in Edited(local, "local") /\ server' = server /\ merged' = << >>
    BY <1>1 DEF EditHere, Count
  <2>2. Grown(local, "local")
    BY DEF ReconciliationInd
  <2>3. PICK N : NewToAll(N) /\ Grown(local', "local") /\ Adds(local, local', N)
    BY <1>0, <2>1, <2>2, EditGrows
  <2>4. N \cap Taken(server) = {} /\ Apart(local, server)
    BY <2>3 DEF NewToAll, ReconciliationInd
  <2>5. Apart(local', server)
    BY <2>3, <2>4, StaysApart
  <2> QED
    BY <2>1, <2>3, <2>5 DEF ReconciliationInd
<1>2. CASE EditThere
  <2>1. server' \in Edited(server, "server") /\ local' = local /\ merged' = << >>
    BY <1>2 DEF EditThere, Count
  <2>2. Grown(server, "server")
    BY DEF ReconciliationInd
  <2>3. PICK N : NewToAll(N) /\ Grown(server', "server") /\ Adds(server, server', N)
    BY <1>0, <2>1, <2>2, EditGrows
  <2>4. N \cap Taken(local) = {} /\ Apart(server, local)
    BY <2>3, ApartIsSymmetric DEF NewToAll, ReconciliationInd
  <2>5. Apart(local, server')
    BY <2>3, <2>4, StaysApart
  <2> QED
    BY <2>1, <2>3, <2>5 DEF ReconciliationInd
<1>3. CASE Merge
  <2>1. Reconciled' = Reconciled
    BY <1>3, StaysReconciled DEF Merge
  <2> QED
    BY <1>3, <2>1 DEF Merge, ReconciliationInd
<1>4. CASE UNCHANGED vars
  <2>1. UNCHANGED <<local, server, merged>>
    BY <1>4 DEF vars
  <2>2. Reconciled' = Reconciled
    BY <2>1, StaysReconciled
  <2> QED
    BY <2>1, <2>2 DEF ReconciliationInd
<1> QED
  BY <1>1, <1>2, <1>3, <1>4 DEF Next

(* The sides stay what edits make of the base.                             *)
THEOREM Inductive == Spec => []ReconciliationInd
<1> QED
  BY Initially, Stays, PTL DEF Spec

-----------------------------------------------------------------------------
(* The result of a merge of such sides.                                    *)

Sides == Grown(local, "local") /\ Grown(server, "server") /\ Apart(local, server)

(* The collections of the result, when the schema takes it.                *)
LEMMA ReconciledIs ==
    ASSUME Parses
    PROVE  /\ Reconciled.documents = With(ThreeWay(server.documents, local.documents, Base.documents), CopiedDocuments)
           /\ Reconciled.connections = ReconciledConnections
           /\ Reconciled.annotations = ThreeWay(server.annotations, local.annotations, Base.annotations)
           /\ Reconciled.snapshots = ReconciledSnapshots
           /\ Reconciled.settings = ThreeWay(server.settings, local.settings, Base.settings)
BY DEF Reconciled

(* A document is changed where it carries the side's stamp.                *)
LEMMA ChangedIs ==
    ASSUME NEW w, NEW s \in Side, Grown(w, s), NEW d \in DOMAIN w.documents
    PROVE  Changed(w.documents, Base.documents, d) <=> w.documents[d].words = s
<1>1. w.documents[d] \in Document
  BY DocumentIs DEF Grown
<1>2. CASE d \in DOMAIN Base.documents
  <2>1. Base.documents[d].words = "base" /\ s # "base"
    BY <1>2, BaseAssumption DEF Side
  <2>2. Changed(w.documents, Base.documents, d) <=> w.documents[d] # Base.documents[d]
    BY <1>2 DEF Changed, At
  <2>3. w.documents[d].words # s => w.documents[d] = Base.documents[d]
    BY DEF Grown, Documents
  <2> QED
    BY <2>1, <2>2, <2>3
<1>3. CASE d \notin DOMAIN Base.documents
  <2>1. w.documents[d].words = s
    BY <1>3 DEF Grown, Documents
  <2>2. Changed(w.documents, Base.documents, d)
    BY <1>1, <1>3, AbsentIsNotStored DEF Changed, At
  <2> QED
    BY <2>1, <2>2
<1> QED
  BY <1>2, <1>3

(* A side removes no document of the base.                                 *)
LEMMA AbsentIsUnchanged ==
    ASSUME NEW w, NEW s, Grown(w, s), NEW d, d \notin DOMAIN w.documents
    PROVE  ~Changed(w.documents, Base.documents, d)
BY DEF Changed, At, Grown, Documents

(* A conflict is a document of the base that both sides stamped.           *)
LEMMA ConfIs ==
    ASSUME Sides, NEW d
    PROVE  /\ d \in Conf => /\ d \in DOMAIN local.documents /\ d \in DOMAIN server.documents /\ d \in DOMAIN Base.documents
                            /\ local.documents[d].words = "local" /\ server.documents[d].words = "server" /\ d \in Doc
           /\ d \in Conf <=> /\ d \in DOMAIN local.documents /\ Changed(local.documents, Base.documents, d)
                             /\ Changed(server.documents, Base.documents, d)
<1>0. "local" \in Side /\ "server" \in Side /\ Grown(local, "local") /\ Grown(server, "server")
  BY DEF Side, Sides
<1>1. d \in Conf <=> /\ d \in DOMAIN local.documents /\ Changed(local.documents, Base.documents, d)
                     /\ Changed(server.documents, Base.documents, d)
  BY DEF Conf, Conflicts
<1>2. ASSUME d \in Conf
      PROVE  /\ d \in DOMAIN local.documents /\ d \in DOMAIN server.documents /\ d \in DOMAIN Base.documents
             /\ local.documents[d].words = "local" /\ server.documents[d].words = "server" /\ d \in Doc
  <2>1. d \in DOMAIN local.documents /\ d \in DOMAIN server.documents
    BY <1>0, <1>1, <1>2, AbsentIsUnchanged
  <2>2. d \in DOMAIN Base.documents
    BY <2>1 DEF Sides, Apart
  <2>3. local.documents[d].words = "local" /\ server.documents[d].words = "server"
    BY <1>0, <1>1, <1>2, <2>1, ChangedIs
  <2>4. d \in Doc
    BY <1>0, <2>1, DocumentIs DEF Grown
  <2> QED
    BY <2>1, <2>2, <2>3, <2>4
<1> QED
  BY <1>1, <1>2

(* Ids of the sides are no copies' ids.                                    *)
LEMMA DocumentCopies ==
    ASSUME Sides
    PROVE  /\ DOMAIN CopiedDocuments = {Fresh(d, 1) : d \in Conf}
           /\ \A d \in Conf : /\ Fresh(d, 1) \notin Doc /\ Original(Fresh(d, 1)) = d
                              /\ CopiedDocuments[Fresh(d, 1)] =
                                   [local.documents[d] EXCEPT !.blocks = [i \in DOMAIN @ |-> Fresh(@[i], 1)]]
<1>1. \A d \in Conf : Fresh(d, 1) \notin Doc
  BY ConfIs, CopiesAreNew DEF Fresh
<1>2. \A d : Original(Fresh(d, 1)) = d
  BY DEF Fresh, Original
<1>3. DOMAIN CopiedDocuments = {Fresh(d, 1) : d \in Conf}
  BY DEF CopiedDocuments
<1>4. ASSUME NEW d \in Conf
      PROVE  CopiedDocuments[Fresh(d, 1)] =
                [local.documents[d] EXCEPT !.blocks = [i \in DOMAIN @ |-> Fresh(@[i], 1)]]
  BY <1>2 DEF CopiedDocuments
<1> QED
  BY <1>1, <1>2, <1>3, <1>4

(* Where the sides' documents are in the result.                           *)
LEMMA ResultDocument ==
    ASSUME Sides, Parses, NEW d \in DOMAIN local.documents \cup DOMAIN server.documents
    PROVE  /\ d \in DOMAIN Reconciled.documents
           /\ IF Changed(server.documents, Base.documents, d)
              THEN d \in DOMAIN server.documents /\ Reconciled.documents[d] = server.documents[d]
              ELSE d \in DOMAIN local.documents /\ Reconciled.documents[d] = local.documents[d]
<1> DEFINE T == ThreeWay(server.documents, local.documents, Base.documents)
<1>0. /\ "local" \in Side /\ "server" \in Side /\ Grown(local, "local") /\ Grown(server, "server")
      /\ Typed(local) /\ Typed(server)
  BY DEF Side, Sides, Grown
<1>1. At(T, d) = IF Changed(server.documents, Base.documents, d) THEN At(server.documents, d) ELSE At(local.documents, d)
  BY ThreeWayAt
<1>2. d \in Doc
  BY <1>0, DocumentIs
<1>3. d \notin DOMAIN CopiedDocuments
  <2>1. DOMAIN CopiedDocuments = {Fresh(c, 1) : c \in Conf} /\ \A c \in Conf : Fresh(c, 1) \notin Doc
    BY DocumentCopies
  <2> QED
    BY <1>2, <2>1
<1>4. Reconciled.documents = With(T, CopiedDocuments)
  BY ReconciledIs
<1> HIDE DEF T
<1>5. d \in DOMAIN T => d \in DOMAIN Reconciled.documents /\ Reconciled.documents[d] = T[d]
  BY <1>3, <1>4 DEF With
<1>6. CASE Changed(server.documents, Base.documents, d)
  <2>1. d \in DOMAIN server.documents
    BY <1>0, <1>6, AbsentIsUnchanged
  <2>2. server.documents[d] # Absent
    BY <1>0, <2>1, DocumentIs, AbsentIsNotStored
  <2> QED
    BY <1>1, <1>5, <1>6, <2>1, <2>2 DEF At
<1>7. CASE ~Changed(server.documents, Base.documents, d)
  <2>1. d \in DOMAIN local.documents
    <3>1. CASE d \in DOMAIN server.documents
      <4>1. d \in DOMAIN Base.documents
        BY <1>0, <1>7, <3>1, ChangedIs DEF Grown, Documents
      <4> QED
        BY <1>0, <4>1 DEF Grown, Documents
    <3> QED
      BY <3>1
  <2>2. local.documents[d] # Absent
    BY <1>0, <2>1, DocumentIs, AbsentIsNotStored
  <2> QED
    BY <1>1, <1>5, <1>7, <2>1, <2>2 DEF At
<1> QED
  BY <1>6, <1>7

(* The copy of a conflict holds the words and blocks of the device.        *)
LEMMA ResultCopy ==
    ASSUME Sides, Parses, NEW d \in Conf
    PROVE  /\ Fresh(d, 1) \in DOMAIN Reconciled.documents
           /\ Reconciled.documents[Fresh(d, 1)].words = "local"
           /\ Len(Reconciled.documents[Fresh(d, 1)].blocks) = Len(local.documents[d].blocks)
           /\ BlocksOf(Reconciled, Fresh(d, 1)) = {Fresh(b, 1) : b \in BlocksOf(local, d)}
<1> DEFINE a == local.documents[d]
           r == Reconciled.documents[Fresh(d, 1)]
           p == [i \in DOMAIN a.blocks |-> Fresh(a.blocks[i], 1)]
<1>1. a.words = "local" /\ d \in DOMAIN local.documents
  BY ConfIs
<1>2. a \in Document /\ a.blocks \in Seq(Block)
  BY <1>1, DocumentIs DEF Sides, Grown
<1>3. Fresh(d, 1) \in DOMAIN Reconciled.documents /\ r = [a EXCEPT !.blocks = p]
  <2> DEFINE T == ThreeWay(server.documents, local.documents, Base.documents)
  <2>1. Reconciled.documents = With(T, CopiedDocuments)
    BY ReconciledIs
  <2>2. Fresh(d, 1) \in DOMAIN CopiedDocuments /\ CopiedDocuments[Fresh(d, 1)] = [a EXCEPT !.blocks = p]
    BY DocumentCopies
  <2> HIDE DEF T
  <2>3. Fresh(d, 1) \in DOMAIN Reconciled.documents /\ r = CopiedDocuments[Fresh(d, 1)]
    BY <2>1, <2>2 DEF With
  <2> QED
    BY <2>2, <2>3
<1>4. r.words = "local" /\ r.blocks = p
  BY <1>1, <1>2, <1>3 DEF Document
<1>5. Len(a.blocks) \in Nat /\ DOMAIN a.blocks = 1 .. Len(a.blocks)
  BY <1>2
<1>6. Len(p) = Len(a.blocks) /\ DOMAIN p = DOMAIN a.blocks
  BY <1>5
<1>7. BlocksOf(Reconciled, Fresh(d, 1)) = {Fresh(b, 1) : b \in BlocksOf(local, d)}
  BY <1>4, <1>6 DEF BlocksOf, ToSet
<1> QED
  BY <1>3, <1>4, <1>6, <1>7

(* A merge that returned has the result of sides that are such.            *)
LEMMA ReturnedIs == ASSUME ReconciliationInd, Returned PROVE Sides /\ Parses /\ M = Reconciled
<1>1. merged = <<Reconciled>> /\ Reconciled # NoResult
  BY DEF ReconciliationInd, Returned
<1>2. Parses
  BY <1>1 DEF Reconciled
<1>3. M = Reconciled
  BY <1>1 DEF M
<1> QED
  BY <1>2, <1>3 DEF ReconciliationInd, Sides

-----------------------------------------------------------------------------
(* The properties of a merge.                                              *)

(* The three properties, of any two sides that satisfy the invariant.      *)
LEMMA WordsKept == ReconciliationInd => WordsSurvive
<1> SUFFICES ASSUME ReconciliationInd, Returned
             PROVE  /\ \A d \in DOMAIN local.documents : Changed(local.documents, Base.documents, d) =>
                          \E x \in DOMAIN M.documents :
                             /\ M.documents[x].words = local.documents[d].words
                             /\ \/ x = d /\ M.documents[x].blocks = local.documents[d].blocks
                                \/ x = Fresh(d, 1) /\ Len(M.documents[x].blocks) = Len(local.documents[d].blocks)
                    /\ \A d \in DOMAIN server.documents : Changed(server.documents, Base.documents, d) =>
                          At(M.documents, d) = server.documents[d]
  BY DEF WordsSurvive
<1> DEFINE R == Reconciled
<1>1. Sides /\ Parses /\ M = R
  BY ReturnedIs
<1>2. ASSUME NEW d \in DOMAIN local.documents, Changed(local.documents, Base.documents, d)
      PROVE  \E x \in DOMAIN R.documents :
                /\ R.documents[x].words = local.documents[d].words
                /\ \/ x = d /\ R.documents[x].blocks = local.documents[d].blocks
                   \/ x = Fresh(d, 1) /\ Len(R.documents[x].blocks) = Len(local.documents[d].blocks)
  <2>1. CASE Changed(server.documents, Base.documents, d)
    <3>1. d \in Conf /\ local.documents[d].words = "local"
      BY <1>1, <1>2, <2>1, ConfIs
    <3>2. /\ Fresh(d, 1) \in DOMAIN R.documents /\ R.documents[Fresh(d, 1)].words = "local"
          /\ Len(R.documents[Fresh(d, 1)].blocks) = Len(local.documents[d].blocks)
      BY <1>1, <3>1, ResultCopy
    <3> QED
      BY <3>1, <3>2
  <2>2. CASE ~Changed(server.documents, Base.documents, d)
    <3>1. d \in DOMAIN R.documents /\ R.documents[d] = local.documents[d]
      BY <1>1, <2>2, ResultDocument
    <3> QED
      BY <3>1
  <2> QED
    BY <2>1, <2>2
<1>3. ASSUME NEW d \in DOMAIN server.documents, Changed(server.documents, Base.documents, d)
      PROVE  At(R.documents, d) = server.documents[d]
  <2>1. d \in DOMAIN R.documents /\ R.documents[d] = server.documents[d]
    BY <1>1, <1>3, ResultDocument
  <2> QED
    BY <2>1 DEF At
<1> HIDE DEF R
<1> QED
  BY <1>1, <1>2, <1>3

LEMMA ChangesCombined == ReconciliationInd => IndependentChangesCombine
<1> SUFFICES ASSUME ReconciliationInd, Returned
             PROVE  /\ \A x \in DOMAIN M.documents \ Doc :
                          /\ local.documents[Original(x)].words = "local"
                          /\ server.documents[Original(x)].words = "server"
                    /\ OneSided(M.settings, server.settings, local.settings, Base.settings)
                    /\ OneSided(M.annotations, server.annotations, local.annotations, Base.annotations)
  BY DEF IndependentChangesCombine
<1> DEFINE R == Reconciled
           T == ThreeWay(server.documents, local.documents, Base.documents)
<1>1. Sides /\ Parses /\ M = R
  BY ReturnedIs
<1>2. ASSUME NEW x \in DOMAIN R.documents \ Doc
      PROVE  local.documents[Original(x)].words = "local" /\ server.documents[Original(x)].words = "server"
  <2>1. DOMAIN T \subseteq Doc
    <3>1. DOMAIN local.documents \subseteq Doc /\ DOMAIN server.documents \subseteq Doc
      BY <1>1 DEF Sides, Grown, Typed, Collection
    <3>2. DOMAIN T \subseteq DOMAIN server.documents \cup DOMAIN local.documents
      BY ThreeWayIds
    <3> QED
      BY <3>1, <3>2
  <2>2. R.documents = With(T, CopiedDocuments)
    BY <1>1, ReconciledIs
  <2> HIDE DEF T
  <2>3. x \in DOMAIN CopiedDocuments
    BY <2>1, <2>2 DEF With
  <2>4. /\ DOMAIN CopiedDocuments = {Fresh(d, 1) : d \in Conf}
        /\ \A d \in Conf : Original(Fresh(d, 1)) = d
    BY <1>1, DocumentCopies
  <2>5. Original(x) \in Conf
    BY <2>3, <2>4
  <2> QED
    BY <1>1, <2>5, ConfIs
<1>3. \A s, l, b : OneSided(ThreeWay(s, l, b), s, l, b)
  BY ThreeWayAt DEF OneSided
<1>4. /\ R.settings = ThreeWay(server.settings, local.settings, Base.settings)
      /\ R.annotations = ThreeWay(server.annotations, local.annotations, Base.annotations)
  BY <1>1, ReconciledIs
<1> HIDE DEF R
<1> QED
  BY <1>1, <1>2, <1>3, <1>4

-----------------------------------------------------------------------------
(* What hangs on the words.                                                *)

(* What only the server has is taken as it is.                             *)
LEMMA ThreeWayNew ==
    ASSUME NEW s, NEW l, NEW b, NEW x \in DOMAIN s, x \notin DOMAIN l, x \notin DOMAIN b
    PROVE  x \in DOMAIN ThreeWay(s, l, b) /\ ThreeWay(s, l, b)[x] = s[x]
BY DEF ThreeWay, LocalWins, LocalDrops

(* A value of the result is the server's, or a change of the device.       *)
LEMMA ThreeWayFrom ==
    ASSUME NEW s, NEW l, NEW b, NEW x \in DOMAIN ThreeWay(s, l, b)
    PROVE  /\ \/ x \in DOMAIN s /\ ThreeWay(s, l, b)[x] = s[x]
              \/ /\ x \in DOMAIN l /\ ThreeWay(s, l, b)[x] = l[x]
                 /\ Changed(l, b, x) /\ ~Changed(s, b, x)
           /\ ~Changed(s, b, x) /\ x \in DOMAIN b => x \in DOMAIN l
BY DEF ThreeWay, LocalWins, LocalDrops

ServerConnections == With(With(server.connections, CopiedConnections), Links)
LocalConnections == Without(local.connections, MovedConnections)
BaseConnections == Without(Base.connections, MovedConnections)

ServerSnapshots == With(server.snapshots, CopiedSnapshots)
LocalSnapshots == Without(local.snapshots, MovedSnapshots)
BaseSnapshots == Without(Base.snapshots, MovedSnapshots)

(* The parts of the invariant.                                             *)
LEMMA SidesAre ==
    ASSUME Sides
    PROVE  /\ "local" \in Side /\ "server" \in Side
           /\ Typed(local) /\ Documents(local, "local") /\ Connections(local, "local") /\ Snapshots(local, "local")
           /\ Typed(server) /\ Documents(server, "server") /\ Connections(server, "server") /\ Snapshots(server, "server")
           /\ Apart(local, server) /\ Grown(local, "local") /\ Grown(server, "server")
BY DEF Sides, Grown, Side

(* What a workspace holds as a connection, and as a snapshot.              *)
LEMMA ConnectionIs ==
    ASSUME NEW w, Typed(w), NEW c \in DOMAIN w.connections
    PROVE  c \in Connection /\ w.connections[c] \in [from : Block, to : Block]
BY DEF Typed, Collection

LEMMA SnapshotIs ==
    ASSUME NEW w, Typed(w), NEW p \in DOMAIN w.snapshots
    PROVE  p \in Snapshot /\ w.snapshots[p] \in [document : Doc, blocks : SUBSET Block]
BY DEF Typed, Collection

(* A connection of the device that touches a document lies in it.          *)
LEMMA TouchingIs ==
    ASSUME Sides, NEW d \in DOMAIN local.documents, NEW c \in Touching(d)
    PROVE  /\ c \in DOMAIN local.connections /\ Ends(local, c) \subseteq BlocksOf(local, d)
           /\ \A e \in DOMAIN local.documents : c \in Touching(e) => e = d
<1>1. c \in DOMAIN local.connections /\ Ends(local, c) \cap BlocksOf(local, d) # {}
  BY DEF Touching
<1>2. PICK f \in DOMAIN local.documents : Ends(local, c) \subseteq BlocksOf(local, f)
  BY <1>1, SidesAre DEF Connections
<1>3. \A e \in DOMAIN local.documents : c \in Touching(e) => e = f
  BY <1>2, SidesAre, OneDocument DEF Touching
<1> QED
  BY <1>1, <1>2, <1>3

(* A snapshot of the device that shows a document is of it.                *)
LEMMA ShowingIs ==
    ASSUME Sides, NEW d \in DOMAIN local.documents, NEW p \in Showing(d)
    PROVE  /\ p \in DOMAIN local.snapshots /\ local.snapshots[p].document = d
           /\ local.snapshots[p].blocks \subseteq BlocksOf(local, d)
           /\ \A e \in DOMAIN local.documents : p \in Showing(e) => e = d
<1>1. p \in DOMAIN local.snapshots /\ local.snapshots[p].blocks \cap BlocksOf(local, d) # {}
  BY DEF Showing
<1>2. PICK f \in DOMAIN local.documents : f = local.snapshots[p].document /\ local.snapshots[p].blocks \subseteq BlocksOf(local, f)
  BY <1>1, SidesAre DEF Snapshots
<1>3. \A e \in DOMAIN local.documents : p \in Showing(e) => e = f
  BY <1>2, SidesAre, OneDocument DEF Showing
<1> QED
  BY <1>1, <1>2, <1>3

(* The copies of a conflict's connections and snapshots.                   *)
LEMMA ConnectionCopy ==
    ASSUME Sides, NEW d \in Conf, NEW c \in Touching(d)
    PROVE  /\ Fresh(c, 1) \in DOMAIN CopiedConnections
           /\ CopiedConnections[Fresh(c, 1)] =
                [from |-> Fresh(local.connections[c].from, 1), to |-> Fresh(local.connections[c].to, 1)]
<1> DEFINE y == Fresh(c, 1)
           e == CHOOSE x \in Conf : c \in Touching(x)
<1>1. c \in MovedConnections
  BY DEF MovedConnections
<1>2. Original(y) = c
  BY DEF Fresh, Original
<1>3. Conf \subseteq DOMAIN local.documents
  BY ConfIs
<1>4. e = d
  <2>1. e \in Conf /\ c \in Touching(e)
    OBVIOUS
  <2> HIDE DEF e
  <2> QED
    BY <1>3, <2>1, TouchingIs
<1>5. Ends(local, c) \subseteq BlocksOf(local, d)
  BY <1>3, TouchingIs
<1>6. Copied(d, local.connections[c].from) = Fresh(local.connections[c].from, 1)
      /\ Copied(d, local.connections[c].to) = Fresh(local.connections[c].to, 1)
  BY <1>5 DEF Copied, Ends
<1>7. y \in DOMAIN CopiedConnections
      /\ CopiedConnections[y] = [from |-> Copied(e, local.connections[c].from), to |-> Copied(e, local.connections[c].to)]
  BY <1>1, <1>2 DEF CopiedConnections
<1> HIDE DEF y, e
<1> QED
  BY <1>4, <1>6, <1>7 DEF y

LEMMA SnapshotCopy ==
    ASSUME Sides, NEW d \in Conf, NEW p \in Showing(d)
    PROVE  /\ Fresh(p, 1) \in DOMAIN CopiedSnapshots
           /\ CopiedSnapshots[Fresh(p, 1)] =
                [document |-> Fresh(d, 1), blocks |-> {Fresh(b, 1) : b \in local.snapshots[p].blocks}]
<1> DEFINE y == Fresh(p, 1)
           e == CHOOSE x \in Conf : p \in Showing(x)
           B == local.snapshots[p].blocks
<1>1. p \in MovedSnapshots
  BY DEF MovedSnapshots
<1>2. Original(y) = p
  BY DEF Fresh, Original
<1>3. Conf \subseteq DOMAIN local.documents
  BY ConfIs
<1>4. e = d
  <2>1. e \in Conf /\ p \in Showing(e)
    OBVIOUS
  <2> HIDE DEF e
  <2> QED
    BY <1>3, <2>1, ShowingIs
<1>5. B \subseteq BlocksOf(local, d)
  BY <1>3, ShowingIs
<1>6. {Copied(d, b) : b \in B} = {Fresh(b, 1) : b \in B}
  BY <1>5 DEF Copied
<1>7. y \in DOMAIN CopiedSnapshots /\ CopiedSnapshots[y] = [document |-> Fresh(e, 1), blocks |-> {Copied(e, b) : b \in B}]
  BY <1>1, <1>2 DEF CopiedSnapshots
<1> HIDE DEF y, e, B
<1> QED
  BY <1>4, <1>6, <1>7 DEF y, B

(* Ids of the sides are no copies' ids, and no links'.                     *)
LEMMA CopiesApart ==
    ASSUME Sides
    PROVE  /\ \A y \in Connection : y \notin DOMAIN CopiedConnections /\ y \notin DOMAIN Links
           /\ \A y \in Snapshot : y \notin DOMAIN CopiedSnapshots
           /\ \A y \in DOMAIN CopiedConnections : y \notin DOMAIN Links /\ y \notin Connection
           /\ \A y \in DOMAIN CopiedSnapshots : y \notin Snapshot
<1>1. MovedConnections \subseteq Connection /\ MovedSnapshots \subseteq Snapshot /\ Conf \subseteq Doc
  BY SidesAre, ConnectionIs, SnapshotIs, ConfIs DEF MovedConnections, MovedSnapshots, Touching, Showing
<1>2. /\ DOMAIN CopiedConnections \subseteq Connection \X {1}
      /\ DOMAIN CopiedSnapshots \subseteq Snapshot \X {1}
      /\ DOMAIN Links \subseteq Doc \X {2}
  BY <1>1 DEF CopiedConnections, CopiedSnapshots, Links, Fresh
<1>3. (Connection \X {1}) \cap (Doc \X {2}) = {}
  OBVIOUS
<1> QED
  BY <1>2, <1>3, CopiesAreNew

(* The merges of connections and snapshots.                                *)
LEMMA ReconciledHas ==
    ASSUME Parses
    PROVE  /\ Reconciled.connections = ThreeWay(ServerConnections, LocalConnections, BaseConnections)
           /\ Reconciled.snapshots = ThreeWay(ServerSnapshots, LocalSnapshots, BaseSnapshots)
BY ReconciledIs DEF ReconciledConnections, ReconciledSnapshots, ServerConnections, LocalConnections, BaseConnections,
                    ServerSnapshots, LocalSnapshots, BaseSnapshots

(* What the merge is given at an id of the sides.                          *)
LEMMA GivenConnection ==
    ASSUME Sides, NEW c \in Connection
    PROVE  /\ At(ServerConnections, c) = At(server.connections, c)
           /\ c \in DOMAIN ServerConnections <=> c \in DOMAIN server.connections
           /\ c \notin MovedConnections => /\ At(LocalConnections, c) = At(local.connections, c)
                                           /\ At(BaseConnections, c) = At(Base.connections, c)
           /\ c \in MovedConnections => c \notin DOMAIN LocalConnections /\ c \notin DOMAIN BaseConnections
<1>1. c \notin DOMAIN CopiedConnections /\ c \notin DOMAIN Links
  BY CopiesApart
<1>2. At(ServerConnections, c) = At(server.connections, c)
      /\ (c \in DOMAIN ServerConnections <=> c \in DOMAIN server.connections)
  BY <1>1 DEF ServerConnections, With, At
<1>3. /\ c \notin MovedConnections => /\ At(LocalConnections, c) = At(local.connections, c)
                                      /\ At(BaseConnections, c) = At(Base.connections, c)
      /\ c \in MovedConnections => c \notin DOMAIN LocalConnections /\ c \notin DOMAIN BaseConnections
  BY DEF LocalConnections, BaseConnections, Without, At
<1> QED
  BY <1>2, <1>3

LEMMA GivenSnapshot ==
    ASSUME Sides, NEW p \in Snapshot
    PROVE  /\ At(ServerSnapshots, p) = At(server.snapshots, p)
           /\ p \notin MovedSnapshots => /\ At(LocalSnapshots, p) = At(local.snapshots, p)
                                         /\ At(BaseSnapshots, p) = At(Base.snapshots, p)
<1>1. p \notin DOMAIN CopiedSnapshots
  BY CopiesApart
<1>2. At(ServerSnapshots, p) = At(server.snapshots, p)
  BY <1>1 DEF ServerSnapshots, With, At
<1> QED
  BY <1>2 DEF LocalSnapshots, BaseSnapshots, Without, At

(* What hangs on a conflict moves to the copy.                             *)
LEMMA ResultConnectionCopy ==
    ASSUME Sides, Parses, NEW d \in Conf, NEW c \in Touching(d)
    PROVE  /\ Fresh(c, 1) \in DOMAIN Reconciled.connections
           /\ Ends(Reconciled, Fresh(c, 1)) \subseteq BlocksOf(Reconciled, Fresh(d, 1))
<1> DEFINE y == Fresh(c, 1)
           k == local.connections[c]
<1>0. d \in DOMAIN local.documents
  BY ConfIs
<1>1. y \in DOMAIN CopiedConnections /\ CopiedConnections[y] = [from |-> Fresh(k.from, 1), to |-> Fresh(k.to, 1)]
  BY ConnectionCopy
<1> HIDE DEF y, k
<1>2. y \notin DOMAIN Links /\ y \notin Connection
  BY <1>1, CopiesApart
<1>3. y \in DOMAIN ServerConnections /\ ServerConnections[y] = CopiedConnections[y]
  BY <1>1, <1>2 DEF ServerConnections, With
<1>4. y \notin DOMAIN LocalConnections /\ y \notin DOMAIN BaseConnections
  <2>1. DOMAIN local.connections \subseteq Connection /\ DOMAIN Base.connections \subseteq Connection
    BY SidesAre, BaseAssumption DEF Typed, Collection
  <2> QED
    BY <1>2, <2>1 DEF LocalConnections, BaseConnections, Without
<1>5. y \in DOMAIN Reconciled.connections /\ Reconciled.connections[y] = CopiedConnections[y]
  BY <1>3, <1>4, ReconciledHas, ThreeWayNew
<1>6. Ends(Reconciled, y) = {Fresh(k.from, 1), Fresh(k.to, 1)}
  BY <1>1, <1>5 DEF Ends
<1>7. k.from \in BlocksOf(local, d) /\ k.to \in BlocksOf(local, d)
  BY <1>0, TouchingIs DEF Ends, k
<1>8. BlocksOf(Reconciled, Fresh(d, 1)) = {Fresh(b, 1) : b \in BlocksOf(local, d)}
  BY ResultCopy
<1> QED
  BY <1>5, <1>6, <1>7, <1>8 DEF y

(* Copies are as many as what they are copies of.                          *)
LEMMA SameSize == ASSUME NEW B, IsFiniteSet(B) PROVE Cardinality({Fresh(b, 1) : b \in B}) = Cardinality(B)
<1> DEFINE C == {Fresh(b, 1) : b \in B}
           f == [b \in B |-> Fresh(b, 1)]
<1>1. f \in Bijection(B, C)
  <2>1. f \in [B -> C] /\ \A x \in C : \E b \in B : f[b] = x
    OBVIOUS
  <2>2. \A a, b \in B : f[a] = f[b] => a = b
    BY DEF Fresh
  <2> QED
    BY <2>1, <2>2 DEF Bijection, Injection, Surjection, IsInjective
<1> HIDE DEF C, f
<1>2. Cardinality(C) = Cardinality(B)
  BY <1>1, FS_Bijection DEF ExistsBijection
<1> QED
  BY <1>2 DEF C

(* A document holds finitely many blocks.                                  *)
LEMMA BlocksAreFinite == ASSUME NEW w, Typed(w), NEW d \in DOMAIN w.documents PROVE IsFiniteSet(BlocksOf(w, d))
<1> DEFINE q == w.documents[d].blocks
<1>1. q \in Seq(Block)
  BY DocumentIs
<1> HIDE DEF q
<1>2. Len(q) \in Nat /\ DOMAIN q = 1 .. Len(q)
  BY <1>1
<1>3. IsFiniteSet(1 .. Len(q))
  BY <1>2, FS_Interval
<1>4. IsFiniteSet({q[i] : i \in 1 .. Len(q)})
  <2> DEFINE D == 1 .. Len(q)
             I == {q[i] : i \in D}
  <2>1. [i \in D |-> q[i]] \in Surjection(D, I)
    BY DEF Surjection
  <2>2. IsFiniteSet(D)
    BY <1>3
  <2> HIDE DEF D, I
  <2>3. IsFiniteSet(I)
    BY <2>1, <2>2, FS_Surjection
  <2> QED
    BY <2>3 DEF I, D
<1> QED
  BY <1>2, <1>4 DEF BlocksOf, ToSet, q

(* A snapshot of a conflict shows the copies of its blocks.                *)
LEMMA ResultSnapshotCopy ==
    ASSUME Sides, Parses, NEW d \in Conf, NEW p \in Showing(d)
    PROVE  /\ Fresh(p, 1) \in DOMAIN Reconciled.snapshots
           /\ Reconciled.snapshots[Fresh(p, 1)].document = Fresh(d, 1)
           /\ Reconciled.snapshots[Fresh(p, 1)].blocks \subseteq BlocksOf(Reconciled, Fresh(d, 1))
           /\ Cardinality(Reconciled.snapshots[Fresh(p, 1)].blocks) = Cardinality(local.snapshots[p].blocks)
<1> DEFINE y == Fresh(p, 1)
           B == local.snapshots[p].blocks
           C == {Fresh(b, 1) : b \in B}
<1>0. d \in DOMAIN local.documents
  BY ConfIs
<1>1. y \in DOMAIN CopiedSnapshots /\ CopiedSnapshots[y] = [document |-> Fresh(d, 1), blocks |-> C]
  BY SnapshotCopy
<1> HIDE DEF y, B
<1>2. y \notin Snapshot
  BY <1>1, CopiesApart
<1>3. y \in DOMAIN ServerSnapshots /\ ServerSnapshots[y] = CopiedSnapshots[y]
  BY <1>1, <1>2 DEF ServerSnapshots, With
<1>4. y \notin DOMAIN LocalSnapshots /\ y \notin DOMAIN BaseSnapshots
  <2>1. DOMAIN local.snapshots \subseteq Snapshot /\ DOMAIN Base.snapshots \subseteq Snapshot
    BY SidesAre, BaseAssumption DEF Typed, Collection
  <2> QED
    BY <1>2, <2>1 DEF LocalSnapshots, BaseSnapshots, Without
<1>5. y \in DOMAIN Reconciled.snapshots /\ Reconciled.snapshots[y] = CopiedSnapshots[y]
  BY <1>3, <1>4, ReconciledHas, ThreeWayNew
<1>6. B \subseteq BlocksOf(local, d)
  BY <1>0, ShowingIs DEF B
<1>7. BlocksOf(Reconciled, Fresh(d, 1)) = {Fresh(b, 1) : b \in BlocksOf(local, d)}
  BY ResultCopy
<1>8. IsFiniteSet(B)
  <2>1. IsFiniteSet(BlocksOf(local, d))
    BY <1>0, SidesAre, BlocksAreFinite
  <2> QED
    BY <1>6, <2>1, FS_Subset
<1>9. Cardinality(C) = Cardinality(B)
  BY <1>8, SameSize
<1>10. C \subseteq BlocksOf(Reconciled, Fresh(d, 1))
  BY <1>6, <1>7
<1> HIDE DEF C
<1> QED
  BY <1>1, <1>5, <1>9, <1>10 DEF y, B

(* A document the server has not changed keeps what hangs on it here.      *)
LEMMA ResultConnectionKept ==
    ASSUME Sides, Parses, NEW d \in DOMAIN local.documents, ~Changed(server.documents, Base.documents, d),
           NEW c \in Touching(d)
    PROVE  c \in DOMAIN Reconciled.connections /\ Ends(Reconciled, c) = Ends(local, c)
<1>1. /\ c \in DOMAIN local.connections /\ Ends(local, c) \subseteq BlocksOf(local, d)
      /\ \A e \in DOMAIN local.documents : c \in Touching(e) => e = d
  BY TouchingIs
<1>2. c \in Connection /\ local.connections[c] \in [from : Block, to : Block]
  BY <1>1, SidesAre, ConnectionIs
<1>3. c \notin MovedConnections
  BY <1>1, ConfIs DEF MovedConnections
<1>4. At(server.connections, c) = At(Base.connections, c)
  <2>1. CASE c \in DOMAIN Base.connections
    <3>1. local.connections[c] = Base.connections[c]
      BY <1>1, <2>1, SidesAre DEF Connections
    <3>2. CASE c \in DOMAIN server.connections
      BY <2>1, <3>2, SidesAre DEF Connections, At
    <3>3. CASE c \notin DOMAIN server.connections
      <4>1. Ends(Base, c) = Ends(local, c)
        BY <3>1 DEF Ends
      <4>2. PICK e \in DOMAIN Base.documents : Ends(Base, c) \subseteq BlocksOf(Base, e)
        BY <2>1, BaseAssumption
      <4>3. Ends(Base, c) # {}
        BY DEF Ends
      <4>4. BlocksOf(local, d) \cap BlocksOf(Base, e) # {}
        BY <1>1, <4>1, <4>2, <4>3
      <4>5. e = d
        BY <4>4, SidesAre DEF Documents
      <4>6. server.documents[d].words = "server" /\ d \in DOMAIN server.documents
        BY <2>1, <3>3, <4>2, <4>3, <4>5, SidesAre DEF Connections, Documents
      <4> QED
        BY <4>6, SidesAre, ChangedIs
    <3> QED
      BY <3>2, <3>3
  <2>2. CASE c \notin DOMAIN Base.connections
    BY <1>1, <2>2, SidesAre DEF Apart, At
  <2> QED
    BY <2>1, <2>2
<1>5. ~Changed(ServerConnections, BaseConnections, c) /\ At(LocalConnections, c) = local.connections[c]
  <2>1. At(ServerConnections, c) = At(server.connections, c)
        /\ At(BaseConnections, c) = At(Base.connections, c) /\ At(LocalConnections, c) = At(local.connections, c)
    BY <1>2, <1>3, GivenConnection
  <2> QED
    BY <1>1, <1>4, <2>1 DEF Changed, At
<1>6. At(Reconciled.connections, c) = local.connections[c]
  BY <1>5, ReconciledHas, ThreeWayAt
<1>7. local.connections[c] # Absent
  BY <1>2, AbsentIsNotStored
<1> QED
  BY <1>6, <1>7 DEF At, Ends

(* ... and its snapshots as they are.                                      *)
LEMMA ResultSnapshotKept ==
    ASSUME Sides, Parses, NEW d \in DOMAIN local.documents, ~Changed(server.documents, Base.documents, d),
           NEW p \in Showing(d)
    PROVE  p \in DOMAIN Reconciled.snapshots /\ Reconciled.snapshots[p] = local.snapshots[p]
<1>1. /\ p \in DOMAIN local.snapshots /\ local.snapshots[p].document = d
      /\ \A e \in DOMAIN local.documents : p \in Showing(e) => e = d
  BY ShowingIs
<1>2. p \in Snapshot /\ local.snapshots[p] \in [document : Doc, blocks : SUBSET Block]
  BY <1>1, SidesAre, SnapshotIs
<1>3. p \notin MovedSnapshots
  BY <1>1, ConfIs DEF MovedSnapshots
<1>4. At(server.snapshots, p) = At(Base.snapshots, p)
  <2>1. CASE p \in DOMAIN Base.snapshots
    <3>1. p \in DOMAIN server.snapshots /\ server.snapshots[p].document = d /\ d \in DOMAIN server.documents
      BY <1>1, <2>1, SidesAre DEF Snapshots
    <3>2. server.documents[d].words # "server"
      BY <3>1, SidesAre, ChangedIs
    <3>3. server.snapshots[p] = Base.snapshots[p]
      BY <2>1, <3>1, <3>2, SidesAre DEF Snapshots
    <3> QED
      BY <2>1, <3>1, <3>3 DEF At
  <2>2. CASE p \notin DOMAIN Base.snapshots
    BY <1>1, <2>2, SidesAre DEF Apart, At
  <2> QED
    BY <2>1, <2>2
<1>5. ~Changed(ServerSnapshots, BaseSnapshots, p) /\ At(LocalSnapshots, p) = local.snapshots[p]
  <2>1. At(ServerSnapshots, p) = At(server.snapshots, p)
        /\ At(BaseSnapshots, p) = At(Base.snapshots, p) /\ At(LocalSnapshots, p) = At(local.snapshots, p)
    BY <1>2, <1>3, GivenSnapshot
  <2> QED
    BY <1>1, <1>4, <2>1 DEF Changed, At
<1>6. At(Reconciled.snapshots, p) = local.snapshots[p]
  BY <1>5, ReconciledHas, ThreeWayAt
<1>7. local.snapshots[p] # Absent
  BY <1>2, AbsentIsNotStored
<1> QED
  BY <1>6, <1>7 DEF At

(* No connection of the result dangles: one of the server's ...            *)
LEMMA ServerEndsHeld ==
    ASSUME Sides, Parses, NEW y \in DOMAIN server.connections, y \in DOMAIN Reconciled.connections,
           Reconciled.connections[y] = server.connections[y]
    PROVE  Ends(Reconciled, y) \subseteq Held(Reconciled)
<1>1. PICK e \in DOMAIN server.documents : Ends(server, y) \subseteq BlocksOf(server, e)
  BY SidesAre DEF Connections
<1>2. Ends(Reconciled, y) = Ends(server, y) /\ Ends(server, y) # {}
  BY DEF Ends
<1>3. e \in DOMAIN Reconciled.documents
  BY ResultDocument
<1>4. CASE Changed(server.documents, Base.documents, e)
  <2>1. Reconciled.documents[e] = server.documents[e]
    BY <1>4, ResultDocument
  <2> QED
    BY <1>1, <1>2, <1>3, <2>1 DEF Held, BlocksOf
<1>5. CASE ~Changed(server.documents, Base.documents, e)
  <2>1. e \in DOMAIN local.documents /\ Reconciled.documents[e] = local.documents[e]
    BY <1>5, ResultDocument
  <2>2. server.documents[e].words # "server"
    BY <1>5, SidesAre, ChangedIs
  <2>3. e \in DOMAIN Base.documents /\ server.documents[e] = Base.documents[e]
    BY <2>2, SidesAre DEF Documents
  <2>4. y \in DOMAIN Base.connections /\ server.connections[y] = Base.connections[y]
    BY <1>1, <1>2, <2>2, SidesAre DEF Connections
  <2>5. Ends(Base, y) = Ends(server, y) /\ Ends(server, y) \subseteq BlocksOf(Base, e)
    BY <1>1, <2>3, <2>4 DEF Ends, BlocksOf
  <2>6. ASSUME y \in DOMAIN local.connections
        PROVE  Ends(local, y) = Ends(server, y) /\ Ends(local, y) \subseteq BlocksOf(local, e)
    <3>1. Ends(local, y) = Ends(server, y)
      BY <2>4, <2>5, <2>6, SidesAre DEF Connections, Ends
    <3>2. PICK f \in DOMAIN local.documents : Ends(local, y) \subseteq BlocksOf(local, f)
      BY <2>6, SidesAre DEF Connections
    <3>3. BlocksOf(local, f) \cap BlocksOf(Base, e) # {}
      BY <1>2, <2>5, <3>1, <3>2
    <3>4. f = e
      BY <2>3, <3>3, SidesAre DEF Documents
    <3> QED
      BY <3>1, <3>2, <3>4
  <2>7. y \notin MovedConnections
    <3> SUFFICES ASSUME NEW d \in Conf, y \in Touching(d) PROVE FALSE
      BY DEF MovedConnections
    <3>1. y \in DOMAIN local.connections /\ Ends(local, y) \cap BlocksOf(local, d) # {} /\ d \in DOMAIN local.documents
      BY ConfIs DEF Touching
    <3>2. Ends(local, y) \subseteq BlocksOf(local, e)
      BY <2>6, <3>1
    <3>3. d = e
      BY <2>1, <3>1, <3>2, SidesAre, OneDocument
    <3> QED
      BY <1>5, <3>3, ConfIs
  <2>8. y \in Connection
    BY SidesAre, ConnectionIs
  <2>9. y \in DOMAIN local.connections
    <3>1. ~Changed(ServerConnections, BaseConnections, y) /\ y \in DOMAIN BaseConnections
      BY <2>4, <2>7, <2>8, GivenConnection DEF Changed, At, BaseConnections, Without
    <3>2. y \in DOMAIN LocalConnections
      BY <3>1, ReconciledHas, ThreeWayFrom
    <3> QED
      BY <3>2 DEF LocalConnections, Without
  <2>10. Ends(Reconciled, y) \subseteq BlocksOf(local, e)
    BY <1>2, <2>6, <2>9
  <2> QED
    BY <1>3, <2>1, <2>10 DEF Held, BlocksOf
<1> QED
  BY <1>4, <1>5

(* ... and one this device added.                                          *)
LEMMA LocalEndsHeld ==
    ASSUME Sides, Parses, NEW y \in DOMAIN LocalConnections, y \in DOMAIN Reconciled.connections,
           Reconciled.connections[y] = LocalConnections[y], Changed(LocalConnections, BaseConnections, y)
    PROVE  Ends(Reconciled, y) \subseteq Held(Reconciled)
<1>1. y \in DOMAIN local.connections /\ y \notin MovedConnections /\ LocalConnections[y] = local.connections[y]
  BY DEF LocalConnections, Without
<1>2. y \in Connection
  BY <1>1, SidesAre, ConnectionIs
<1>3. At(local.connections, y) # At(Base.connections, y)
  BY <1>1, <1>2, GivenConnection DEF Changed
<1>4. y \notin DOMAIN Base.connections
  BY <1>1, <1>3, SidesAre DEF Connections, At
<1>5. PICK f \in DOMAIN local.documents : Ends(local, y) \subseteq BlocksOf(local, f)
  BY <1>1, SidesAre DEF Connections
<1>6. Ends(Reconciled, y) = Ends(local, y) /\ Ends(local, y) # {}
  BY <1>1 DEF Ends
<1>7. local.documents[f].words = "local"
  BY <1>1, <1>4, <1>5, <1>6, SidesAre DEF Connections
<1>8. y \in Touching(f)
  BY <1>1, <1>5, <1>6 DEF Touching
<1>9. f \notin Conf
  BY <1>1, <1>8 DEF MovedConnections
<1>10. ~Changed(server.documents, Base.documents, f)
  BY <1>7, <1>9, SidesAre, ChangedIs, ConfIs
<1>11. f \in DOMAIN Reconciled.documents /\ Reconciled.documents[f] = local.documents[f]
  BY <1>10, ResultDocument
<1> QED
  BY <1>5, <1>6, <1>11 DEF Held, BlocksOf

(* A link leads from the copy to the version of the server.                *)
LEMMA LinkEndsHeld ==
    ASSUME Sides, Parses, NEW y \in DOMAIN Links, y \in DOMAIN Reconciled.connections,
           Reconciled.connections[y] = Links[y]
    PROVE  Ends(Reconciled, y) \subseteq Held(Reconciled)
<1>1. PICK d \in Conf : y = Fresh(d, 2)
  BY DEF Links
<1>2. Original(y) = d
  BY <1>1 DEF Fresh, Original
<1> DEFINE a == local.documents[d].blocks
           b == server.documents[d].blocks
<1>3. d \in DOMAIN local.documents /\ d \in DOMAIN server.documents /\ Changed(server.documents, Base.documents, d)
  BY ConfIs
<1>4. /\ a \in Seq(Block) /\ a # << >> /\ b \in Seq(Block) /\ b # << >>
      /\ BlocksOf(local, d) = ToSet(a) /\ BlocksOf(server, d) = ToSet(b)
  BY <1>3, SidesAre, DocumentIs DEF Documents, BlocksOf
<1>5. Links[y] = [from |-> Fresh(Head(a), 1), to |-> Head(b)]
  BY <1>2 DEF Links
<1> HIDE DEF a, b
<1>6. Head(a) \in ToSet(a) /\ Head(b) \in ToSet(b)
  <2>1. \A q \in Seq(Block) : q # << >> => Head(q) = q[1] /\ 1 \in DOMAIN q
    OBVIOUS
  <2> QED
    BY <1>4, <2>1 DEF ToSet
<1>7. Fresh(Head(a), 1) \in BlocksOf(Reconciled, Fresh(d, 1)) /\ Fresh(d, 1) \in DOMAIN Reconciled.documents
  BY <1>4, <1>6, ResultCopy
<1>8. d \in DOMAIN Reconciled.documents /\ Reconciled.documents[d] = server.documents[d]
  BY <1>3, ResultDocument
<1>9. Head(b) \in BlocksOf(Reconciled, d)
  BY <1>4, <1>6, <1>8 DEF BlocksOf
<1>10. Ends(Reconciled, y) = {Fresh(Head(a), 1), Head(b)}
  BY <1>5 DEF Ends
<1> QED
  BY <1>7, <1>8, <1>9, <1>10 DEF Held

(* A copied connection leads between copies.                               *)
LEMMA CopyEndsHeld ==
    ASSUME Sides, Parses, NEW y \in DOMAIN CopiedConnections
    PROVE  Ends(Reconciled, y) \subseteq Held(Reconciled)
<1>1. PICK c \in MovedConnections : y = Fresh(c, 1)
  BY DEF CopiedConnections
<1>2. PICK d \in Conf : c \in Touching(d)
  BY DEF MovedConnections
<1>3. Ends(Reconciled, y) \subseteq BlocksOf(Reconciled, Fresh(d, 1)) /\ Fresh(d, 1) \in DOMAIN Reconciled.documents
  BY <1>1, <1>2, ResultConnectionCopy, ResultCopy
<1> QED
  BY <1>3 DEF Held

(* Every connection of the result is one of these.                         *)
LEMMA EndsHeld ==
    ASSUME Sides, Parses, NEW y \in DOMAIN Reconciled.connections
    PROVE  Ends(Reconciled, y) \subseteq Held(Reconciled)
<1>1. \/ y \in DOMAIN ServerConnections /\ Reconciled.connections[y] = ServerConnections[y]
      \/ /\ y \in DOMAIN LocalConnections /\ Reconciled.connections[y] = LocalConnections[y]
         /\ Changed(LocalConnections, BaseConnections, y)
  BY ReconciledHas, ThreeWayFrom
<1>2. CASE y \in DOMAIN ServerConnections /\ Reconciled.connections[y] = ServerConnections[y]
  <2>1. \/ y \in DOMAIN Links /\ ServerConnections[y] = Links[y]
        \/ y \in DOMAIN CopiedConnections
        \/ y \in DOMAIN server.connections /\ ServerConnections[y] = server.connections[y]
    BY <1>2 DEF ServerConnections, With
  <2> QED
    BY <1>2, <2>1, LinkEndsHeld, CopyEndsHeld, ServerEndsHeld
<1> QED
  BY <1>1, <1>2, LocalEndsHeld

LEMMA StructureKept == ReconciliationInd => StructureSurvives
<1> SUFFICES ASSUME ReconciliationInd, Returned
             PROVE  /\ \A d \in DOMAIN local.documents : Changed(local.documents, Base.documents, d) =>
                          \E x \in {d, Fresh(d, 1)} \cap DOMAIN M.documents :
                             /\ M.documents[x].words = "local"
                             /\ \A c \in Touching(d) : \E y \in DOMAIN M.connections : Ends(M, y) \subseteq BlocksOf(M, x)
                             /\ \A p \in Showing(d) : \E q \in DOMAIN M.snapshots :
                                   /\ M.snapshots[q].document = x /\ M.snapshots[q].blocks \subseteq BlocksOf(M, x)
                                   /\ Cardinality(M.snapshots[q].blocks) = Cardinality(local.snapshots[p].blocks)
                    /\ \A y \in DOMAIN M.connections : Ends(M, y) \subseteq Held(M)
  BY DEF StructureSurvives
<1> DEFINE R == Reconciled
           Carried(d, x) ==
              /\ x \in {d, Fresh(d, 1)} \cap DOMAIN R.documents
              /\ R.documents[x].words = "local"
              /\ \A c \in Touching(d) : \E y \in DOMAIN R.connections : Ends(R, y) \subseteq BlocksOf(R, x)
              /\ \A p \in Showing(d) : \E q \in DOMAIN R.snapshots :
                    /\ R.snapshots[q].document = x /\ R.snapshots[q].blocks \subseteq BlocksOf(R, x)
                    /\ Cardinality(R.snapshots[q].blocks) = Cardinality(local.snapshots[p].blocks)
<1>1. Sides /\ Parses /\ M = R
  BY ReturnedIs
<1>2. \A y \in DOMAIN R.connections : Ends(R, y) \subseteq Held(R)
  BY <1>1, EndsHeld
<1>3. ASSUME NEW d \in DOMAIN local.documents, Changed(local.documents, Base.documents, d)
      PROVE  \E x \in {d, Fresh(d, 1)} : Carried(d, x)
  <2>1. CASE Changed(server.documents, Base.documents, d)
    <3> DEFINE x == Fresh(d, 1)
    <3>1. d \in Conf
      BY <1>1, <1>3, <2>1, ConfIs
    <3>2. x \in DOMAIN R.documents /\ R.documents[x].words = "local"
      BY <1>1, <3>1, ResultCopy
    <3>3. \A c \in Touching(d) : Fresh(c, 1) \in DOMAIN R.connections /\ Ends(R, Fresh(c, 1)) \subseteq BlocksOf(R, x)
      BY <1>1, <3>1, ResultConnectionCopy
    <3>4. \A p \in Showing(d) :
             /\ Fresh(p, 1) \in DOMAIN R.snapshots
             /\ R.snapshots[Fresh(p, 1)].document = x /\ R.snapshots[Fresh(p, 1)].blocks \subseteq BlocksOf(R, x)
             /\ Cardinality(R.snapshots[Fresh(p, 1)].blocks) = Cardinality(local.snapshots[p].blocks)
      BY <1>1, <3>1, ResultSnapshotCopy
    <3> HIDE DEF R
    <3>5. Carried(d, x)
      BY <3>2, <3>3, <3>4
    <3> QED
      BY <3>5
  <2>2. CASE ~Changed(server.documents, Base.documents, d)
    <3>1. d \in DOMAIN R.documents /\ R.documents[d] = local.documents[d]
      BY <1>1, <2>2, ResultDocument
    <3>2. R.documents[d].words = "local" /\ BlocksOf(R, d) = BlocksOf(local, d)
      BY <1>1, <1>3, <3>1, SidesAre, ChangedIs DEF BlocksOf
    <3>3. \A c \in Touching(d) : c \in DOMAIN R.connections /\ Ends(R, c) \subseteq BlocksOf(local, d)
      BY <1>1, <2>2, ResultConnectionKept, TouchingIs
    <3>4. \A p \in Showing(d) :
             /\ p \in DOMAIN R.snapshots /\ R.snapshots[p] = local.snapshots[p]
             /\ local.snapshots[p].document = d /\ local.snapshots[p].blocks \subseteq BlocksOf(local, d)
      BY <1>1, <2>2, ResultSnapshotKept, ShowingIs
    <3> HIDE DEF R
    <3>5. Carried(d, d)
      BY <3>1, <3>2, <3>3, <3>4
    <3> QED
      BY <3>5
  <2> QED
    BY <2>1, <2>2
<1> HIDE DEF R
<1> QED
  BY <1>1, <1>2, <1>3

-----------------------------------------------------------------------------
(* Whatever edits two sides make of one base: every document this device   *)
(* changed is in the result of reconcileWorkspaces as it is here, in place *)
(* or as a conflict copy, and every one the server changed is as it was.   *)
THEOREM WordsAlwaysSurvive == Spec => []WordsSurvive
<1> QED
  BY Inductive, WordsKept, PTL

(* A conflict copy is made of a document only when both sides changed it,  *)
(* and a setting or annotation that one side changed is as it left it.     *)
THEOREM IndependentChangesAlwaysCombine == Spec => []IndependentChangesCombine
<1> QED
  BY Inductive, ChangesCombined, PTL

(* The connections and snapshots of what this device changed follow its    *)
(* words, into the copy if there is one, and no connection dangles.        *)
THEOREM StructureAlwaysSurvives == Spec => []StructureSurvives
<1> QED
  BY Inductive, StructureKept, PTL
=============================================================================
