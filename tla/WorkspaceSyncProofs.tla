------------------------ MODULE WorkspaceSyncProofs ------------------------
(***************************************************************************)
(* What a merge starts from, whatever happens to tabs and requests, that a *)
(* patient author's writing is never overwritten, that the copies of a     *)
(* merge keep what would be lost, and that no device loses what an author  *)
(* of any patience wrote, for any number of tabs, devices, documents and   *)
(* edits.                                                                  *)
(***************************************************************************)
EXTENDS WorkspaceSync, WellFoundedInduction, TLAPS

(* None is a value without structure, as null is and as TLC's model values *)
(* are: no workspace, no record and no push is None.                       *)
NullNone == None # [x \in DOMAIN None |-> None[x]]

IsFunction(f) == f = [x \in DOMAIN f |-> f[x]]
IsSequence(q) == q \in Seq({q[i] : i \in DOMAIN q})

(* ws is the workspace of revision r in the history h; a record of IndexedDB *)
(* holds a workspace and such a base.                                      *)
Known(ws, r, h) == r \in Nat /\ r < Len(h) /\ h[r + 1] = ws
Remembers(record, h) == IsFunction(record.ws) /\ Known(record.base, record.rev, h)

(* The variables are families over tabs and devices.                       *)
Families ==
    /\ IsSequence(history) /\ Len(history) > 0
    /\ DOMAIN cache = Device /\ DOMAIN writes = Device
    /\ DOMAIN phase = Tab /\ DOMAIN fetched = Tab /\ DOMAIN view = Tab
    /\ DOMAIN base = Tab /\ DOMAIN rev = Tab /\ DOMAIN saves = Tab /\ DOMAIN push = Tab

(* What is stored, on the server, by a device or on its way to the server. *)
StoredKnown ==
    /\ \A n \in DOMAIN history : IsFunction(history[n])
    /\ \A r \in late : IsFunction(r.ws)
    /\ \A v \in Device : cache[v] # None => Remembers(cache[v], history)

PushFields == {"ws", "apply", "newest", "candidate", "base", "rev", "tries", "at", "answer"}
SaveFields == {"ws", "apply", "newest", "cached"}
PutFields == {"tab", "record", "then"}

IsSave(s) == IsFunction(s) /\ DOMAIN s = SaveFields /\ IsFunction(s.ws)

(* What a tab knows in each phase, and what its push does.                 *)
TabKnows(t) ==
    /\ phase[t] \in {"closed", "load", "store", "open"}
    /\ phase[t] \in {"closed", "load"} => base[t] = None
    /\ phase[t] # "open" => saves[t] = << >> /\ push[t] = None
    /\ phase[t] = "load" =>
          /\ IsFunction(fetched[t]) /\ DOMAIN fetched[t] = {"cached", "remote"}
          /\ fetched[t].cached # None => Remembers(fetched[t].cached, history)
          /\ fetched[t].remote # None => Known(fetched[t].remote.ws, fetched[t].remote.rev, history)
    /\ phase[t] \in {"store", "open"} => Known(base[t], rev[t], history)
    /\ phase[t] = "open" => IsFunction(view[t])
    /\ IsSequence(saves[t]) /\ \A i \in DOMAIN saves[t] : IsSave(saves[t][i])

IsRequest(p, h) ==
    /\ IsFunction(p) /\ DOMAIN p = PushFields
    /\ IsFunction(p.candidate) /\ Known(p.base, p.rev, h)

IsPush(p, h) ==
    /\ IsRequest(p, h)
    /\ p.at \in {"sent", "saved", "conflict", "store"}
    /\ p.at = "saved" => Known(p.candidate, p.answer.rev, h)
    /\ p.at = "conflict" => Known(p.answer.ws, p.answer.rev, h)

PushKnows(t) == push[t] # None => IsPush(push[t], history)

(* Which await a put resumes, given the phases, pushes and bases of tabs.  *)
Awaited(v, w, ph, ps, bs) ==
    /\ IsFunction(w) /\ DOMAIN w = PutFields
    /\ w.tab \in Tab /\ w.then \in {"load", "save", "saved", "merged", "aborted"}
    /\ w.then # "aborted" => DeviceOf[w.tab] = v
    /\ w.then = "load" => ph[w.tab] = "store"
    /\ w.then = "save" => ph[w.tab] = "open"
    /\ w.then \in {"saved", "merged"} => ps[w.tab] # None /\ ps[w.tab].at = "store"
    /\ w.then = "saved" => bs[w.tab] = ps[w.tab].candidate

(* No other put of the tab resumes the await that one does.                *)
Rivals(w, x) ==
    /\ w.tab = x.tab
    /\ \/ w.then = "load" /\ x.then = "load"
       \/ w.then \in {"saved", "merged"} /\ x.then \in {"saved", "merged"}

Fit(v, q, ph, ps, bs, h) ==
    /\ IsSequence(q)
    /\ \A i \in DOMAIN q : Awaited(v, q[i], ph, ps, bs) /\ Remembers(q[i].record, h)
    /\ \A i \in DOMAIN q : \A j \in DOMAIN q : i # j => ~Rivals(q[i], q[j])

PutsFit == \A v \in Device : Fit(v, writes[v], phase, push, base, history)

KnowledgeInv ==
    /\ Families /\ StoredKnown /\ PutsFit
    /\ \A t \in Tab : TabKnows(t) /\ PushKnows(t)

(* The inductive invariant of BaseIsARevision.                             *)
BaseInv == IsSequence(faults) /\ ("load" \notin Suffered => KnowledgeInv)

-----------------------------------------------------------------------------
(* Sequences.                                                              *)

(* A sequence that is appended to keeps its elements, and has one more.    *)
LEMMA AppendIsSequence ==
    ASSUME NEW q, IsSequence(q), NEW e
    PROVE  /\ IsSequence(Append(q, e))
           /\ Len(Append(q, e)) = Len(q) + 1 /\ Len(q) \in Nat
           /\ DOMAIN q = 1 .. Len(q) /\ DOMAIN Append(q, e) = 1 .. Len(q) + 1
           /\ \A i \in DOMAIN q : Append(q, e)[i] = q[i]
           /\ Append(q, e)[Len(q) + 1] = e
<1> DEFINE S == {q[i] : i \in DOMAIN q} \cup {e}
           r == Append(q, e)
<1>1. q \in Seq(S) /\ e \in S
  BY DEF IsSequence
<1> HIDE DEF S
<1>2. /\ r \in Seq(S) /\ Len(r) = Len(q) + 1 /\ Len(q) \in Nat
      /\ DOMAIN q = 1 .. Len(q) /\ DOMAIN r = 1 .. Len(q) + 1
      /\ \A i \in DOMAIN q : r[i] = q[i]
      /\ r[Len(q) + 1] = e
  BY <1>1
<1> HIDE DEF r
<1>3. r \in Seq({r[i] : i \in DOMAIN r})
  BY <1>2
<1> QED
  BY <1>2, <1>3 DEF r, IsSequence

(* Taking the first element away leaves the others, one place earlier.     *)
LEMMA TailIsSequence ==
    ASSUME NEW q, IsSequence(q), q # << >>
    PROVE  /\ IsSequence(Tail(q)) /\ Len(q) \in Nat \ {0} /\ DOMAIN q = 1 .. Len(q)
           /\ DOMAIN Tail(q) = 1 .. Len(q) - 1 /\ Head(q) = q[1]
           /\ \A i \in DOMAIN Tail(q) : Tail(q)[i] = q[i + 1]
<1> DEFINE S == {q[i] : i \in DOMAIN q}
           r == Tail(q)
<1>1. q \in Seq(S)
  BY DEF IsSequence
<1> HIDE DEF S
<1>2. /\ r \in Seq(S) /\ Len(q) \in Nat \ {0} /\ DOMAIN q = 1 .. Len(q) /\ DOMAIN r = 1 .. Len(q) - 1
      /\ Head(q) = q[1] /\ \A i \in DOMAIN r : r[i] = q[i + 1]
  BY <1>1
<1> HIDE DEF r
<1>3. r \in Seq({r[i] : i \in DOMAIN r})
  BY <1>2
<1> QED
  BY <1>2, <1>3 DEF r, IsSequence

(* A set of numbers that is not empty has a least element.                 *)
LEMMA LeastElement ==
    ASSUME NEW U \in SUBSET Nat, U # {} PROVE \E i \in U : \A j \in U : i <= j
<1> DEFINE R == OpToRel(<, Nat)
<1>1. IsWellFoundedOn(R, Nat)
  BY NatLessThanWellFounded
<1>2. R = {ss \in Nat \X Nat : ss[1] < ss[2]}
  BY DEF OpToRel
<1>3. \A x, y \in Nat : x < y => <<x, y>> \in R
  BY <1>2
<1> HIDE DEF R
<1>4. PICK i \in U : \A j \in U : <<j, i>> \notin R
  BY <1>1, WFMin
<1>5. ASSUME NEW j \in U PROVE i <= j
  <2>1. i \in Nat /\ j \in Nat
    OBVIOUS
  <2>2. ~(j < i)
    BY <1>3, <1>4, <2>1
  <2> QED
    BY <2>1, <2>2
<1> QED
  BY <1>5

(* Changing the elements one by one leaves a sequence.                     *)
LEMMA MappedIsSequence ==
    ASSUME NEW q, IsSequence(q), NEW r, IsFunction(r), DOMAIN r = DOMAIN q
    PROVE  IsSequence(r) /\ Len(r) = Len(q) /\ Len(q) \in Nat /\ DOMAIN q = 1 .. Len(q)
<1> DEFINE S == {q[i] : i \in DOMAIN q}
           R == {r[i] : i \in DOMAIN r}
<1>1. q \in Seq(S)
  BY DEF IsSequence
<1> HIDE DEF S
<1>2. DOMAIN q = 1 .. Len(q) /\ Len(q) \in Nat
  BY <1>1
<1>3. r \in [1 .. Len(q) -> R]
  BY <1>2 DEF IsFunction
<1> HIDE DEF R
<1>4. r \in Seq(R) /\ Len(r) = Len(q)
  BY <1>2, <1>3
<1> QED
  BY <1>2, <1>4 DEF IsSequence, R

-----------------------------------------------------------------------------
(* What remains known when the history grows.                              *)

(* The history keeps every revision it has.                                *)
Extends(g, h) == /\ Len(h) \in Nat /\ Len(g) \in Nat /\ Len(h) <= Len(g)
                 /\ \A n \in 1 .. Len(h) : g[n] = h[n]

LEMMA KnownStays ==
    ASSUME NEW ws, NEW r, NEW g, NEW h, Extends(g, h), Known(ws, r, h)
    PROVE  Known(ws, r, g)
BY DEF Extends, Known

LEMMA RemembersStays ==
    ASSUME NEW record, NEW g, NEW h, Extends(g, h), Remembers(record, h)
    PROVE  Remembers(record, g)
BY KnownStays DEF Remembers

LEMMA PushStays ==
    ASSUME NEW p, NEW g, NEW h, Extends(g, h), IsPush(p, h)
    PROVE  IsPush(p, g)
BY KnownStays DEF IsPush, IsRequest

LEMMA ExtendsItself ==
    ASSUME NEW h, IsSequence(h) PROVE Extends(h, h)
BY DEF Extends, IsSequence

LEMMA ExtendsByAppend ==
    ASSUME NEW h, NEW ws, IsSequence(h) PROVE Extends(Append(h, ws), h)
BY AppendIsSequence DEF Extends

-----------------------------------------------------------------------------
(* The puts of a device.                                                   *)

(* The puts behind the one that completes are in order, and resume other   *)
(* awaits than it does.                                                    *)
LEMMA FitTail ==
    ASSUME NEW v, NEW q, NEW ph, NEW ps, NEW bs, NEW h, Fit(v, q, ph, ps, bs, h), q # << >>
    PROVE  /\ Awaited(v, Head(q), ph, ps, bs) /\ Remembers(Head(q).record, h)
           /\ Fit(v, Tail(q), ph, ps, bs, h)
           /\ \A i \in DOMAIN Tail(q) : ~Rivals(Head(q), Tail(q)[i])
<1>1. /\ IsSequence(Tail(q)) /\ Len(q) \in Nat \ {0} /\ DOMAIN q = 1 .. Len(q)
      /\ DOMAIN Tail(q) = 1 .. Len(q) - 1 /\ Head(q) = q[1]
      /\ \A i \in DOMAIN Tail(q) : Tail(q)[i] = q[i + 1]
  BY TailIsSequence DEF Fit
<1>2. \A i \in DOMAIN Tail(q) : i + 1 \in DOMAIN q /\ i + 1 # 1 /\ i \in Nat
  BY <1>1
<1>3. 1 \in DOMAIN q
  BY <1>1
<1>4. \A i \in DOMAIN Tail(q) :
          Awaited(v, Tail(q)[i], ph, ps, bs) /\ Remembers(Tail(q)[i].record, h)
  BY <1>1, <1>2 DEF Fit
<1>5. \A i \in DOMAIN Tail(q) : \A j \in DOMAIN Tail(q) : i # j => ~Rivals(Tail(q)[i], Tail(q)[j])
  <2> SUFFICES ASSUME NEW i \in DOMAIN Tail(q), NEW j \in DOMAIN Tail(q), i # j
               PROVE  ~Rivals(Tail(q)[i], Tail(q)[j])
    OBVIOUS
  <2>1. i + 1 # j + 1 /\ i + 1 \in DOMAIN q /\ j + 1 \in DOMAIN q
    BY <1>2
  <2> QED
    BY <1>1, <2>1 DEF Fit
<1>6. \A i \in DOMAIN Tail(q) : ~Rivals(Head(q), Tail(q)[i])
  BY <1>1, <1>2, <1>3 DEF Fit
<1> QED
  BY <1>1, <1>3, <1>4, <1>5, <1>6 DEF Fit

(* A put may be issued that no other is a rival of.                        *)
LEMMA FitAppend ==
    ASSUME NEW v, NEW q, NEW ph, NEW ps, NEW bs, NEW h, Fit(v, q, ph, ps, bs, h),
           NEW w, Awaited(v, w, ph, ps, bs), Remembers(w.record, h),
           \A i \in DOMAIN q : ~Rivals(w, q[i])
    PROVE  Fit(v, Append(q, w), ph, ps, bs, h)
<1> DEFINE r == Append(q, w)
<1>1. /\ IsSequence(r) /\ Len(q) \in Nat /\ DOMAIN q = 1 .. Len(q) /\ DOMAIN r = 1 .. Len(q) + 1
      /\ \A i \in DOMAIN q : r[i] = q[i]
      /\ r[Len(q) + 1] = w
  BY AppendIsSequence DEF Fit
<1> HIDE DEF r
<1>2. \A i \in DOMAIN r : i \in DOMAIN q \/ i = Len(q) + 1
  BY <1>1
<1>3. \A i \in DOMAIN r : (i \in DOMAIN q /\ r[i] = q[i]) \/ (i = Len(q) + 1 /\ r[i] = w)
  BY <1>1, <1>2
<1>4. \A i \in DOMAIN r : Awaited(v, r[i], ph, ps, bs) /\ Remembers(r[i].record, h)
  BY <1>3 DEF Fit
<1>5. \A i \in DOMAIN r : \A j \in DOMAIN r : i # j => ~Rivals(r[i], r[j])
  <2> SUFFICES ASSUME NEW i \in DOMAIN r, NEW j \in DOMAIN r, i # j PROVE ~Rivals(r[i], r[j])
    OBVIOUS
  <2>1. CASE i \in DOMAIN q /\ j \in DOMAIN q
    BY <1>1, <2>1 DEF Fit
  <2>2. CASE i \notin DOMAIN q
    <3>1. j \in DOMAIN q /\ r[i] = w /\ r[j] = q[j]
      BY <1>1, <1>3, <2>2
    <3> QED
      BY <3>1
  <2>3. CASE i \in DOMAIN q /\ j \notin DOMAIN q
    <3>1. r[j] = w /\ r[i] = q[i]
      BY <1>1, <1>3, <2>3
    <3> QED
      BY <2>3, <3>1 DEF Rivals
  <2> QED
    BY <2>1, <2>2, <2>3
<1> QED
  BY <1>1, <1>4, <1>5 DEF Fit, r

(* Puts stay in order when every await they resume is still waited on.     *)
LEMMA FitStays ==
    ASSUME NEW v, NEW q, NEW ph, NEW ps, NEW bs, NEW h, Fit(v, q, ph, ps, bs, h),
           NEW ph2, NEW ps2, NEW bs2, NEW h2, Extends(h2, h),
           \A i \in DOMAIN q : Awaited(v, q[i], ph2, ps2, bs2)
    PROVE  Fit(v, q, ph2, ps2, bs2, h2)
BY RemembersStays DEF Fit

-----------------------------------------------------------------------------
(* One step of one tab.                                                    *)

(* What TabKnows and PushKnows read of a tab does not change.              *)
Untouched(u) ==
    /\ phase'[u] = phase[u] /\ fetched'[u] = fetched[u] /\ view'[u] = view[u]
    /\ base'[u] = base[u] /\ rev'[u] = rev[u] /\ saves'[u] = saves[u] /\ push'[u] = push[u]

(* A step of t alone, which may add a revision.                            *)
StepOf(t) == /\ \A u \in Tab \ {t} : Untouched(u)
             /\ Extends(history', history)

(* The await a put of t resumes is waited on after the step.               *)
StillAwaited(t, then) ==
    /\ then = "load" => phase'[t] = "store"
    /\ then = "save" => phase'[t] = "open"
    /\ then \in {"saved", "merged"} => push'[t] # None /\ push'[t].at = "store"
    /\ then = "saved" => base'[t] = push'[t].candidate

(* The step ends none of the awaits of t.                                  *)
Waits(t) ==
    /\ phase[t] = "store" => phase'[t] = "store"
    /\ phase[t] = "open" => phase'[t] = "open"
    /\ push[t] # None /\ push[t].at = "store" =>
          /\ push'[t] # None /\ push'[t].at = "store"
          /\ base[t] = push[t].candidate => base'[t] = push'[t].candidate

LEMMA OthersKnow ==
    ASSUME KnowledgeInv, Extends(history', history), NEW u \in Tab, Untouched(u)
    PROVE  TabKnows(u)' /\ PushKnows(u)'
<1>1. TabKnows(u) /\ PushKnows(u)
  BY DEF KnowledgeInv
<1>2. PushKnows(u)'
  BY <1>1, PushStays DEF PushKnows, Untouched
<1>3. TabKnows(u)'
  BY <1>1, KnownStays, RemembersStays DEF TabKnows, Untouched
<1> QED
  BY <1>2, <1>3

LEMMA FitStep ==
    ASSUME NEW t \in Tab, StepOf(t),
           NEW x, NEW q, Fit(x, q, phase, push, base, history),
           \A i \in DOMAIN q : q[i].tab = t => StillAwaited(t, q[i].then)
    PROVE  Fit(x, q, phase', push', base', history')
<1>1. ASSUME NEW i \in DOMAIN q PROVE Awaited(x, q[i], phase', push', base')
  <2>1. Awaited(x, q[i], phase, push, base)
    BY DEF Fit
  <2>2. CASE q[i].tab = t
    BY <2>1, <2>2 DEF Awaited, StillAwaited
  <2>3. CASE q[i].tab # t
    <3>1. Untouched(q[i].tab)
      BY <2>1, <2>3 DEF StepOf, Awaited
    <3> QED
      BY <2>1, <3>1 DEF Awaited, Untouched
  <2> QED
    BY <2>2, <2>3
<1> QED
  BY <1>1, FitStays DEF StepOf

LEMMA FitWaits ==
    ASSUME NEW t \in Tab, StepOf(t), Waits(t),
           NEW x, NEW q, Fit(x, q, phase, push, base, history)
    PROVE  Fit(x, q, phase', push', base', history')
<1>1. \A i \in DOMAIN q : q[i].tab = t => StillAwaited(t, q[i].then)
  BY DEF Fit, Awaited, Waits, StillAwaited
<1> QED
  BY <1>1, FitStep

(* No put is issued: those there are are still waited for.                 *)
LEMMA PutsStay ==
    ASSUME KnowledgeInv, NEW t \in Tab, StepOf(t), Waits(t), writes' = writes
    PROVE  PutsFit'
BY FitWaits DEF KnowledgeInv, PutsFit

(* A put is issued: what waits for it waits for no other.                  *)
LEMMA PutIssued ==
    ASSUME KnowledgeInv, NEW t \in Tab, StepOf(t), Waits(t),
           NEW record, Remembers(record, history'),
           NEW then \in {"load", "save", "saved", "merged"}, StillAwaited(t, then),
           then = "load" => phase[t] # "store",
           then \in {"saved", "merged"} => push[t].at # "store",
           writes' = Issue(t, writes, record, then)
    PROVE  PutsFit' /\ DOMAIN writes' = Device
<1> DEFINE w == [tab |-> t, record |-> record, then |-> then]
           d == DeviceOf[t]
<1>1. d \in Device /\ DOMAIN writes = Device
  BY SyncAssumption DEF SyncAssumption, KnowledgeInv, Families
<1>2. DOMAIN writes' = Device /\ writes'[d] = Append(writes[d], w)
      /\ \A v \in Device \ {d} : writes'[v] = writes[v]
  BY <1>1 DEF Issue
<1>3. Awaited(d, w, phase', push', base')
  <2>1. IsFunction(w) /\ DOMAIN w = PutFields /\ w.tab = t /\ w.then = then
    BY DEF IsFunction, PutFields
  <2> HIDE DEF w
  <2> QED
    BY <2>1 DEF Awaited, StillAwaited
<1>4. Remembers(w.record, history') /\ w.tab = t /\ w.then = then
  OBVIOUS
<1> HIDE DEF w
<1>5. \A i \in DOMAIN writes[d] : ~Rivals(w, writes[d][i])
  BY <1>1, <1>4 DEF KnowledgeInv, PutsFit, Fit, Awaited, Rivals
<1>6. \A v \in Device : Fit(v, writes[v], phase', push', base', history')
  BY FitWaits DEF KnowledgeInv, PutsFit
<1>7. Fit(d, writes'[d], phase', push', base', history')
  BY <1>1, <1>2, <1>3, <1>4, <1>5, <1>6, FitAppend
<1>8. \A v \in Device : Fit(v, writes'[v], phase', push', base', history')
  BY <1>2, <1>6, <1>7
<1> QED
  BY <1>2, <1>8 DEF PutsFit

(* A step of t that leaves the devices' records alone.                     *)
LEMMA StepKeeps ==
    ASSUME KnowledgeInv, NEW t \in Tab, StepOf(t), Families',
           TabKnows(t)', PushKnows(t)', PutsFit', cache' = cache,
           \A n \in DOMAIN history' : IsFunction(history'[n]),
           \A r \in late' : IsFunction(r.ws)
    PROVE  KnowledgeInv'
<1>1. StoredKnown'
  BY RemembersStays DEF StoredKnown, KnowledgeInv, StepOf
<1>2. \A u \in Tab : TabKnows(u)' /\ PushKnows(u)'
  BY OthersKnow DEF StepOf
<1> QED
  BY <1>1, <1>2 DEF KnowledgeInv

-----------------------------------------------------------------------------
(* load.                                                                   *)

LEMMA OpenKeeps ==
    ASSUME KnowledgeInv, NEW t \in Tab, Open(t) PROVE KnowledgeInv'
<1> USE DEF Open, serverVars, cacheVars, screenVars, fieldVars, queueVars, countVars
<1>1. DeviceOf[t] \in Device
  BY SyncAssumption DEF SyncAssumption
<1>2. Families'
  BY DEF KnowledgeInv, Families
<1>3. StepOf(t)
  BY ExtendsItself DEF KnowledgeInv, Families, StepOf, Untouched
<1>4. Waits(t)
  BY DEF Waits, KnowledgeInv, TabKnows
<1>5. PutsFit'
  BY <1>3, <1>4, PutsStay
<1>6. fetched'[t] = [cached |-> cache[DeviceOf[t]], remote |-> None] /\ phase'[t] = "load"
  BY DEF KnowledgeInv, Families
<1>7. TabKnows(t)'
  <2>1. IsFunction(fetched'[t]) /\ DOMAIN fetched'[t] = {"cached", "remote"}
    BY <1>6 DEF IsFunction
  <2>2. fetched'[t].cached # None => Remembers(fetched'[t].cached, history')
    BY <1>1, <1>6 DEF KnowledgeInv, StoredKnown
  <2>3. fetched'[t].remote = None
    BY <1>6
  <2> QED
    BY <1>6, <2>1, <2>2, <2>3 DEF TabKnows, KnowledgeInv
<1>8. PushKnows(t)'
  BY DEF KnowledgeInv, PushKnows
<1> QED
  BY <1>2, <1>3, <1>5, <1>7, <1>8, StepKeeps DEF KnowledgeInv, StoredKnown

LEMMA FetchKeeps ==
    ASSUME KnowledgeInv, NEW t \in Tab, Fetch(t) PROVE KnowledgeInv'
<1> USE DEF Fetch, serverVars, cacheVars, screenVars, fieldVars, queueVars, countVars
<1>2. Families'
  BY DEF KnowledgeInv, Families
<1>3. StepOf(t)
  BY ExtendsItself DEF KnowledgeInv, Families, StepOf, Untouched
<1>4. Waits(t)
  BY DEF Waits, KnowledgeInv, TabKnows
<1>5. PutsFit'
  BY <1>3, <1>4, PutsStay
<1> DEFINE remote == [ws |-> Latest, rev |-> Revision]
<1>6. fetched'[t] = [fetched[t] EXCEPT !.remote = remote]
  BY DEF KnowledgeInv, Families
<1>7. remote.ws = Latest /\ remote.rev = Revision
  OBVIOUS
<1> HIDE DEF remote
<1>8. Known(remote.ws, remote.rev, history)
  BY <1>7 DEF Known, Latest, Revision, KnowledgeInv, Families, IsSequence
<1>9. IsFunction(fetched[t]) /\ DOMAIN fetched[t] = {"cached", "remote"}
  BY DEF KnowledgeInv, TabKnows
<1>10. /\ IsFunction(fetched'[t]) /\ DOMAIN fetched'[t] = {"cached", "remote"}
       /\ fetched'[t].cached = fetched[t].cached /\ fetched'[t].remote = remote
  BY <1>6, <1>9 DEF IsFunction
<1>11. TabKnows(t)'
  BY <1>8, <1>10 DEF TabKnows, KnowledgeInv
<1>12. PushKnows(t)'
  BY DEF KnowledgeInv, PushKnows
<1> QED
  BY <1>2, <1>3, <1>5, <1>11, <1>12, StepKeeps DEF KnowledgeInv, StoredKnown

LEMMA LoadedKeeps ==
    ASSUME KnowledgeInv, NEW t \in Tab, Loaded(t) PROVE KnowledgeInv'
<1> DEFINE cached == fetched[t].cached
           remote == fetched[t].remote
<1>1. /\ phase[t] = "load" /\ remote # None
      /\ UNCHANGED <<history, late, cache, saves, push>>
  BY DEF Loaded, serverVars, queueVars
<1>2. /\ IsFunction(fetched[t]) /\ (cached # None => Remembers(cached, history))
      /\ Known(remote.ws, remote.rev, history)
      /\ saves[t] = << >> /\ push[t] = None
  BY <1>1 DEF KnowledgeInv, TabKnows
<1>3. remote.ws = history[remote.rev + 1] /\ IsFunction(remote.ws)
  BY <1>2 DEF Known, KnowledgeInv, StoredKnown, Families, IsSequence
<1>4. Extends(history', history)
  BY <1>1, ExtendsItself DEF KnowledgeInv, Families
<1> HIDE DEF cached, remote
<1>5. CASE Resumes(t)
  <2>1. /\ base' = [base EXCEPT ![t] = cached.base] /\ rev' = [rev EXCEPT ![t] = cached.rev]
        /\ phase' = [phase EXCEPT ![t] = "open"] /\ view' = [view EXCEPT ![t] = cached.ws]
        /\ fetched' = [fetched EXCEPT ![t] = None] /\ writes' = writes
    BY <1>5 DEF Loaded, Adopts, Shows, cached
  <2>2. Remembers(cached, history)
    BY <1>2, <1>5 DEF Resumes, cached
  <2>3. Families'
    BY <1>1, <2>1 DEF KnowledgeInv, Families
  <2>4. StepOf(t)
    BY <1>1, <1>4, <2>1 DEF StepOf, Untouched
  <2>5. PutsFit'
    BY <1>1, <1>2, <2>1, <2>4, PutsStay DEF Waits
  <2>6. base'[t] = cached.base /\ rev'[t] = cached.rev /\ phase'[t] = "open" /\ view'[t] = cached.ws
    BY <2>1 DEF KnowledgeInv, Families
  <2>7. TabKnows(t)' /\ PushKnows(t)'
    BY <1>1, <1>2, <2>2, <2>6 DEF TabKnows, PushKnows, KnowledgeInv, Remembers
  <2> QED
    BY <1>1, <2>3, <2>4, <2>5, <2>7, StepKeeps DEF KnowledgeInv, StoredKnown
<1>6. CASE ~Resumes(t)
  <2> DEFINE record == Record(remote.ws, remote.ws, remote.rev, FALSE)
  <2>1. /\ base' = [base EXCEPT ![t] = remote.ws] /\ rev' = [rev EXCEPT ![t] = remote.rev]
        /\ phase' = [phase EXCEPT ![t] = "store"] /\ view' = view /\ fetched' = fetched
        /\ writes' = Issue(t, writes, record, "load")
    BY <1>6 DEF Loaded, Adopts, screenVars, remote
  <2>2. record.ws = remote.ws /\ record.base = remote.ws /\ record.rev = remote.rev
    BY DEF Record
  <2> HIDE DEF record
  <2>3. Remembers(record, history')
    BY <1>1, <1>2, <1>3, <2>2 DEF Remembers
  <2>4. StepOf(t)
    BY <1>1, <1>4, <2>1 DEF StepOf, Untouched
  <2>5. base'[t] = remote.ws /\ rev'[t] = remote.rev /\ phase'[t] = "store"
    BY <2>1 DEF KnowledgeInv, Families
  <2>6. PutsFit' /\ DOMAIN writes' = Device
    BY <1>1, <1>2, <2>1, <2>3, <2>4, <2>5, PutIssued DEF Waits, StillAwaited
  <2>7. Families'
    BY <1>1, <2>1, <2>6 DEF KnowledgeInv, Families
  <2>8. TabKnows(t)' /\ PushKnows(t)'
    BY <1>1, <1>2, <2>5 DEF TabKnows, PushKnows, KnowledgeInv
  <2> QED
    BY <1>1, <2>4, <2>6, <2>7, <2>8, StepKeeps DEF KnowledgeInv, StoredKnown
<1> QED
  BY <1>5, <1>6

-----------------------------------------------------------------------------
(* The author, and save.                                                   *)

(* The base of a tab that shows a workspace is one.                        *)
LEMMA BaseIsThere ==
    ASSUME NullNone, KnowledgeInv, NEW t \in Tab, phase[t] \in {"store", "open"}
    PROVE  Known(base[t], rev[t], history) /\ IsFunction(base[t]) /\ base[t] # None
<1>1. Known(base[t], rev[t], history)
  BY DEF KnowledgeInv, TabKnows
<1>2. IsFunction(base[t])
  BY <1>1 DEF Known, KnowledgeInv, StoredKnown, Families, IsSequence
<1> QED
  BY <1>1, <1>2 DEF NullNone, IsFunction

LEMMA EditKeeps ==
    ASSUME KnowledgeInv, NEW t \in Tab, (\E d \in Documents(view[t]) : Write(t, d)) \/ \E f \in Setting : Toggle(t, f)
    PROVE  KnowledgeInv'
<1>1. /\ phase[t] = "open"
      /\ \E d, e : view' = [view EXCEPT ![t] = [view[t] EXCEPT ![d] = e]]
      /\ UNCHANGED <<history, late, cache, writes, phase, fetched, base, rev, saves, push>>
  BY DEF Write, Toggle, MayEdit, serverVars, cacheVars, fieldVars, queueVars
<1>2. IsFunction(view'[t]) /\ DOMAIN view' = Tab /\ \A u \in Tab \ {t} : view'[u] = view[u]
  BY <1>1 DEF KnowledgeInv, Families, IsFunction
<1>3. Families'
  BY <1>1, <1>2 DEF KnowledgeInv, Families
<1>4. StepOf(t)
  BY <1>1, <1>2, ExtendsItself DEF KnowledgeInv, Families, StepOf, Untouched
<1>5. PutsFit'
  BY <1>1, <1>4, PutsStay DEF Waits
<1>6. TabKnows(t)' /\ PushKnows(t)'
  BY <1>1, <1>2 DEF KnowledgeInv, TabKnows, PushKnows
<1> QED
  BY <1>1, <1>3, <1>4, <1>5, <1>6, StepKeeps DEF KnowledgeInv, StoredKnown

(* What save does to the saves and the push that are in front of it.       *)
Outdated(q) == [i \in DOMAIN q |-> [q[i] EXCEPT !.newest = FALSE]]
NewSave(t, apply) == [ws |-> view[t], apply |-> apply, newest |-> TRUE, cached |-> FALSE]

LEMMA OutdatedSaves ==
    ASSUME NEW q, IsSequence(q), \A i \in DOMAIN q : IsSave(q[i])
    PROVE  /\ IsSequence(Outdated(q)) /\ DOMAIN Outdated(q) = DOMAIN q
           /\ \A i \in DOMAIN q : IsSave(Outdated(q)[i])
<1>1. DOMAIN Outdated(q) = DOMAIN q /\ IsFunction(Outdated(q))
  BY DEF Outdated, IsFunction
<1>2. ASSUME NEW i \in DOMAIN q PROVE IsSave(Outdated(q)[i])
  <2>1. Outdated(q)[i] = [q[i] EXCEPT !.newest = FALSE] /\ IsSave(q[i])
    BY DEF Outdated
  <2> QED
    BY <2>1 DEF IsSave, IsFunction, SaveFields
<1> QED
  BY <1>1, <1>2, MappedIsSequence

LEMMA OutdatedPush ==
    ASSUME NEW p, NEW h, IsPush(p, h)
    PROVE  IsPush([p EXCEPT !.newest = FALSE], h) /\ [p EXCEPT !.newest = FALSE].at = p.at
           /\ [p EXCEPT !.newest = FALSE].candidate = p.candidate
<1> DEFINE r == [p EXCEPT !.newest = FALSE]
<1>1. /\ IsFunction(r) /\ DOMAIN r = PushFields /\ r.candidate = p.candidate
      /\ r.base = p.base /\ r.rev = p.rev /\ r.at = p.at /\ r.answer = p.answer
  BY DEF IsPush, IsRequest, IsFunction, PushFields
<1> HIDE DEF r
<1> QED
  BY <1>1 DEF IsPush, IsRequest, r

LEMMA SaveKeeps ==
    ASSUME NullNone, KnowledgeInv, NEW t \in Tab, phase[t] = "open", NEW apply, Save(t, apply),
           UNCHANGED <<history, late, phase, fetched, view, base, rev>>
    PROVE  KnowledgeInv'
<1>1. TabKnows(t) /\ PushKnows(t) /\ IsFunction(view[t])
  BY DEF KnowledgeInv, TabKnows
<1>2. Extends(history', history)
  BY ExtendsItself DEF KnowledgeInv, Families
<1>3. CASE Unchanged(t)
  <2>1. UNCHANGED <<cache, writes, saves, push>>
    BY <1>3 DEF Save, cacheVars, queueVars
  <2>2. StepOf(t) /\ Waits(t) /\ Families'
    BY <1>2, <2>1 DEF StepOf, Untouched, Waits, KnowledgeInv, Families
  <2>3. TabKnows(t)' /\ PushKnows(t)'
    BY <1>1, <2>1 DEF TabKnows, PushKnows
  <2>4. PutsFit'
    BY <2>1, <2>2, PutsStay
  <2> QED
    BY <2>1, <2>2, <2>3, <2>4, StepKeeps DEF KnowledgeInv, StoredKnown
<1>4. CASE ~Unchanged(t)
  <2> DEFINE record == PendingRecord(t, view[t])
             save == NewSave(t, apply)
             older == [push[t] EXCEPT !.newest = FALSE]
  <2>1. /\ saves' = [saves EXCEPT ![t] = Append(Outdated(saves[t]), save)]
        /\ push' = [push EXCEPT ![t] = IF push[t] = None THEN None ELSE older]
        /\ cache' = cache
        /\ writes' = writes \/ writes' = Issue(t, writes, record, "save")
    BY <1>4 DEF Save, Outdated, NewSave
  <2>2. IsSave(save)
    BY <1>1 DEF NewSave, IsSave, IsFunction, SaveFields
  <2>3. Remembers(record, history')
    <3>1. record.ws = view[t] /\ record.base = base[t] /\ record.rev = rev[t]
      BY BaseIsThere DEF PendingRecord, Record, Else
    <3> HIDE DEF record
    <3> QED
      BY <1>1, <3>1, BaseIsThere DEF Remembers
  <2>4. push[t] # None => IsPush(older, history) /\ older.at = push[t].at /\ older.candidate = push[t].candidate
    BY <1>1, OutdatedPush DEF PushKnows
  <2> HIDE DEF record, save, older
  <2>5. saves'[t] = Append(Outdated(saves[t]), save)
    BY <2>1 DEF KnowledgeInv, Families
  <2>6. IsSequence(saves'[t]) /\ \A i \in DOMAIN saves'[t] : IsSave(saves'[t][i])
    <3> DEFINE q == Outdated(saves[t])
    <3>1. IsSequence(q) /\ \A i \in DOMAIN q : IsSave(q[i])
      BY <1>1, OutdatedSaves DEF TabKnows
    <3> HIDE DEF q
    <3>2. /\ IsSequence(Append(q, save)) /\ DOMAIN q = 1 .. Len(q) /\ Len(q) \in Nat
          /\ DOMAIN Append(q, save) = 1 .. Len(q) + 1
          /\ \A i \in DOMAIN q : Append(q, save)[i] = q[i]
          /\ Append(q, save)[Len(q) + 1] = save
      BY <3>1, AppendIsSequence
    <3>3. \A i \in 1 .. Len(q) + 1 : i \in DOMAIN q \/ i = Len(q) + 1
      BY <3>2
    <3>4. \A i \in DOMAIN Append(q, save) : IsSave(Append(q, save)[i])
      BY <2>2, <3>1, <3>2, <3>3
    <3> QED
      BY <2>5, <3>2, <3>4 DEF q
  <2>7. push'[t] = IF push[t] = None THEN None ELSE older
    BY <2>1 DEF KnowledgeInv, Families
  <2>8. TabKnows(t)'
    BY <1>1, <2>6 DEF TabKnows
  <2>9. PushKnows(t)'
    BY <2>4, <2>7 DEF PushKnows
  <2>10. StepOf(t)
    BY <1>2, <2>1 DEF StepOf, Untouched
  <2>11. Waits(t)
    <3>1. CASE push[t] = None
      BY <3>1 DEF Waits
    <3>2. CASE push[t] # None
      <4>1. older # None
        BY <2>4, <3>2 DEF IsPush, IsRequest, NullNone, IsFunction
      <4> QED
        BY <2>4, <2>7, <3>2, <4>1 DEF Waits
    <3> QED
      BY <3>1, <3>2
  <2>12. PutsFit' /\ DOMAIN writes' = Device
    <3>1. CASE writes' = writes
      BY <2>10, <2>11, <3>1, PutsStay DEF KnowledgeInv, Families
    <3>2. CASE writes' = Issue(t, writes, record, "save")
      BY <2>3, <2>10, <2>11, <3>2, PutIssued DEF StillAwaited
    <3> QED
      BY <2>1, <3>1, <3>2
  <2>13. Families'
    BY <2>1, <2>12 DEF KnowledgeInv, Families
  <2> QED
    BY <2>1, <2>8, <2>9, <2>10, <2>12, <2>13, StepKeeps DEF KnowledgeInv, StoredKnown
<1> QED
  BY <1>3, <1>4

LEMMA SaversKeep ==
    ASSUME NullNone, KnowledgeInv, NEW t \in Tab, Debounced(t) \/ Online(t) \/ SaveNow(t)
    PROVE  KnowledgeInv'
<1>1. PICK apply \in BOOLEAN : Save(t, apply)
  BY DEF Debounced, Online, SaveNow
<1>2. phase[t] = "open" /\ UNCHANGED <<history, late, phase, fetched, view, base, rev>>
  BY DEF Debounced, Online, SaveNow, serverVars, screenVars, fieldVars
<1> QED
  BY <1>1, <1>2, SaveKeeps

-----------------------------------------------------------------------------
(* push.                                                                   *)

LEMMA StartPushKeeps ==
    ASSUME NullNone, KnowledgeInv, NEW t \in Tab, StartPush(t) PROVE KnowledgeInv'
<1> DEFINE save == Head(saves[t])
           p == [ws |-> save.ws, apply |-> save.apply, newest |-> save.newest,
                 candidate |-> save.ws, base |-> Else(base[t], save.ws), rev |-> rev[t],
                 tries |-> 1, at |-> "sent", answer |-> None]
<1>1. /\ push[t] = None /\ saves[t] # << >>
      /\ push' = [push EXCEPT ![t] = p]
      /\ saves' = [saves EXCEPT ![t] = Tail(saves[t])]
      /\ UNCHANGED <<history, late, cache, writes, phase, fetched, view, base, rev>>
  BY DEF StartPush, serverVars, cacheVars, screenVars, fieldVars
<1>2. TabKnows(t) /\ phase[t] = "open"
  BY <1>1 DEF KnowledgeInv, TabKnows
<1>3. /\ IsSequence(Tail(saves[t])) /\ IsFunction(save.ws)
      /\ \A i \in DOMAIN Tail(saves[t]) : IsSave(Tail(saves[t])[i])
  <2>1. IsSequence(saves[t]) /\ \A i \in DOMAIN saves[t] : IsSave(saves[t][i])
    BY <1>2 DEF TabKnows
  <2>2. /\ IsSequence(Tail(saves[t])) /\ Len(saves[t]) \in Nat \ {0}
        /\ DOMAIN saves[t] = 1 .. Len(saves[t])
        /\ DOMAIN Tail(saves[t]) = 1 .. Len(saves[t]) - 1 /\ save = saves[t][1]
        /\ \A i \in DOMAIN Tail(saves[t]) : Tail(saves[t])[i] = saves[t][i + 1]
    BY <1>1, <2>1, TailIsSequence
  <2>3. 1 \in DOMAIN saves[t] /\ \A i \in DOMAIN Tail(saves[t]) : i + 1 \in DOMAIN saves[t]
    BY <2>2
  <2> QED
    BY <2>1, <2>2, <2>3 DEF IsSave
<1>4. IsPush(p, history)
  <2>1. Else(base[t], save.ws) = base[t] /\ Known(base[t], rev[t], history)
    BY <1>2, BaseIsThere DEF Else
  <2>2. /\ IsFunction(p) /\ DOMAIN p = PushFields /\ p.candidate = save.ws
        /\ p.base = base[t] /\ p.rev = rev[t] /\ p.at = "sent"
    BY <2>1 DEF IsFunction, PushFields
  <2> HIDE DEF p
  <2> QED
    BY <1>3, <2>1, <2>2 DEF IsPush, IsRequest
<1> HIDE DEF p, save
<1>5. push'[t] = p /\ saves'[t] = Tail(saves[t])
  BY <1>1 DEF KnowledgeInv, Families
<1>6. StepOf(t)
  BY <1>1, ExtendsItself DEF KnowledgeInv, Families, StepOf, Untouched
<1>7. PutsFit'
  BY <1>1, <1>6, PutsStay DEF Waits
<1>8. TabKnows(t)' /\ PushKnows(t)'
  BY <1>1, <1>2, <1>3, <1>4, <1>5 DEF TabKnows, PushKnows
<1>9. Families'
  BY <1>1 DEF KnowledgeInv, Families
<1> QED
  BY <1>1, <1>6, <1>7, <1>8, <1>9, StepKeeps DEF KnowledgeInv, StoredKnown

(* The call of save that a push is for, and its attempts.                  *)
SameCall(q, p) ==
    q.ws = p.ws /\ q.apply = p.apply /\ q.newest = p.newest /\ q.tries = p.tries

(* The answer of the server is noted on the push.                          *)
Answered(p, at, answer) == [p EXCEPT !.at = at, !.answer = answer]

LEMMA AnsweredPush ==
    ASSUME NEW p, NEW h, IsRequest(p, h), NEW at, NEW answer
    PROVE  /\ IsRequest(Answered(p, at, answer), h)
           /\ Answered(p, at, answer).at = at /\ Answered(p, at, answer).answer = answer
           /\ Answered(p, at, answer).candidate = p.candidate
           /\ Answered(p, at, answer).base = p.base /\ Answered(p, at, answer).rev = p.rev
           /\ SameCall(Answered(p, at, answer), p)
<1> DEFINE q == [p EXCEPT !.at = at]
           r == [q EXCEPT !.answer = answer]
<1>1. /\ IsFunction(q) /\ DOMAIN q = PushFields /\ q.candidate = p.candidate
      /\ q.base = p.base /\ q.rev = p.rev /\ q.at = at /\ SameCall(q, p)
  BY DEF IsRequest, IsFunction, PushFields, SameCall
<1> HIDE DEF q
<1>2. /\ IsFunction(r) /\ DOMAIN r = PushFields /\ r.candidate = p.candidate
      /\ r.base = p.base /\ r.rev = p.rev /\ r.at = at /\ r.answer = answer /\ SameCall(r, p)
  BY <1>1 DEF IsFunction, PushFields, SameCall
<1> HIDE DEF r
<1>3. IsRequest(r, h)
  BY <1>1, <1>2 DEF IsRequest
<1>4. r = Answered(p, at, answer)
  BY DEF r, q, Answered
<1> QED
  BY <1>2, <1>3, <1>4

(* A push that stores its result, or its merge.                            *)
LEMMA StoringPush ==
    ASSUME NEW p, NEW h, IsRequest(p, h), NEW q, q = [p EXCEPT !.at = "store"]
    PROVE  /\ IsPush(q, h) /\ q.at = "store" /\ SameCall(q, p)
           /\ q.candidate = p.candidate /\ q.base = p.base /\ q.rev = p.rev
<1>1. /\ IsFunction(q) /\ DOMAIN q = PushFields /\ q.candidate = p.candidate
      /\ q.base = p.base /\ q.rev = p.rev /\ q.at = "store" /\ SameCall(q, p)
  BY DEF IsRequest, IsFunction, PushFields, SameCall
<1> QED
  BY <1>1 DEF IsPush, IsRequest

LEMMA ServeKeeps ==
    ASSUME NullNone, KnowledgeInv, NEW t \in Tab, Serve(t) PROVE KnowledgeInv'
<1> DEFINE p == push[t]
           applied == p.rev = Revision
           at == IF applied THEN "saved" ELSE "conflict"
           ws == IF applied THEN p.candidate ELSE Latest
           r == IF applied THEN Revision + 1 ELSE Revision
           answer == [rev |-> r, ws |-> ws]
           p2 == Answered(p, at, answer)
<1>1. /\ p # None /\ p.at = "sent" /\ push' = [push EXCEPT ![t] = p2]
      /\ history' = IF applied THEN Append(history, p.candidate) ELSE history
      /\ UNCHANGED <<late, cache, writes, phase, fetched, view, base, rev, saves>>
  BY DEF Serve, Answered, cacheVars, screenVars, fieldVars
<1>2. TabKnows(t) /\ IsPush(p, history) /\ IsFunction(p.candidate) /\ phase[t] = "open"
  BY <1>1 DEF KnowledgeInv, TabKnows, PushKnows, IsPush, IsRequest
<1>3. /\ IsSequence(history) /\ Len(history) \in Nat \ {0} /\ DOMAIN history = 1 .. Len(history)
      /\ \A n \in DOMAIN history : IsFunction(history[n])
  BY DEF KnowledgeInv, Families, IsSequence, StoredKnown
<1>4. /\ IsSequence(history') /\ Len(history') > 0 /\ Extends(history', history)
      /\ \A n \in DOMAIN history' : IsFunction(history'[n])
      /\ Known(ws, r, history')
  <2>1. CASE applied
    <3> DEFINE h == Append(history, p.candidate)
    <3>1. /\ IsSequence(h) /\ Len(h) = Len(history) + 1 /\ DOMAIN h = 1 .. Len(history) + 1
          /\ \A n \in DOMAIN history : h[n] = history[n]
          /\ h[Len(history) + 1] = p.candidate
      BY <1>3, AppendIsSequence
    <3>2. history' = h /\ ws = p.candidate /\ r = Len(history)
      BY <1>1, <1>3, <2>1 DEF Revision
    <3> HIDE DEF h, ws, r, applied
    <3>3. \A n \in 1 .. Len(history) + 1 : n \in DOMAIN history \/ n = Len(history) + 1
      BY <1>3
    <3>4. \A n \in DOMAIN h : IsFunction(h[n])
      BY <1>2, <1>3, <3>1, <3>3
    <3>5. Known(ws, r, h)
      BY <1>3, <3>1, <3>2 DEF Known
    <3> QED
      BY <1>3, <3>1, <3>2, <3>4, <3>5 DEF Extends
  <2>2. CASE ~applied
    <3>1. history' = history /\ ws = history[Len(history)] /\ r = Len(history) - 1
      BY <1>1, <2>2 DEF Latest, Revision
    <3> QED
      BY <1>3, <3>1, ExtendsItself DEF Known
  <2> QED
    BY <2>1, <2>2
<1>5. IsPush(p2, history') /\ p2.at # "store"
  <2>1. IsRequest(p, history') /\ at \in {"saved", "conflict"}
    BY <1>2, <1>4, PushStays DEF IsPush
  <2>2. answer.ws = ws /\ answer.rev = r
    OBVIOUS
  <2>3. at = "saved" => ws = p.candidate
    OBVIOUS
  <2> HIDE DEF at, answer, ws, r, p
  <2>4. IsRequest(p2, history') /\ p2.at = at /\ p2.answer = answer /\ p2.candidate = p.candidate
    BY <2>1, AnsweredPush
  <2> QED
    BY <1>4, <2>1, <2>2, <2>3, <2>4 DEF IsPush
<1> HIDE DEF p2
<1>6. push'[t] = p2 /\ \A u \in Tab \ {t} : push'[u] = push[u]
  BY <1>1 DEF KnowledgeInv, Families
<1>7. StepOf(t)
  BY <1>1, <1>4, <1>6 DEF StepOf, Untouched
<1>8. PutsFit'
  <2>1. Waits(t)
    BY <1>1 DEF Waits
  <2> QED
    BY <1>1, <1>7, <2>1, PutsStay
<1>9. TabKnows(t)' /\ PushKnows(t)'
  <2>1. PushKnows(t)'
    BY <1>5, <1>6 DEF PushKnows
  <2>2. TabKnows(t)'
    BY <1>1, <1>2, <1>4, KnownStays DEF TabKnows
  <2> QED
    BY <2>1, <2>2
<1>10. Families'
  BY <1>1, <1>4 DEF KnowledgeInv, Families
<1> QED
  BY <1>1, <1>4, <1>7, <1>8, <1>9, <1>10, StepKeeps DEF KnowledgeInv, StoredKnown

LEMMA SavedAnswerKeeps ==
    ASSUME NullNone, KnowledgeInv, NEW t \in Tab, SavedAnswer(t) PROVE KnowledgeInv'
<1> DEFINE p == push[t]
           p2 == [p EXCEPT !.at = "store"]
           record == Record(p.candidate, p.candidate, p.answer.rev, FALSE)
<1>1. /\ p # None /\ p.at = "saved"
      /\ base' = [base EXCEPT ![t] = p.candidate] /\ rev' = [rev EXCEPT ![t] = p.answer.rev]
      /\ UNCHANGED <<history, late, cache, phase, fetched, view, saves>>
      /\ \/ writes' = Issue(t, writes, record, "saved") /\ push' = [push EXCEPT ![t] = p2]
         \/ writes' = writes /\ push' = [push EXCEPT ![t] = None]
  BY DEF SavedAnswer, Adopts, serverVars, screenVars
<1>2. /\ TabKnows(t) /\ IsPush(p, history) /\ IsFunction(p.candidate) /\ phase[t] = "open"
      /\ Known(p.candidate, p.answer.rev, history)
  BY <1>1 DEF KnowledgeInv, TabKnows, PushKnows, IsPush, IsRequest
<1>3. base'[t] = p.candidate /\ rev'[t] = p.answer.rev
  BY <1>1 DEF KnowledgeInv, Families
<1>4. StepOf(t)
  BY <1>1, ExtendsItself DEF KnowledgeInv, Families, StepOf, Untouched
<1>5. Waits(t)
  BY <1>1 DEF Waits
<1>6. TabKnows(t)'
  BY <1>1, <1>2, <1>3 DEF TabKnows
<1>7. CASE writes' = writes /\ push' = [push EXCEPT ![t] = None]
  <2>1. push'[t] = None
    BY <1>7 DEF KnowledgeInv, Families
  <2>2. PutsFit' /\ Families' /\ PushKnows(t)'
    BY <1>1, <1>4, <1>5, <1>7, <2>1, PutsStay DEF KnowledgeInv, Families, PushKnows
  <2> QED
    BY <1>1, <1>4, <1>6, <2>2, StepKeeps DEF KnowledgeInv, StoredKnown
<1>8. CASE writes' = Issue(t, writes, record, "saved") /\ push' = [push EXCEPT ![t] = p2]
  <2>1. IsPush(p2, history) /\ p2.at = "store" /\ p2.candidate = p.candidate
    <3>1. /\ IsFunction(p2) /\ DOMAIN p2 = PushFields /\ p2.candidate = p.candidate
          /\ p2.base = p.base /\ p2.rev = p.rev /\ p2.at = "store"
      BY <1>2 DEF IsPush, IsRequest, IsFunction, PushFields
    <3> HIDE DEF p2
    <3> QED
      BY <1>2, <3>1 DEF IsPush, IsRequest
  <2>2. p2 # None
    BY <2>1 DEF IsPush, IsRequest, NullNone, IsFunction
  <2> HIDE DEF p2
  <2>3. push'[t] = p2
    BY <1>8 DEF KnowledgeInv, Families
  <2>4. Remembers(record, history')
    <3>1. record.ws = p.candidate /\ record.base = p.candidate /\ record.rev = p.answer.rev
      BY DEF Record
    <3> HIDE DEF record
    <3> QED
      BY <1>1, <1>2, <3>1 DEF Remembers
  <2> HIDE DEF record
  <2>5. PutsFit' /\ DOMAIN writes' = Device
    <3>1. StillAwaited(t, "saved")
      BY <1>3, <2>1, <2>2, <2>3 DEF StillAwaited
    <3> QED
      BY <1>1, <1>4, <1>5, <1>8, <2>4, <3>1, PutIssued
  <2>6. Families' /\ PushKnows(t)'
    BY <1>1, <1>8, <2>1, <2>3, <2>5 DEF KnowledgeInv, Families, PushKnows
  <2> QED
    BY <1>1, <1>4, <1>6, <2>5, <2>6, StepKeeps DEF KnowledgeInv, StoredKnown
<1> QED
  BY <1>1, <1>7, <1>8

LEMMA RebasedPush ==
    ASSUME NEW p, NEW h, IsRequest(p, h), NEW merged, IsFunction(merged),
           Known(p.answer.ws, p.answer.rev, h)
    PROVE  /\ IsRequest(Rebased(p, merged), h)
           /\ Rebased(p, merged).candidate = merged /\ Rebased(p, merged).base = p.answer.ws
           /\ Rebased(p, merged).rev = p.answer.rev /\ Rebased(p, merged).tries = p.tries
           /\ Rebased(p, merged).newest = p.newest /\ Rebased(p, merged).apply = p.apply
           /\ Rebased(p, merged).ws = p.ws
<1> DEFINE answer == p.answer
           p1 == [p EXCEPT !.candidate = merged]
           p2 == [p1 EXCEPT !.base = answer.ws]
           p3 == [p2 EXCEPT !.rev = answer.rev]
           p4 == [p3 EXCEPT !.answer = None]
           Same(q) == /\ q.ws = p.ws /\ q.apply = p.apply /\ q.newest = p.newest /\ q.tries = p.tries
                      /\ q.candidate = merged
<1>1. IsFunction(p1) /\ DOMAIN p1 = PushFields /\ Same(p1)
  BY DEF IsRequest, IsFunction, PushFields
<1> HIDE DEF p1, answer
<1>2. IsFunction(p2) /\ DOMAIN p2 = PushFields /\ Same(p2) /\ p2.base = answer.ws
  BY <1>1 DEF IsFunction, PushFields
<1> HIDE DEF p2
<1>3. IsFunction(p3) /\ DOMAIN p3 = PushFields /\ Same(p3) /\ p3.base = answer.ws /\ p3.rev = answer.rev
  BY <1>2 DEF IsFunction, PushFields
<1> HIDE DEF p3
<1>4. IsFunction(p4) /\ DOMAIN p4 = PushFields /\ Same(p4) /\ p4.base = answer.ws /\ p4.rev = answer.rev
  BY <1>3 DEF IsFunction, PushFields
<1> HIDE DEF p4
<1>5. IsRequest(p4, h)
  BY <1>4 DEF IsRequest, answer
<1>6. p4 = Rebased(p, merged)
  BY DEF p1, p2, p3, p4, answer, Rebased
<1> QED
  BY <1>4, <1>5, <1>6 DEF answer

Resent(p) == [p EXCEPT !.at = "sent", !.tries = @ + 1]

LEMMA ResentPush ==
    ASSUME NEW p, NEW h, IsRequest(p, h)
    PROVE  /\ IsPush(Resent(p), h) /\ Resent(p).at = "sent" /\ Resent(p).candidate = p.candidate
           /\ Resent(p).tries = p.tries + 1 /\ Resent(p).base = p.base /\ Resent(p).rev = p.rev
           /\ Resent(p).newest = p.newest /\ Resent(p).apply = p.apply /\ Resent(p).ws = p.ws
<1> DEFINE q == [p EXCEPT !.at = "sent"]
           r == [q EXCEPT !.tries = q.tries + 1]
           Same(x) == /\ x.ws = p.ws /\ x.apply = p.apply /\ x.newest = p.newest
                      /\ x.candidate = p.candidate /\ x.base = p.base /\ x.rev = p.rev
<1>1. IsFunction(q) /\ DOMAIN q = PushFields /\ Same(q) /\ q.at = "sent" /\ q.tries = p.tries
  BY DEF IsRequest, IsFunction, PushFields
<1>2. Resent(p) = r
  BY DEF Resent, IsRequest, PushFields
<1> HIDE DEF q
<1>3. IsFunction(r) /\ DOMAIN r = PushFields /\ Same(r) /\ r.at = "sent" /\ r.tries = p.tries + 1
  BY <1>1 DEF IsFunction, PushFields
<1> HIDE DEF r
<1>4. IsPush(r, h)
  BY <1>3 DEF IsPush, IsRequest
<1> QED
  BY <1>2, <1>3, <1>4

(* However a push goes on or ends, its tab knows what it should.           *)
LEMMA NextTryKnows ==
    ASSUME KnowledgeInv, NEW t \in Tab, phase[t] = "open", NEW p, IsRequest(p, history),
           NextTry(t, p), UNCHANGED <<history, phase, fetched, saves>>,
           Known(base'[t], rev'[t], history)
    PROVE  /\ TabKnows(t)' /\ PushKnows(t)'
           /\ \A u \in Tab \ {t} : view'[u] = view[u] /\ push'[u] = push[u]
           /\ DOMAIN view' = Tab /\ DOMAIN push' = Tab
<1>1. TabKnows(t) /\ DOMAIN view = Tab /\ DOMAIN push = Tab /\ IsFunction(p.candidate)
  BY DEF KnowledgeInv, Families, IsRequest
<1>2. /\ view' = view \/ view' = [view EXCEPT ![t] = IF push[t].apply /\ view[t] = push[t].ws /\ p.candidate # view[t]
                                                  THEN p.candidate ELSE view[t]]
      /\ push' = [push EXCEPT ![t] = Resent(p)] \/ push' = [push EXCEPT ![t] = None]
  BY DEF NextTry, Resolve, screenVars, Resent
<1>3. view'[t] = view[t] \/ view'[t] = p.candidate
  BY <1>1, <1>2
<1>4. push'[t] = Resent(p) \/ push'[t] = None
  BY <1>1, <1>2
<1>5. PushKnows(t)'
  BY <1>4, ResentPush DEF PushKnows
<1>6. TabKnows(t)'
  BY <1>1, <1>3 DEF TabKnows
<1> QED
  BY <1>1, <1>2, <1>5, <1>6

LEMMA ConflictAnswerKeeps ==
    ASSUME NullNone, KnowledgeInv, NEW t \in Tab, ConflictAnswer(t) PROVE KnowledgeInv'
<1> DEFINE p == push[t]
           merged == Reconciled(p.answer.ws, p.candidate, p.base, copies + 1)
           q == Rebased(p, merged)
           p2 == [q EXCEPT !.at = "store"]
           record == Record(merged, p.answer.ws, p.answer.rev, TRUE)
<1>1. /\ p # None /\ p.at = "conflict"
      /\ base' = [base EXCEPT ![t] = p.answer.ws] /\ rev' = [rev EXCEPT ![t] = p.answer.rev]
      /\ UNCHANGED <<history, late, cache, phase, fetched, saves>>
      /\ \/ /\ writes' = Issue(t, writes, record, "merged") /\ push' = [push EXCEPT ![t] = p2]
            /\ view' = view
         \/ writes' = writes /\ NextTry(t, q)
  BY DEF ConflictAnswer, serverVars, screenVars
<1>2. /\ TabKnows(t) /\ IsRequest(p, history) /\ phase[t] = "open"
      /\ Known(p.answer.ws, p.answer.rev, history)
  BY <1>1 DEF KnowledgeInv, TabKnows, PushKnows, IsPush
<1>3. base'[t] = p.answer.ws /\ rev'[t] = p.answer.rev
  BY <1>1 DEF KnowledgeInv, Families
<1>4. IsFunction(merged)
  BY DEF Reconciled, With, IsFunction
<1> HIDE DEF merged
<1>5. IsRequest(q, history) /\ q.candidate = merged
  BY <1>2, <1>4, RebasedPush
<1> HIDE DEF q
<1>6. Waits(t) /\ Extends(history', history)
  BY <1>1, ExtendsItself DEF Waits, KnowledgeInv, Families
<1>7. CASE writes' = writes /\ NextTry(t, q)
  <2>1. /\ TabKnows(t)' /\ PushKnows(t)'
        /\ \A u \in Tab \ {t} : view'[u] = view[u] /\ push'[u] = push[u]
        /\ DOMAIN view' = Tab /\ DOMAIN push' = Tab
    BY <1>1, <1>2, <1>3, <1>5, <1>7, NextTryKnows
  <2>2. StepOf(t)
    BY <1>1, <1>6, <2>1 DEF StepOf, Untouched
  <2>3. PutsFit' /\ Families'
    BY <1>1, <1>6, <1>7, <2>1, <2>2, PutsStay DEF KnowledgeInv, Families
  <2> QED
    BY <1>1, <2>1, <2>2, <2>3, StepKeeps DEF KnowledgeInv, StoredKnown
<1>8. CASE /\ writes' = Issue(t, writes, record, "merged") /\ push' = [push EXCEPT ![t] = p2]
           /\ view' = view
  <2>1. IsPush(p2, history) /\ p2.at = "store"
    <3>1. /\ IsFunction(p2) /\ DOMAIN p2 = PushFields /\ p2.candidate = q.candidate
          /\ p2.base = q.base /\ p2.rev = q.rev /\ p2.at = "store"
      BY <1>5 DEF IsRequest, IsFunction, PushFields
    <3> HIDE DEF p2
    <3> QED
      BY <1>5, <3>1 DEF IsPush, IsRequest
  <2>2. p2 # None
    BY <2>1 DEF IsPush, IsRequest, NullNone, IsFunction
  <2> HIDE DEF p2
  <2>3. push'[t] = p2
    BY <1>8 DEF KnowledgeInv, Families
  <2>4. Remembers(record, history')
    <3>1. record.ws = merged /\ record.base = p.answer.ws /\ record.rev = p.answer.rev
      BY DEF Record
    <3> HIDE DEF record
    <3> QED
      BY <1>1, <1>2, <1>4, <3>1 DEF Remembers
  <2> HIDE DEF record
  <2>5. StepOf(t)
    BY <1>1, <1>6, <1>8 DEF StepOf, Untouched
  <2>6. PutsFit' /\ DOMAIN writes' = Device
    <3>1. StillAwaited(t, "merged")
      BY <2>1, <2>2, <2>3 DEF StillAwaited
    <3> QED
      BY <1>1, <1>6, <1>8, <2>4, <2>5, <3>1, PutIssued
  <2>7. Families' /\ PushKnows(t)' /\ TabKnows(t)'
    BY <1>1, <1>2, <1>3, <1>8, <2>1, <2>3, <2>6 DEF KnowledgeInv, Families, PushKnows, TabKnows
  <2> QED
    BY <1>1, <2>5, <2>6, <2>7, StepKeeps DEF KnowledgeInv, StoredKnown
<1> QED
  BY <1>1, <1>7, <1>8

LEMMA FailsKeeps ==
    ASSUME NullNone, KnowledgeInv, NEW t \in Tab, Fails(t) PROVE KnowledgeInv'
<1> DEFINE p == push[t]
<1>1. /\ p # None /\ p.at # "store"
      /\ late' = late \/ late' = late \cup {[ws |-> p.candidate, rev |-> p.rev]}
      /\ UNCHANGED <<history, cache, writes, phase, fetched, base, rev, saves>>
      /\ push' = [push EXCEPT ![t] = None]
      /\ \/ view' = view
         \/ view' = [view EXCEPT ![t] = IF push[t].apply /\ view[t] = push[t].ws /\ p.candidate # view[t]
                                         THEN p.candidate ELSE view[t]]
  BY DEF Fails, Resolve, screenVars, cacheVars
<1>2. TabKnows(t) /\ phase[t] = "open" /\ IsFunction(p.candidate)
  BY <1>1 DEF KnowledgeInv, TabKnows, PushKnows, IsPush, IsRequest
<1>3. \A r \in late' : IsFunction(r.ws)
  BY <1>1, <1>2 DEF KnowledgeInv, StoredKnown
<1>4. push'[t] = None /\ (view'[t] = view[t] \/ view'[t] = p.candidate)
  BY <1>1 DEF KnowledgeInv, Families
<1>5. TabKnows(t)' /\ PushKnows(t)'
  BY <1>1, <1>2, <1>4 DEF TabKnows, PushKnows
<1>6. StepOf(t)
  BY <1>1, ExtendsItself DEF KnowledgeInv, Families, StepOf, Untouched
<1>7. PutsFit'
  BY <1>1, <1>6, PutsStay DEF Waits
<1>8. Families'
  BY <1>1 DEF KnowledgeInv, Families
<1> QED
  BY <1>1, <1>3, <1>5, <1>6, <1>7, <1>8, StepKeeps DEF KnowledgeInv, StoredKnown

(* A request that arrives when nobody waits for it any more.               *)
LEMMA LateKeeps ==
    ASSUME KnowledgeInv, Late PROVE KnowledgeInv'
<1>1. /\ UNCHANGED <<cache, writes, phase, fetched, view, base, rev, saves, push>>
      /\ late' \subseteq late
      /\ history' = history \/ \E r \in late : history' = Append(history, r.ws)
  BY DEF Late, cacheVars, screenVars, fieldVars, queueVars
<1>2. /\ IsSequence(history') /\ Len(history') > 0 /\ Extends(history', history)
      /\ \A n \in DOMAIN history' : IsFunction(history'[n])
  <2>1. /\ IsSequence(history) /\ Len(history) > 0
        /\ \A n \in DOMAIN history : IsFunction(history[n])
    BY DEF KnowledgeInv, Families, StoredKnown
  <2>2. CASE history' = history
    BY <2>1, <2>2, ExtendsItself
  <2>3. CASE \E r \in late : history' = Append(history, r.ws)
    <3>1. PICK r \in late : history' = Append(history, r.ws)
      BY <2>3
    <3> DEFINE ws == r.ws
               h == Append(history, ws)
    <3>2. IsFunction(ws) /\ history' = h
      BY <3>1 DEF KnowledgeInv, StoredKnown
    <3> HIDE DEF ws
    <3>3. /\ IsSequence(h) /\ Len(h) = Len(history) + 1 /\ Len(history) \in Nat
          /\ DOMAIN history = 1 .. Len(history) /\ DOMAIN h = 1 .. Len(history) + 1
          /\ \A n \in DOMAIN history : h[n] = history[n]
          /\ h[Len(history) + 1] = ws
      BY <2>1, AppendIsSequence
    <3>4. Extends(h, history)
      BY <2>1, ExtendsByAppend
    <3> HIDE DEF h
    <3>5. \A n \in DOMAIN h : n \in DOMAIN history \/ n = Len(history) + 1
      BY <3>3
    <3>6. \A n \in DOMAIN h : IsFunction(h[n])
      BY <2>1, <3>2, <3>3, <3>5
    <3> QED
      BY <3>2, <3>3, <3>4, <3>6
  <2> QED
    BY <1>1, <2>2, <2>3
<1>3. \A u \in Tab : TabKnows(u)' /\ PushKnows(u)'
  BY <1>1, <1>2, OthersKnow DEF Untouched
<1>4. PutsFit'
  <2>1. ASSUME NEW v \in Device PROVE Fit(v, writes'[v], phase', push', base', history')
    <3>1. Fit(v, writes[v], phase, push, base, history)
      BY DEF KnowledgeInv, PutsFit
    <3>2. \A i \in DOMAIN writes[v] : Awaited(v, writes[v][i], phase, push, base)
      BY <3>1 DEF Fit
    <3>3. Fit(v, writes[v], phase, push, base, history')
      BY <1>2, <3>1, <3>2, FitStays
    <3> QED
      BY <1>1, <3>3
  <2> QED
    BY <2>1 DEF PutsFit
<1>5. StoredKnown'
  <2>1. \A r \in late' : IsFunction(r.ws)
    BY <1>1 DEF KnowledgeInv, StoredKnown
  <2>2. \A v \in Device : cache'[v] # None => Remembers(cache'[v], history')
    BY <1>1, <1>2, RemembersStays DEF KnowledgeInv, StoredKnown
  <2> QED
    BY <1>2, <2>1, <2>2 DEF StoredKnown
<1>6. Families'
  BY <1>1, <1>2 DEF KnowledgeInv, Families
<1> QED
  BY <1>3, <1>4, <1>5, <1>6 DEF KnowledgeInv

-----------------------------------------------------------------------------
(* A put completes, or is aborted.                                         *)

(* When the first put of v resumes its await and the step ends no await    *)
(* but that one, the puts that remain are still waited for.                *)
LEMMA PutCompleted ==
    ASSUME KnowledgeInv, NEW v \in Device, writes[v] # << >>,
           NEW t \in Tab, t = Head(writes[v]).tab, Head(writes[v]).then # "aborted", StepOf(t),
           \A w : Awaited(v, w, phase, push, base) /\ w.tab = t /\ ~Rivals(Head(writes[v]), w)
                     => StillAwaited(t, w.then)
    PROVE  /\ Fit(v, Tail(writes[v]), phase', push', base', history')
           /\ \A x \in Device \ {v} : Fit(x, writes[x], phase', push', base', history')
           /\ DeviceOf[t] = v
<1>1. \A x \in Device : Fit(x, writes[x], phase, push, base, history)
  BY DEF KnowledgeInv, PutsFit
<1> DEFINE put == Head(writes[v])
           rest == Tail(writes[v])
<1>2. /\ Awaited(v, put, phase, push, base)
      /\ Fit(v, rest, phase, push, base, history)
      /\ \A i \in DOMAIN rest : ~Rivals(put, rest[i])
  BY <1>1, FitTail
<1>3. DeviceOf[t] = v
  BY <1>2 DEF Awaited
<1> HIDE DEF rest
<1>4. \A i \in DOMAIN rest : rest[i].tab = t => StillAwaited(t, rest[i].then)
  BY <1>2 DEF Fit
<1>5. Fit(v, rest, phase', push', base', history')
  BY <1>2, <1>4, FitStep
<1>6. ASSUME NEW x \in Device \ {v} PROVE Fit(x, writes[x], phase', push', base', history')
  <2>1. \A i \in DOMAIN writes[x] : writes[x][i].tab = t => writes[x][i].then = "aborted"
    BY <1>1, <1>3 DEF Fit, Awaited
  <2>2. \A i \in DOMAIN writes[x] : writes[x][i].tab = t => StillAwaited(t, writes[x][i].then)
    BY <2>1 DEF StillAwaited
  <2> QED
    BY <1>1, <2>2, FitStep
<1> QED
  BY <1>3, <1>5, <1>6 DEF rest

(* What the completed put recorded is what it remembered; the rest of the  *)
(* invariant is about the tab it resumes.                                  *)
LEMMA CompletionKeeps ==
    ASSUME KnowledgeInv, NEW v \in Device, writes[v] # << >>, NEW t \in Tab, StepOf(t),
           cache' = [cache EXCEPT ![v] = Head(writes[v]).record],
           UNCHANGED <<history, late>>,
           PutsFit', Families', TabKnows(t)', PushKnows(t)'
    PROVE  KnowledgeInv'
<1>1. Remembers(Head(writes[v]).record, history)
  BY FitTail DEF KnowledgeInv, PutsFit
<1>2. StoredKnown'
  <2>1. \A x \in Device : cache'[x] # None => Remembers(cache'[x], history')
    <3> SUFFICES ASSUME NEW x \in Device, cache'[x] # None PROVE Remembers(cache'[x], history')
      OBVIOUS
    <3>1. cache'[x] = IF x = v THEN Head(writes[v]).record ELSE cache[x]
      BY DEF KnowledgeInv, Families
    <3> QED
      BY <1>1, <3>1 DEF KnowledgeInv, StoredKnown
  <2> QED
    BY <2>1 DEF KnowledgeInv, StoredKnown
<1>3. \A u \in Tab : TabKnows(u)' /\ PushKnows(u)'
  BY OthersKnow DEF StepOf
<1> QED
  BY <1>2, <1>3 DEF KnowledgeInv

(* What the disjuncts of Stored have in common.                            *)
Completes(v, t) ==
    /\ writes[v] # << >> /\ t = Head(writes[v]).tab
    /\ cache' = [cache EXCEPT ![v] = Head(writes[v]).record]
    /\ UNCHANGED <<history, late, base, rev>>
Rest(v) == [writes EXCEPT ![v] = Tail(@)]

LEMMA RestFits ==
    ASSUME KnowledgeInv, NEW v \in Device, NEW t \in Tab, Completes(v, t), writes' = Rest(v),
           Head(writes[v]).then # "aborted", StepOf(t),
           \A w : Awaited(v, w, phase, push, base) /\ w.tab = t /\ ~Rivals(Head(writes[v]), w)
                     => StillAwaited(t, w.then)
    PROVE  PutsFit' /\ DOMAIN writes' = Device
<1>1. /\ Fit(v, Tail(writes[v]), phase', push', base', history')
      /\ \A x \in Device \ {v} : Fit(x, writes[x], phase', push', base', history')
  BY PutCompleted DEF Completes
<1>2. /\ DOMAIN writes' = Device /\ writes'[v] = Tail(writes[v])
      /\ \A x \in Device \ {v} : writes'[x] = writes[x]
  BY DEF Rest, KnowledgeInv, Families
<1>3. \A x \in Device : Fit(x, writes'[x], phase', push', base', history')
  BY <1>1, <1>2
<1> QED
  BY <1>2, <1>3 DEF PutsFit

LEMMA LoadStoredKeeps ==
    ASSUME NullNone, KnowledgeInv, NEW v \in Device, NEW t \in Tab, Completes(v, t),
           Head(writes[v]).then = "load", LoadStored(t, Rest(v))
    PROVE  KnowledgeInv'
<1>1. /\ phase' = [phase EXCEPT ![t] = "open"] /\ view' = [view EXCEPT ![t] = base[t]]
      /\ fetched' = [fetched EXCEPT ![t] = None] /\ writes' = Rest(v)
      /\ UNCHANGED <<saves, push, history, late, base, rev>>
  BY DEF LoadStored, Shows, queueVars, Completes
<1>2. phase[t] = "store" /\ TabKnows(t) /\ push[t] = None /\ saves[t] = << >>
  <2>1. Awaited(v, Head(writes[v]), phase, push, base)
    BY FitTail DEF KnowledgeInv, PutsFit, Completes
  <2> QED
    BY <2>1 DEF Awaited, Completes, KnowledgeInv, TabKnows
<1>3. IsFunction(base[t])
  BY <1>2, BaseIsThere
<1>4. StepOf(t)
  BY <1>1, ExtendsItself DEF KnowledgeInv, Families, StepOf, Untouched
<1>5. phase'[t] = "open" /\ view'[t] = base[t]
  BY <1>1 DEF KnowledgeInv, Families
<1>6. PutsFit' /\ DOMAIN writes' = Device
  <2>1. ASSUME NEW w, Awaited(v, w, phase, push, base), w.tab = t, ~Rivals(Head(writes[v]), w)
        PROVE  StillAwaited(t, w.then)
    BY <1>2, <2>1 DEF Awaited, StillAwaited, Rivals, Completes
  <2> QED
    BY <1>1, <1>4, <2>1, RestFits
<1>7. Families'
  BY <1>1, <1>6 DEF KnowledgeInv, Families, Completes
<1>8. TabKnows(t)' /\ PushKnows(t)'
  BY <1>1, <1>2, <1>3, <1>5 DEF TabKnows, PushKnows
<1> QED
  BY <1>1, <1>4, <1>6, <1>7, <1>8, CompletionKeeps DEF Completes

LEMMA ResultStoredKeeps ==
    ASSUME NullNone, KnowledgeInv, NEW v \in Device, NEW t \in Tab, Completes(v, t),
           \/ Head(writes[v]).then = "saved" /\ ResultStored(t, Rest(v))
           \/ Head(writes[v]).then = "merged" /\ MergeStored(t, Rest(v))
    PROVE  KnowledgeInv'
<1> DEFINE p == push[t]
<1>1. writes' = Rest(v) /\ UNCHANGED <<phase, fetched, saves, history, late, base, rev>>
  BY DEF ResultStored, MergeStored, Completes
<1>2. /\ Head(writes[v]).then \in {"saved", "merged"} /\ p # None /\ p.at = "store"
      /\ TabKnows(t) /\ phase[t] = "open" /\ IsRequest(p, history)
      /\ Known(base[t], rev[t], history)
  <2>1. Awaited(v, Head(writes[v]), phase, push, base)
    BY FitTail DEF KnowledgeInv, PutsFit, Completes
  <2>2. p # None /\ p.at = "store" /\ Head(writes[v]).then \in {"saved", "merged"}
    BY <2>1 DEF Awaited, Completes
  <2> QED
    BY <2>2 DEF KnowledgeInv, TabKnows, PushKnows, IsPush
<1>3. /\ TabKnows(t)' /\ PushKnows(t)'
      /\ \A u \in Tab \ {t} : view'[u] = view[u] /\ push'[u] = push[u]
      /\ DOMAIN view' = Tab /\ DOMAIN push' = Tab
  <2>1. CASE MergeStored(t, Rest(v))
    BY <1>1, <1>2, <2>1, NextTryKnows DEF MergeStored
  <2>2. CASE ResultStored(t, Rest(v))
    <3>1. /\ view' = [view EXCEPT ![t] = IF p.apply /\ view[t] = p.ws /\ p.candidate # view[t]
                                          THEN p.candidate ELSE view[t]]
          /\ push' = [push EXCEPT ![t] = None]
      BY <2>2 DEF ResultStored, Resolve
    <3>2. /\ DOMAIN view' = Tab /\ DOMAIN push' = Tab
          /\ \A u \in Tab \ {t} : view'[u] = view[u] /\ push'[u] = push[u]
          /\ view'[t] \in {view[t], p.candidate} /\ push'[t] = None
      BY <3>1 DEF KnowledgeInv, Families
    <3>3. TabKnows(t)' /\ PushKnows(t)'
      BY <1>1, <1>2, <3>2 DEF TabKnows, PushKnows, IsRequest
    <3> QED
      BY <3>2, <3>3
  <2> QED
    BY <2>1, <2>2
<1>4. StepOf(t)
  BY <1>1, <1>3, ExtendsItself DEF KnowledgeInv, Families, StepOf, Untouched
<1>5. PutsFit' /\ DOMAIN writes' = Device
  <2>1. ASSUME NEW w, Awaited(v, w, phase, push, base), w.tab = t, ~Rivals(Head(writes[v]), w)
        PROVE  StillAwaited(t, w.then)
    BY <1>1, <1>2, <2>1 DEF Awaited, StillAwaited, Rivals, Completes
  <2> QED
    BY <1>1, <1>2, <1>4, <2>1, RestFits
<1>6. Families'
  BY <1>1, <1>3, <1>5 DEF KnowledgeInv, Families, Completes
<1> QED
  BY <1>1, <1>3, <1>4, <1>5, <1>6, CompletionKeeps DEF Completes

LEMMA SaveStoredKeeps ==
    ASSUME NullNone, KnowledgeInv, NEW v \in Device, NEW t \in Tab, Completes(v, t),
           Head(writes[v]).then = "save", SaveStored(t, Rest(v))
    PROVE  KnowledgeInv'
<1> DEFINE U == Uncached(saves[t])
           first == CHOOSE i \in U : \A j \in U : i <= j
           left == U \ {first}
           record == PendingRecord(t, saves[t][first + 1].ws)
           w == [tab |-> t, record |-> record, then |-> "save"]
<1>1. /\ saves' = [saves EXCEPT ![t][first].cached = TRUE]
      /\ writes' = IF left = {} THEN Rest(v) ELSE Issue(t, Rest(v), record, "save")
      /\ UNCHANGED <<phase, fetched, view, push, history, late, base, rev>>
  BY DEF SaveStored, screenVars, Completes
<1>2. TabKnows(t) /\ phase[t] = "open" /\ DeviceOf[t] = v
  <2>1. Awaited(v, Head(writes[v]), phase, push, base)
    BY FitTail DEF KnowledgeInv, PutsFit, Completes
  <2> QED
    BY <2>1 DEF Awaited, Completes, KnowledgeInv
<1>3. IsSequence(saves'[t]) /\ \A i \in DOMAIN saves'[t] : IsSave(saves'[t][i])
  <2> DEFINE q == saves[t]
             r == [q EXCEPT ![first] = [q[first] EXCEPT !.cached = TRUE]]
  <2>1. saves'[t] = r
    BY <1>1 DEF KnowledgeInv, Families
  <2>2. IsSequence(q) /\ \A i \in DOMAIN q : IsSave(q[i])
    BY <1>2 DEF TabKnows
  <2> HIDE DEF first
  <2>3. IsFunction(r) /\ DOMAIN r = DOMAIN q
    BY DEF IsFunction
  <2>4. ASSUME NEW i \in DOMAIN q PROVE IsSave(r[i])
    <3>1. CASE i # first
      BY <2>2, <3>1
    <3>2. CASE i = first
      <4>1. r[i] = [q[i] EXCEPT !.cached = TRUE] /\ IsSave(q[i])
        BY <2>2, <3>2
      <4> HIDE DEF r, q
      <4> QED
        BY <4>1 DEF IsSave, IsFunction, SaveFields
    <3> QED
      BY <3>1, <3>2
  <2> HIDE DEF r
  <2>5. IsSequence(r)
    BY <2>2, <2>3, MappedIsSequence
  <2> QED
    BY <2>1, <2>3, <2>4, <2>5
<1>4. DOMAIN saves' = Tab /\ \A u \in Tab \ {t} : saves'[u] = saves[u]
  BY <1>1 DEF KnowledgeInv, Families
<1>5. StepOf(t) /\ Waits(t)
  BY <1>1, <1>4, ExtendsItself DEF KnowledgeInv, Families, StepOf, Untouched, Waits
<1>6. left # {} => Remembers(record, history)
  <2> SUFFICES ASSUME left # {} PROVE Remembers(record, history)
    OBVIOUS
  <2> DEFINE n == Len(saves[t])
  <2>1. DOMAIN saves[t] = 1 .. n /\ n \in Nat
    BY <1>2 DEF TabKnows, IsSequence
  <2>2. U \in SUBSET Nat /\ U \subseteq 1 .. n /\ U # {}
    BY <2>1 DEF Uncached
  <2>3. first \in U /\ \A j \in U : first <= j
    BY <2>2, LeastElement
  <2>4. PICK j \in U : j # first
    OBVIOUS
  <2> HIDE DEF first, U, n
  <2>5. first + 1 \in 1 .. n
    <3>1. first \in 1 .. n /\ j \in 1 .. n /\ first <= j /\ first # j
      BY <2>2, <2>3, <2>4
    <3> QED
      BY <2>1, <3>1
  <2>6. IsFunction(saves[t][first + 1].ws)
    BY <1>2, <2>1, <2>5 DEF TabKnows, IsSave
  <2>7. record.ws = saves[t][first + 1].ws /\ record.base = base[t] /\ record.rev = rev[t]
    BY <1>2, BaseIsThere DEF PendingRecord, Record, Else
  <2> HIDE DEF record
  <2> QED
    BY <1>2, <2>6, <2>7, BaseIsThere DEF Remembers
<1>7. PutsFit' /\ DOMAIN writes' = Device
  <2>1. \A x : Awaited(v, x, phase, push, base) /\ x.tab = t /\ ~Rivals(Head(writes[v]), x)
                 => StillAwaited(t, x.then)
    BY <1>5 DEF Awaited, Waits, StillAwaited
  <2>2. CASE left = {}
    BY <1>1, <1>2, <1>5, <2>1, <2>2, RestFits DEF Completes
  <2>3. CASE left # {}
    <3> DEFINE q == Tail(writes[v])
    <3>1. /\ Fit(v, q, phase', push', base', history')
          /\ \A x \in Device \ {v} : Fit(x, writes[x], phase', push', base', history')
      BY <1>5, <2>1, PutCompleted DEF Completes
    <3>2. /\ DOMAIN writes' = Device /\ writes'[v] = Append(q, w)
          /\ \A x \in Device \ {v} : writes'[x] = writes[x]
      BY <1>1, <1>2, <2>3 DEF Issue, Rest, KnowledgeInv, Families
    <3>3. /\ Awaited(v, w, phase', push', base') /\ Remembers(w.record, history')
          /\ \A i \in DOMAIN q : ~Rivals(w, q[i])
      <4>1. IsFunction(w) /\ DOMAIN w = PutFields /\ w.tab = t /\ w.then = "save" /\ w.record = record
        BY DEF IsFunction, PutFields
      <4> HIDE DEF w, record
      <4> QED
        BY <1>1, <1>2, <1>6, <2>3, <4>1 DEF Awaited, Rivals
    <3> HIDE DEF q, w
    <3>4. Fit(v, writes'[v], phase', push', base', history')
      BY <3>1, <3>2, <3>3, FitAppend
    <3>5. \A x \in Device : Fit(x, writes'[x], phase', push', base', history')
      BY <3>1, <3>2, <3>4
    <3> QED
      BY <3>2, <3>5 DEF PutsFit
  <2> QED
    BY <2>2, <2>3
<1>8. Families'
  BY <1>1, <1>4, <1>7 DEF KnowledgeInv, Families, Completes
<1>9. TabKnows(t)' /\ PushKnows(t)'
  BY <1>1, <1>2, <1>3 DEF TabKnows, PushKnows, KnowledgeInv
<1> QED
  BY <1>1, <1>5, <1>7, <1>8, <1>9, CompletionKeeps DEF Completes

(* The put of a tab that has closed leaves the queue without a trace.      *)
LEMMA AbortedKeeps ==
    ASSUME KnowledgeInv, NEW v \in Device, writes[v] # << >>, writes' = Rest(v),
           UNCHANGED <<history, late, cache, phase, fetched, view, base, rev, saves, push>>
    PROVE  KnowledgeInv'
<1>1. /\ DOMAIN writes' = Device /\ writes'[v] = Tail(writes[v])
      /\ \A x \in Device \ {v} : writes'[x] = writes[x]
  BY DEF Rest, KnowledgeInv, Families
<1>2. Fit(v, Tail(writes[v]), phase, push, base, history)
  BY FitTail DEF KnowledgeInv, PutsFit
<1>3. \A x \in Device : Fit(x, writes'[x], phase, push, base, history)
  BY <1>1, <1>2 DEF KnowledgeInv, PutsFit
<1>4. PutsFit'
  BY <1>3 DEF PutsFit
<1>5. Families'
  BY <1>1 DEF KnowledgeInv, Families
<1>6. StoredKnown'
  BY DEF KnowledgeInv, StoredKnown
<1>7. \A t \in Tab : TabKnows(t)' /\ PushKnows(t)'
  BY DEF KnowledgeInv, TabKnows, PushKnows
<1> QED
  BY <1>4, <1>5, <1>6, <1>7 DEF KnowledgeInv

LEMMA StoredKeeps ==
    ASSUME NullNone, KnowledgeInv, NEW v \in Device, Stored(v) PROVE KnowledgeInv'
<1> DEFINE put == Head(writes[v])
<1>1. writes[v] # << >> /\ UNCHANGED <<history, late, base, rev>>
  BY DEF Stored, serverVars
<1>2. \/ /\ \/ put.then = "load" /\ LoadStored(put.tab, Rest(v))
            \/ put.then = "save" /\ SaveStored(put.tab, Rest(v))
            \/ put.then = "saved" /\ ResultStored(put.tab, Rest(v))
            \/ put.then = "merged" /\ MergeStored(put.tab, Rest(v))
         /\ cache' = [cache EXCEPT ![v] = put.record]
      \/ /\ put.then = "aborted" /\ writes' = Rest(v)
         /\ UNCHANGED <<cache, phase, fetched, view, saves, push>>
  BY DEF Stored, Rest, screenVars, queueVars
<1>3. put.tab \in Tab
  BY <1>1, FitTail DEF KnowledgeInv, PutsFit, Awaited
<1>4. CASE put.then = "aborted" /\ writes' = Rest(v) /\ UNCHANGED <<cache, phase, fetched, view, saves, push>>
  BY <1>1, <1>4, AbortedKeeps
<1>5. CASE cache' = [cache EXCEPT ![v] = put.record]
           /\ \/ put.then = "load" /\ LoadStored(put.tab, Rest(v))
              \/ put.then = "save" /\ SaveStored(put.tab, Rest(v))
              \/ put.then = "saved" /\ ResultStored(put.tab, Rest(v))
              \/ put.then = "merged" /\ MergeStored(put.tab, Rest(v))
  <2> DEFINE t == put.tab
  <2>1. Completes(v, t)
    BY <1>1, <1>5 DEF Completes
  <2>2. t \in Tab
    BY <1>3
  <2> HIDE DEF t
  <2>3. \/ put.then = "load" /\ LoadStored(t, Rest(v))
        \/ put.then = "save" /\ SaveStored(t, Rest(v))
        \/ put.then = "saved" /\ ResultStored(t, Rest(v))
        \/ put.then = "merged" /\ MergeStored(t, Rest(v))
    BY <1>5 DEF t
  <2> QED
    BY <2>1, <2>2, <2>3, LoadStoredKeeps, SaveStoredKeeps, ResultStoredKeeps
<1> QED
  BY <1>2, <1>4, <1>5

-----------------------------------------------------------------------------
(* The tab closes.                                                         *)

LEMMA ClosingPuts ==
    ASSUME KnowledgeInv, NEW t \in Tab, NEW v \in Device,
           NEW q, q = [i \in DOMAIN writes[v] |->
                         IF writes[v][i].tab = t THEN [writes[v][i] EXCEPT !.then = "aborted"] ELSE writes[v][i]],
           \A u \in Tab \ {t} : phase'[u] = phase[u] /\ push'[u] = push[u] /\ base'[u] = base[u],
           history' = history
    PROVE  Fit(v, q, phase', push', base', history')
<1> DEFINE p == writes[v]
<1>1. Fit(v, p, phase, push, base, history)
  BY DEF KnowledgeInv, PutsFit
<1>2. DOMAIN q = DOMAIN p /\ IsFunction(q)
  BY DEF IsFunction
<1>3. IsSequence(q)
  BY <1>1, <1>2, MappedIsSequence DEF Fit
<1>4. ASSUME NEW i \in DOMAIN p
      PROVE  /\ Awaited(v, q[i], phase', push', base') /\ Remembers(q[i].record, history')
             /\ q[i].tab = p[i].tab /\ (q[i].then = p[i].then \/ q[i].then = "aborted")
  <2> DEFINE w == p[i]
  <2>1. Awaited(v, w, phase, push, base) /\ Remembers(w.record, history)
    BY <1>1 DEF Fit
  <2>2. q[i] = IF w.tab = t THEN [w EXCEPT !.then = "aborted"] ELSE w
    OBVIOUS
  <2> HIDE DEF w
  <2>3. CASE w.tab # t
    <3>1. q[i] = w /\ w.tab \in Tab \ {t}
      BY <2>1, <2>2, <2>3 DEF Awaited
    <3> QED
      BY <2>1, <3>1 DEF Awaited, w
  <2>4. CASE w.tab = t
    <3> DEFINE x == [w EXCEPT !.then = "aborted"]
    <3>1. /\ IsFunction(x) /\ DOMAIN x = PutFields /\ x.tab = w.tab /\ x.then = "aborted"
          /\ x.record = w.record
      BY <2>1 DEF Awaited, IsFunction, PutFields
    <3>2. q[i] = x
      BY <2>2, <2>4
    <3> HIDE DEF x
    <3> QED
      BY <2>1, <2>4, <3>1, <3>2 DEF Awaited, w
  <2> QED
    BY <2>3, <2>4
<1>5. \A i \in DOMAIN p : \A j \in DOMAIN p : i # j => ~Rivals(q[i], q[j])
  BY <1>1, <1>4 DEF Fit, Rivals
<1> QED
  BY <1>2, <1>3, <1>4, <1>5 DEF Fit

LEMMA CloseKeeps ==
    ASSUME KnowledgeInv, NEW t \in Tab, Close(t) PROVE KnowledgeInv'
<1> DEFINE d == DeviceOf[t]
<1>1. /\ late' = late \/ (push[t] # None /\ late' = late \cup {[ws |-> push[t].candidate, rev |-> push[t].rev]})
      /\ UNCHANGED <<history, cache>>
      /\ phase' = [phase EXCEPT ![t] = "closed"] /\ fetched' = [fetched EXCEPT ![t] = None]
      /\ view' = [view EXCEPT ![t] = None] /\ base' = [base EXCEPT ![t] = None]
      /\ rev' = [rev EXCEPT ![t] = 0] /\ saves' = [saves EXCEPT ![t] = << >>]
      /\ push' = [push EXCEPT ![t] = None]
  BY DEF Close, Adopts
<1>2. writes' = [writes EXCEPT ![d] = [i \in DOMAIN writes[d] |->
          IF writes[d][i].tab = t THEN [writes[d][i] EXCEPT !.then = "aborted"] ELSE writes[d][i]]]
  BY DEF Close
<1>3. d \in Device /\ DOMAIN writes = Device
  BY SyncAssumption DEF SyncAssumption, KnowledgeInv, Families
<1>4. \A r \in late' : IsFunction(r.ws)
  <2>1. push[t] # None => IsFunction(push[t].candidate)
    BY DEF KnowledgeInv, PushKnows, IsPush, IsRequest
  <2> QED
    BY <1>1, <2>1 DEF KnowledgeInv, StoredKnown
<1>5. \A u \in Tab \ {t} : Untouched(u)
  BY <1>1 DEF Untouched
<1>6. StepOf(t)
  BY <1>1, <1>5, ExtendsItself DEF KnowledgeInv, Families, StepOf
<1>7. PutsFit' /\ DOMAIN writes' = Device
  <2> DEFINE q == [i \in DOMAIN writes[d] |->
                IF writes[d][i].tab = t THEN [writes[d][i] EXCEPT !.then = "aborted"] ELSE writes[d][i]]
  <2>1. DOMAIN writes' = Device /\ writes'[d] = q /\ \A x \in Device \ {d} : writes'[x] = writes[x]
    BY <1>2, <1>3
  <2>2. Fit(d, q, phase', push', base', history')
    BY <1>1, <1>3, <1>5, ClosingPuts DEF Untouched
  <2> HIDE DEF q
  <2>3. ASSUME NEW x \in Device \ {d} PROVE Fit(x, writes[x], phase', push', base', history')
    <3>1. Fit(x, writes[x], phase, push, base, history)
      BY DEF KnowledgeInv, PutsFit
    <3>2. \A i \in DOMAIN writes[x] : writes[x][i].tab = t => StillAwaited(t, writes[x][i].then)
      BY <3>1 DEF Fit, Awaited, StillAwaited
    <3> QED
      BY <1>6, <3>1, <3>2, FitStep
  <2>4. \A x \in Device : Fit(x, writes'[x], phase', push', base', history')
    BY <2>1, <2>2, <2>3
  <2> QED
    BY <2>1, <2>4 DEF PutsFit
<1>8. Families'
  BY <1>1, <1>7 DEF KnowledgeInv, Families
<1>9. TabKnows(t)' /\ PushKnows(t)'
  <2>1. /\ phase'[t] = "closed" /\ base'[t] = None /\ saves'[t] = << >> /\ push'[t] = None
    BY <1>1 DEF KnowledgeInv, Families
  <2> QED
    BY <2>1 DEF TabKnows, PushKnows, IsSequence
<1> QED
  BY <1>1, <1>4, <1>6, <1>7, <1>8, <1>9, StepKeeps DEF KnowledgeInv, StoredKnown

-----------------------------------------------------------------------------
(* The specification.                                                      *)

LEMMA KnowledgeAtFirst ==
    ASSUME Init PROVE KnowledgeInv
<1> USE DEF Init
<1> DEFINE ws == [x \in Doc \cup Setting |-> 0]
<1>1. history = <<ws>> /\ IsFunction(ws)
  BY DEF IsFunction
<1> HIDE DEF ws
<1>2. IsSequence(history) /\ Len(history) > 0 /\ \A n \in DOMAIN history : IsFunction(history[n])
  BY <1>1 DEF IsSequence
<1>3. Families /\ StoredKnown
  BY <1>2 DEF Families, StoredKnown
<1>4. PutsFit
  BY DEF PutsFit, Fit, IsSequence
<1>5. \A t \in Tab : TabKnows(t) /\ PushKnows(t)
  BY DEF TabKnows, PushKnows, IsSequence
<1> QED
  BY <1>3, <1>4, <1>5 DEF KnowledgeInv

(* A fault is never forgotten, and a first load that fails is one.         *)
LEMMA FaultsStay ==
    ASSUME Next, IsSequence(faults)
    PROVE  /\ IsSequence(faults') /\ Suffered \subseteq Suffered'
           /\ \A t \in Tab : LoadFails(t) => "load" \in Suffered'
<1>1. ASSUME NEW kind, Fault(kind)
      PROVE  IsSequence(faults') /\ Suffered \subseteq Suffered' /\ kind \in Suffered'
  <2>1. /\ IsSequence(Append(faults, kind)) /\ Len(faults) \in Nat /\ DOMAIN faults = 1 .. Len(faults)
        /\ DOMAIN Append(faults, kind) = 1 .. Len(faults) + 1
        /\ \A n \in DOMAIN faults : Append(faults, kind)[n] = faults[n]
        /\ Append(faults, kind)[Len(faults) + 1] = kind
    BY AppendIsSequence
  <2>2. faults' = Append(faults, kind)
    BY <1>1 DEF Fault
  <2>3. Len(faults) + 1 \in DOMAIN faults' /\ \A n \in DOMAIN faults : n \in DOMAIN faults'
    BY <2>1, <2>2
  <2> QED
    BY <2>1, <2>2, <2>3 DEF Suffered
<1>2. \/ \E kind \in {"load", "saveNow", "request", "answer", "crash"} : Fault(kind)
      \/ UNCHANGED faults
  <2>1. ASSUME NEW t \in Tab,
               \/ Open(t) \/ Fetch(t) \/ Loaded(t) \/ Debounced(t) \/ StartPush(t) \/ Serve(t)
               \/ SavedAnswer(t) \/ ConflictAnswer(t) \/ LoadFails(t) \/ Online(t) \/ SaveNow(t)
               \/ Fails(t) \/ Close(t)
               \/ \E d \in Documents(view[t]) : Write(t, d)
               \/ \E f \in Setting : Toggle(t, f)
        PROVE  \/ \E kind \in {"load", "saveNow", "request", "answer", "crash"} : Fault(kind)
               \/ UNCHANGED faults
    BY <2>1 DEF Open, Fetch, Loaded, Debounced, StartPush, Serve, SavedAnswer, ConflictAnswer, LoadFails,
                Online, SaveNow, Fails, Close, Write, Toggle, MayEdit, countVars
  <2>2. ASSUME NEW v \in Device, Stored(v) PROVE UNCHANGED faults
    BY <2>2 DEF Stored, countVars
  <2>3. Late => UNCHANGED faults
    BY DEF Late, countVars
  <2> QED
    BY <2>1, <2>2, <2>3 DEF Next, Protocol
<1>3. \A t \in Tab : LoadFails(t) => "load" \in Suffered'
  BY <1>1 DEF LoadFails
<1>4. UNCHANGED faults => IsSequence(faults') /\ Suffered \subseteq Suffered'
  BY DEF Suffered
<1> QED
  BY <1>1, <1>2, <1>3, <1>4

(* Only a first load that fails brings a workspace nobody knows.           *)
LEMMA NextKeeps ==
    ASSUME NullNone, KnowledgeInv, Next, \A t \in Tab : ~LoadFails(t) PROVE KnowledgeInv'
BY OpenKeeps, FetchKeeps, LoadedKeeps, EditKeeps, SaversKeep, StartPushKeeps, ServeKeeps,
   SavedAnswerKeeps, ConflictAnswerKeeps, FailsKeeps, CloseKeeps, StoredKeeps, LateKeeps
DEF Next, Protocol

LEMMA StutterKeeps ==
    ASSUME KnowledgeInv, UNCHANGED vars PROVE KnowledgeInv'
<1> USE DEF vars, serverVars, cacheVars, screenVars, fieldVars, queueVars, countVars
<1>1. Families' /\ StoredKnown'
  BY DEF KnowledgeInv, Families, StoredKnown
<1>2. PutsFit'
  BY DEF KnowledgeInv, PutsFit
<1>3. \A t \in Tab : TabKnows(t)' /\ PushKnows(t)'
  BY DEF KnowledgeInv, TabKnows, PushKnows
<1> QED
  BY <1>1, <1>2, <1>3 DEF KnowledgeInv

(* What is known is a revision.                                            *)
LEMMA KnownIsRevision ==
    ASSUME KnowledgeInv PROVE BaseIsARevision
<1>1. ASSUME NEW t \in Tab, base[t] # None PROVE IsRevision(base[t], rev[t])
  BY <1>1 DEF KnowledgeInv, TabKnows, Known, IsRevision
<1>2. ASSUME NEW v \in Device, cache[v] # None PROVE IsRevision(cache[v].base, cache[v].rev)
  BY <1>2 DEF KnowledgeInv, StoredKnown, Remembers, Known, IsRevision
<1>3. ASSUME NEW t \in Tab, push[t] # None PROVE IsRevision(push[t].base, push[t].rev)
  BY <1>3 DEF KnowledgeInv, PushKnows, IsPush, IsRequest, Known, IsRevision
<1> QED
  BY <1>1, <1>2, <1>3 DEF BaseIsARevision

(* What a tab merges with, what a record of IndexedDB resumes from and what *)
(* a request names as the base of its revision is the workspace the server  *)
(* had at that revision, in load, save and push (185-283), with two tabs on *)
(* one device, lost requests and answers, late requests and crashes.        *)
THEOREM BasesAreRevisions ==
    ASSUME NullNone PROVE Spec => []BaseIsARevision
<1>1. Init => BaseInv
  BY KnowledgeAtFirst DEF BaseInv, Init, IsSequence
<1>2. BaseInv /\ [Next]_vars => BaseInv'
  <2>1. CASE UNCHANGED vars
    BY <2>1, StutterKeeps DEF BaseInv, vars, countVars, Suffered
  <2>2. CASE Next
    BY <2>2, FaultsStay, NextKeeps DEF BaseInv
  <2> QED
    BY <2>1, <2>2
<1>3. BaseInv => BaseIsARevision
  BY KnownIsRevision DEF BaseInv, BaseIsARevision
<1> QED
  BY <1>1, <1>2, <1>3, PTL DEF Spec

-----------------------------------------------------------------------------
(* Patient authors: no one edits a document before the last edit is saved,  *)
(* nothing fails but tabs, which close or crash at any moment.             *)

Patient == Environment \subseteq {"crash"}

(* The id of a conflict copy is one that no other document has.            *)
CopiesAreNew == \A x \in Doc \cup Setting : \A d, n : x # Fresh(d, n)

(* The documents of a workspace hold edits that were made, and copies that *)
(* were taken, of the e edits and c conflicts there were.                  *)
Written(ws, e, c) ==
    /\ \A x \in Documents(ws) : ws[x] \in 0 .. e
    /\ \A x \in DOMAIN ws : x \in Doc \cup Setting \/ x[2] \in 0 .. c

(* ws was made over bs: every document of bs that says something is there, *)
(* with what it said or with something that was written over it.           *)
Over(ws, bs, sn) ==
    \A x \in Documents(bs) : bs[x] # 0 => x \in DOMAIN ws /\ (ws[x] = bs[x] \/ bs[x] \in sn[ws[x]])

Carries(ws, bs, e, c, sn) == Written(ws, e, c) /\ Written(bs, e, c) /\ Over(ws, bs, sn)
Carried(ws, bs) == Carries(ws, bs, edits, copies, seen)

(* What the server, its late requests and the devices hold.                *)
HistoryCarried ==
    /\ \A n \in DOMAIN history : Written(history[n], edits, copies)
    /\ \A n \in DOMAIN history : n + 1 \in DOMAIN history => Over(history[n + 1], history[n], seen)
LateCarried ==
    \A r \in late : r.rev + 1 \in DOMAIN history /\ Carried(r.ws, history[r.rev + 1])
RecordsCarried ==
    /\ \A v \in Device : cache[v] # None => Carried(cache[v].ws, cache[v].base)
    /\ \A v \in Device : \A i \in DOMAIN writes[v] :
          LET put == writes[v][i] IN
          /\ Carried(put.record.ws, put.record.base)
          /\ put.then = "merged" => push[put.tab].base = base[put.tab]

(* One save at a time, of what is on the screen, which waits for it.       *)
Waiting(t) == phase[t] = "open" /\ ~timer[t]
TabCarried(t) ==
    /\ phase[t] = "load" /\ fetched[t].cached # None => Carried(fetched[t].cached.ws, fetched[t].cached.base)
    /\ phase[t] = "open" /\ push[t] = None => Carried(view[t], base[t])
    /\ saves[t] # << >> =>
          /\ Waiting(t) /\ push[t] = None /\ Len(saves[t]) = 1
          /\ saves[t][1].ws = view[t] /\ saves[t][1].apply = TRUE /\ saves[t][1].newest = TRUE
    /\ push[t] # None =>
          /\ Waiting(t) /\ saves[t] = << >>
          /\ push[t].ws = view[t] /\ push[t].apply = TRUE /\ push[t].newest = TRUE
          /\ push[t].tries \in 1 .. Attempts
          /\ Carried(push[t].candidate, push[t].base)
    /\ Saved(t) => view[t] = base[t]

Counters ==
    /\ phase \in [Tab -> {"closed", "load", "store", "open"}]
    /\ status \in [Tab -> {"synchronized", "synchronizing", "unsynced"}]
    /\ timer \in [Tab -> BOOLEAN] /\ rev \in [Tab -> 0 .. Revision]
    /\ edits \in Edit /\ seen \in [Edit -> SUBSET Edit] /\ copies \in Nat
    /\ \A t \in Tab : timer[t] => phase[t] = "open"

(* The inductive invariant of WritingInv and SavedMeansSaved.              *)
PatientInv ==
    /\ Counters /\ HistoryCarried /\ LateCarried /\ RecordsCarried
    /\ \A t \in Tab : TabCarried(t)

-----------------------------------------------------------------------------
(* What a merge carries.                                                   *)

LEMMA OverItself ==
    ASSUME NEW ws, NEW sn PROVE Over(ws, ws, sn)
BY DEF Over, Documents

(* More edits and more copies take nothing away.                           *)
LEMMA WrittenStays ==
    ASSUME NEW ws, NEW e \in Nat, NEW c \in Nat, NEW e2 \in Nat, NEW c2 \in Nat,
           e <= e2, c <= c2, Written(ws, e, c)
    PROVE  Written(ws, e2, c2)
BY DEF Written

LEMMA OverStays ==
    ASSUME NEW ws, NEW bs, NEW e \in Nat, NEW c, NEW sn, NEW sn2, \A x \in 0 .. e : sn2[x] = sn[x],
           Written(ws, e, c), Written(bs, e, c), Over(ws, bs, sn)
    PROVE  Over(ws, bs, sn2)
<1>1. ASSUME NEW x \in Documents(bs), bs[x] # 0
      PROVE  x \in DOMAIN ws /\ (ws[x] = bs[x] \/ bs[x] \in sn2[ws[x]])
  <2>1. x \in DOMAIN ws /\ (ws[x] = bs[x] \/ bs[x] \in sn[ws[x]])
    BY <1>1 DEF Over
  <2>2. ws[x] \in 0 .. e
    BY <2>1 DEF Written, Documents
  <2> QED
    BY <2>1, <2>2
<1> QED
  BY <1>1 DEF Over

LEMMA CarriesStays ==
    ASSUME NEW ws, NEW bs, NEW e \in Nat, NEW c \in Nat, NEW e2 \in Nat, NEW c2 \in Nat,
           NEW sn, NEW sn2, e <= e2, c <= c2, \A x \in 0 .. e : sn2[x] = sn[x],
           Carries(ws, bs, e, c, sn)
    PROVE  Carries(ws, bs, e2, c2, sn2)
BY WrittenStays, OverStays DEF Carries

(* A merge takes nothing from the server's workspace: what it says stays,  *)
(* or gives way to what the device wrote over it.                          *)
LEMMA MergeIsOverServer ==
    ASSUME CopiesAreNew, NEW e \in Nat, NEW c \in Nat, NEW sn,
           NEW server, NEW local, NEW bs,
           Carries(local, bs, e, c, sn), Written(server, e, c)
    PROVE  Over(Reconciled(server, local, bs, c + 1), server, sn)
<1> DEFINE held == DOMAIN ThreeWay(server, local, bs)
           copied == Copies(server, local, bs, c + 1)
           merged == Reconciled(server, local, bs, c + 1)
           wins == LocalWins(server, local, bs)
<1>1. /\ DOMAIN merged = held \cup DOMAIN copied
      /\ \A x \in held : x \notin DOMAIN copied => merged[x] = ThreeWay(server, local, bs)[x]
  BY DEF Reconciled, With
<1>2. /\ held = (DOMAIN server \cup wins) \ LocalDrops(server, local, bs)
      /\ \A x \in held : ThreeWay(server, local, bs)[x] = IF x \in wins THEN local[x] ELSE server[x]
  BY DEF ThreeWay
<1>3. DOMAIN copied = {Fresh(d, c + 1) : d \in Conflicts(server, local, bs) \ Setting}
  BY DEF Copies
<1> HIDE DEF merged, copied, held, wins
<1>4. ASSUME NEW x \in Documents(server), server[x] # 0
      PROVE  x \in DOMAIN merged /\ (merged[x] = server[x] \/ server[x] \in sn[merged[x]])
  <2>1. x \in DOMAIN server /\ x \notin Setting /\ server[x] \in 0 .. e
    BY DEF Documents, Written
  <2>2. server[x] # Absent
    BY <2>1, SyncAssumption DEF SyncAssumption
  <2>3. ~Changed(server, bs, x) => x \in Documents(bs) /\ bs[x] = server[x]
    BY <2>1, <2>2 DEF Changed, At, Documents
  <2>4. ~Changed(server, bs, x) => x \in DOMAIN local /\ (local[x] = server[x] \/ server[x] \in sn[local[x]])
    BY <1>4, <2>3 DEF Carries, Over
  <2>5. x \notin LocalDrops(server, local, bs)
    BY <2>4 DEF LocalDrops
  <2>6. x \in held
    BY <1>2, <2>1, <2>5
  <2>7. x \notin DOMAIN copied
    <3>1. SUFFICES ASSUME NEW d, x = Fresh(d, c + 1) PROVE FALSE
      BY <1>3
    <3>2. x[2] = c + 1
      BY <3>1 DEF Fresh
    <3>3. x \in Doc \cup Setting \/ x[2] \in 0 .. c
      BY <2>1 DEF Written
    <3> QED
      BY <3>1, <3>2, <3>3 DEF CopiesAreNew
  <2>8. x \in wins => ~Changed(server, bs, x)
    BY DEF wins, LocalWins
  <2> QED
    BY <1>1, <1>2, <2>4, <2>6, <2>7, <2>8
<1> QED
  BY <1>4 DEF Over, merged

(* What a merge holds was written; its copies are counted.                 *)
LEMMA MergeIsWritten ==
    ASSUME NEW e \in Nat, NEW c \in Nat, NEW server, NEW local, NEW bs,
           Written(local, e, c), Written(server, e, c)
    PROVE  /\ Written(Reconciled(server, local, bs, c + 1), e, c + 1)
           /\ Conflicts(server, local, bs) \subseteq Setting => Written(Reconciled(server, local, bs, c + 1), e, c)
<1> DEFINE held == DOMAIN ThreeWay(server, local, bs)
           copied == Copies(server, local, bs, c + 1)
           merged == Reconciled(server, local, bs, c + 1)
           wins == LocalWins(server, local, bs)
           clashes == Conflicts(server, local, bs) \ Setting
<1>1. /\ DOMAIN merged = held \cup DOMAIN copied
      /\ \A x \in held : x \notin DOMAIN copied => merged[x] = ThreeWay(server, local, bs)[x]
      /\ \A x \in DOMAIN copied : merged[x] = copied[x]
  BY DEF Reconciled, With
<1>2. /\ held \subseteq DOMAIN server \cup wins /\ wins \subseteq DOMAIN local
      /\ \A x \in held : ThreeWay(server, local, bs)[x] = IF x \in wins THEN local[x] ELSE server[x]
  BY DEF ThreeWay, LocalWins
<1>3. /\ DOMAIN copied = {Fresh(d, c + 1) : d \in clashes}
      /\ \A y \in DOMAIN copied : copied[y] = local[Original(y)]
      /\ clashes \subseteq Documents(local)
  BY DEF Copies, Conflicts, Documents
<1> HIDE DEF merged, copied, held, wins, clashes
<1>4. ASSUME NEW y \in DOMAIN copied PROVE merged[y] \in 0 .. e /\ y[2] = c + 1
  <2>1. PICK d \in clashes : y = Fresh(d, c + 1)
    BY <1>3
  <2>2. Original(y) = d /\ y[2] = c + 1
    BY <2>1 DEF Original, Fresh
  <2>3. local[d] \in 0 .. e
    BY <1>3 DEF Written
  <2> QED
    BY <1>1, <1>3, <2>2, <2>3
<1>5. ASSUME NEW x \in held, x \notin DOMAIN copied
      PROVE  /\ x \notin Setting => merged[x] \in 0 .. e
             /\ x \in Doc \cup Setting \/ x[2] \in 0 .. c
  <2>1. CASE x \in wins
    BY <1>1, <1>2, <1>5, <2>1 DEF Written, Documents
  <2>2. CASE x \notin wins
    BY <1>1, <1>2, <1>5, <2>2 DEF Written, Documents
  <2> QED
    BY <2>1, <2>2
<1>6. \A x \in Documents(merged) : merged[x] \in 0 .. e
  BY <1>1, <1>4, <1>5 DEF Documents
<1>7. \A x \in DOMAIN merged : x \in Doc \cup Setting \/ x[2] \in 0 .. c + 1
  BY <1>1, <1>4, <1>5
<1>8. ASSUME Conflicts(server, local, bs) \subseteq Setting
      PROVE  \A x \in DOMAIN merged : x \in Doc \cup Setting \/ x[2] \in 0 .. c
  <2>1. clashes = {}
    BY <1>8 DEF clashes
  <2>2. DOMAIN copied = {}
    BY <1>3, <2>1
  <2> QED
    BY <1>1, <1>5, <2>2
<1> QED
  BY <1>6, <1>7, <1>8 DEF Written, merged

-----------------------------------------------------------------------------
(* One step of one tab, of a patient author.                               *)

(* Edits and copies are only added, and what an edit was made over stays.  *)
Grows == /\ edits \in Nat /\ edits' \in Nat /\ copies \in Nat /\ copies' \in Nat
         /\ edits <= edits' /\ copies <= copies'
         /\ \A x \in 0 .. edits : seen'[x] = seen[x]

LEMMA CountersGrow ==
    ASSUME PatientInv, UNCHANGED <<edits, seen, copies>> PROVE Grows
BY SyncAssumption DEF PatientInv, Counters, Grows, Edit, SyncAssumption

LEMMA CarriedStays ==
    ASSUME Grows, NEW ws, NEW bs, Carried(ws, bs) PROVE Carries(ws, bs, edits', copies', seen')
BY CarriesStays DEF Grows, Carried

LEMMA HistoryStays ==
    ASSUME Grows, HistoryCarried, history' = history PROVE HistoryCarried'
<1>1. \A n \in DOMAIN history' : Written(history'[n], edits', copies')
  BY WrittenStays DEF Grows, HistoryCarried
<1>2. ASSUME NEW n \in DOMAIN history', n + 1 \in DOMAIN history'
      PROVE  Over(history'[n + 1], history'[n], seen')
  <2>1. /\ Written(history[n], edits, copies) /\ Written(history[n + 1], edits, copies)
        /\ Over(history[n + 1], history[n], seen)
    BY <1>2 DEF HistoryCarried
  <2> QED
    BY <2>1, OverStays DEF Grows
<1> QED
  BY <1>1, <1>2 DEF HistoryCarried

(* A workspace made over the last revision is the next one.                *)
LEMMA HistoryAppended ==
    ASSUME Grows, KnowledgeInv, HistoryCarried, NEW ws, history' = Append(history, ws), Carried(ws, Latest)
    PROVE  HistoryCarried'
<1> DEFINE h == Append(history, ws)
<1>1. /\ IsSequence(h) /\ Len(history) \in Nat /\ Len(history) > 0
      /\ DOMAIN history = 1 .. Len(history) /\ DOMAIN h = 1 .. Len(history) + 1
      /\ \A n \in DOMAIN history : h[n] = history[n]
      /\ h[Len(history) + 1] = ws
  BY AppendIsSequence DEF KnowledgeInv, Families
<1>2. history' = h
  OBVIOUS
<1> HIDE DEF h
<1>3. Carries(ws, Latest, edits', copies', seen')
  BY CarriedStays
<1>4. ASSUME NEW n \in DOMAIN h PROVE Written(h[n], edits', copies')
  <2>1. CASE n \in DOMAIN history
    <3>1. h[n] = history[n] /\ Written(history[n], edits, copies)
      BY <1>1, <2>1 DEF HistoryCarried
    <3> QED
      BY <3>1, WrittenStays DEF Grows
  <2>2. CASE n \notin DOMAIN history
    <3>1. n = Len(history) + 1
      BY <1>1, <2>2
    <3> QED
      BY <1>1, <1>3, <3>1 DEF Carries
  <2> QED
    BY <2>1, <2>2
<1>5. ASSUME NEW n \in DOMAIN h, n + 1 \in DOMAIN h PROVE Over(h[n + 1], h[n], seen')
  <2>1. CASE n + 1 \in DOMAIN history
    <3>1. n \in DOMAIN history /\ h[n] = history[n] /\ h[n + 1] = history[n + 1]
      BY <1>1, <1>5, <2>1
    <3>2. /\ Written(history[n], edits, copies) /\ Written(history[n + 1], edits, copies)
          /\ Over(history[n + 1], history[n], seen)
      BY <2>1, <3>1 DEF HistoryCarried
    <3> QED
      BY <3>1, <3>2, OverStays DEF Grows
  <2>2. CASE n + 1 \notin DOMAIN history
    <3>1. n = Len(history) /\ n \in DOMAIN history
      BY <1>1, <1>5, <2>2
    <3>2. h[n + 1] = ws /\ h[n] = Latest
      BY <1>1, <3>1 DEF Latest
    <3> QED
      BY <1>3, <3>2 DEF Carries
  <2> QED
    BY <2>1, <2>2
<1> QED
  BY <1>2, <1>4, <1>5 DEF HistoryCarried

LEMMA LateStays ==
    ASSUME Grows, KnowledgeInv, KnowledgeInv', LateCarried, Extends(history', history), late' \subseteq late
    PROVE  LateCarried'
<1>1. \A n \in DOMAIN history : n \in DOMAIN history' /\ history'[n] = history[n]
  <2>1. DOMAIN history = 1 .. Len(history) /\ Len(history) \in Nat
    BY DEF KnowledgeInv, Families, IsSequence
  <2>2. DOMAIN history' = 1 .. Len(history') /\ Len(history') \in Nat
    BY DEF KnowledgeInv, Families, IsSequence
  <2> QED
    BY <2>1, <2>2 DEF Extends
<1>2. ASSUME NEW r \in late'
      PROVE  r.rev + 1 \in DOMAIN history' /\ Carries(r.ws, history'[r.rev + 1], edits', copies', seen')
  <2>1. r.rev + 1 \in DOMAIN history /\ Carried(r.ws, history[r.rev + 1])
    BY DEF LateCarried
  <2>2. Carries(r.ws, history[r.rev + 1], edits', copies', seen')
    BY <2>1, CarriedStays
  <2> QED
    BY <1>1, <2>1, <2>2
<1> QED
  BY <1>2 DEF LateCarried, Carried

(* A merge whose put completes is still the tab's.                         *)
MergeWaits(t) ==
    push[t] # None /\ push[t].at = "store" /\ push[t].base = base[t] => push'[t].base = base'[t]

(* The puts that a step of t leaves.                                       *)
LEMMA PutStaysCarried ==
    ASSUME Grows, KnowledgeInv, RecordsCarried, NEW t \in Tab, StepOf(t), MergeWaits(t),
           NEW v \in Device, NEW i \in DOMAIN writes[v]
    PROVE  LET put == writes[v][i] IN
           /\ Carries(put.record.ws, put.record.base, edits', copies', seen')
           /\ put.then = "merged" => push'[put.tab].base = base'[put.tab]
<1> DEFINE put == writes[v][i]
<1>1. /\ Carried(put.record.ws, put.record.base)
      /\ put.then = "merged" => push[put.tab].base = base[put.tab]
  BY DEF RecordsCarried
<1>2. Awaited(v, put, phase, push, base)
  BY DEF KnowledgeInv, PutsFit, Fit
<1> HIDE DEF put
<1>3. ASSUME put.then = "merged" PROVE push'[put.tab].base = base'[put.tab]
  <2>1. put.tab \in Tab /\ push[put.tab] # None /\ push[put.tab].at = "store"
    BY <1>2, <1>3 DEF Awaited
  <2>2. CASE put.tab = t
    BY <1>1, <1>3, <2>1, <2>2 DEF MergeWaits
  <2>3. CASE put.tab # t
    BY <1>1, <1>3, <2>1, <2>3 DEF StepOf, Untouched
  <2> QED
    BY <2>2, <2>3
<1>4. Carries(put.record.ws, put.record.base, edits', copies', seen')
  BY <1>1, CarriedStays
<1> QED
  BY <1>3, <1>4 DEF put

LEMMA CacheStaysCarried ==
    ASSUME Grows, RecordsCarried, cache' = cache,
           \A v \in Device : \A i \in DOMAIN writes'[v] : LET put == writes'[v][i] IN
              /\ Carries(put.record.ws, put.record.base, edits', copies', seen')
              /\ put.then = "merged" => push'[put.tab].base = base'[put.tab]
    PROVE  RecordsCarried'
<1>1. \A v \in Device : cache'[v] # None => Carries(cache'[v].ws, cache'[v].base, edits', copies', seen')
  BY CarriedStays DEF RecordsCarried
<1> QED
  BY <1>1 DEF RecordsCarried, Carried

LEMMA RecordsStay ==
    ASSUME Grows, KnowledgeInv, RecordsCarried, NEW t \in Tab, StepOf(t), MergeWaits(t),
           UNCHANGED <<cache, writes>>
    PROVE  RecordsCarried'
<1>1. ASSUME NEW v \in Device, NEW i \in DOMAIN writes'[v]
      PROVE  LET put == writes'[v][i] IN
              /\ Carries(put.record.ws, put.record.base, edits', copies', seen')
              /\ put.then = "merged" => push'[put.tab].base = base'[put.tab]
  BY PutStaysCarried
<1> QED
  BY <1>1, CacheStaysCarried

LEMMA RecordIssued ==
    ASSUME Grows, KnowledgeInv, RecordsCarried, NEW t \in Tab, StepOf(t), MergeWaits(t), cache' = cache,
           NEW record, Carries(record.ws, record.base, edits', copies', seen'),
           NEW then, then = "merged" => push'[t].base = base'[t],
           writes' = Issue(t, writes, record, then)
    PROVE  RecordsCarried'
<1> DEFINE w == [tab |-> t, record |-> record, then |-> then]
           d == DeviceOf[t]
<1>1. d \in Device /\ DOMAIN writes = Device /\ IsSequence(writes[d])
  BY SyncAssumption DEF SyncAssumption, KnowledgeInv, Families, PutsFit, Fit
<1>2. writes'[d] = Append(writes[d], w) /\ \A v \in Device \ {d} : writes'[v] = writes[v]
  BY <1>1 DEF Issue
<1>3. w.tab = t /\ w.record = record /\ w.then = then
  OBVIOUS
<1> HIDE DEF w
<1>4. /\ Len(writes[d]) \in Nat /\ DOMAIN writes[d] = 1 .. Len(writes[d])
      /\ DOMAIN Append(writes[d], w) = 1 .. Len(writes[d]) + 1
      /\ \A i \in DOMAIN writes[d] : Append(writes[d], w)[i] = writes[d][i]
      /\ Append(writes[d], w)[Len(writes[d]) + 1] = w
  BY <1>1, AppendIsSequence
<1>5. ASSUME NEW v \in Device, NEW i \in DOMAIN writes'[v]
      PROVE  LET put == writes'[v][i] IN
              /\ Carries(put.record.ws, put.record.base, edits', copies', seen')
              /\ put.then = "merged" => push'[put.tab].base = base'[put.tab]
  <2>1. CASE i \in DOMAIN writes[v]
    <3>1. writes'[v][i] = writes[v][i]
      BY <1>2, <1>4, <2>1
    <3> QED
      BY <2>1, <3>1, PutStaysCarried
  <2>2. CASE i \notin DOMAIN writes[v]
    <3>1. v = d /\ i = Len(writes[d]) + 1
      BY <1>2, <1>4, <2>2
    <3>2. writes'[v][i] = w
      BY <1>1, <1>2, <1>4, <3>1
    <3> QED
      BY <1>3, <3>2
  <2> QED
    BY <2>1, <2>2
<1> QED
  BY <1>5, CacheStaysCarried

(* The rest of the invariant is about the tab that steps.                  *)
LEMMA PatientStep ==
    ASSUME KnowledgeInv, PatientInv, NEW t \in Tab, StepOf(t), Grows,
           \A u \in Tab \ {t} : status'[u] = status[u] /\ timer'[u] = timer[u],
           Counters', HistoryCarried', LateCarried', RecordsCarried', TabCarried(t)'
    PROVE  PatientInv'
<1>1. ASSUME NEW u \in Tab \ {t} PROVE TabCarried(u)'
  <2>1. /\ TabCarried(u) /\ Untouched(u) /\ status'[u] = status[u] /\ timer'[u] = timer[u]
    BY DEF PatientInv, StepOf
  <2>2. Saved(u)' => view'[u] = base'[u]
    BY <2>1 DEF TabCarried, Untouched, Saved, Idle
  <2>3. /\ phase'[u] = "load" /\ fetched'[u].cached # None =>
            Carries(fetched'[u].cached.ws, fetched'[u].cached.base, edits', copies', seen')
        /\ phase'[u] = "open" /\ push'[u] = None => Carries(view'[u], base'[u], edits', copies', seen')
        /\ push'[u] # None => Carries(push'[u].candidate, push'[u].base, edits', copies', seen')
    BY <2>1, CarriedStays DEF TabCarried, Untouched
  <2>4. saves'[u] # << >> =>
          /\ Waiting(u)' /\ push'[u] = None /\ Len(saves'[u]) = 1
          /\ saves'[u][1].ws = view'[u] /\ saves'[u][1].apply = TRUE /\ saves'[u][1].newest = TRUE
    BY <2>1 DEF TabCarried, Untouched, Waiting
  <2>5. push'[u] # None =>
          /\ Waiting(u)' /\ saves'[u] = << >>
          /\ push'[u].ws = view'[u] /\ push'[u].apply = TRUE /\ push'[u].newest = TRUE
          /\ push'[u].tries \in 1 .. Attempts
    BY <2>1 DEF TabCarried, Untouched, Waiting
  <2> QED
    BY <2>2, <2>3, <2>4, <2>5 DEF TabCarried, Carried
<1> QED
  BY <1>1 DEF PatientInv

LEMMA RevisionsGrow ==
    ASSUME KnowledgeInv, KnowledgeInv', Extends(history', history)
    PROVE  Revision \in Nat /\ Revision' \in Nat /\ 0 .. Revision \subseteq 0 .. Revision'
BY DEF KnowledgeInv, Families, IsSequence, Extends, Revision

(* What is known of a tab that loads.                                      *)
LEMMA LoadsAlone ==
    ASSUME KnowledgeInv, NEW t \in Tab, phase[t] # "open"
    PROVE  saves[t] = << >> /\ push[t] = None
BY DEF KnowledgeInv, TabKnows

LEMMA OpenCarries ==
    ASSUME KnowledgeInv, KnowledgeInv', PatientInv, NEW t \in Tab, Open(t) PROVE PatientInv'
<1>1. /\ phase[t] = "closed"
      /\ phase' = [phase EXCEPT ![t] = "load"]
      /\ fetched' = [fetched EXCEPT ![t] = [cached |-> cache[DeviceOf[t]], remote |-> None]]
      /\ UNCHANGED <<history, late, cache, writes, view, timer, status, base, rev, saves, push,
                     edits, seen, copies>>
  BY DEF Open, serverVars, cacheVars, screenVars, fieldVars, queueVars, countVars
<1>2. Grows
  BY <1>1, CountersGrow
<1>3. StepOf(t)
  BY <1>1, ExtendsItself DEF KnowledgeInv, Families, StepOf, Untouched
<1>4. Counters'
  BY <1>1 DEF PatientInv, Counters, Revision
<1>5. HistoryCarried' /\ LateCarried' /\ RecordsCarried'
  <2>1. MergeWaits(t)
    BY <1>1 DEF MergeWaits
  <2> QED
    BY <1>1, <1>2, <1>3, <2>1, HistoryStays, LateStays, RecordsStay DEF PatientInv, StepOf
<1>6. TabCarried(t)'
  <2>1. saves'[t] = << >> /\ push'[t] = None /\ phase'[t] = "load" /\ fetched'[t].cached = cache[DeviceOf[t]]
    BY <1>1, LoadsAlone DEF KnowledgeInv, Families
  <2>2. DeviceOf[t] \in Device
    BY SyncAssumption DEF SyncAssumption
  <2>3. fetched'[t].cached # None =>
            Carries(fetched'[t].cached.ws, fetched'[t].cached.base, edits', copies', seen')
    BY <1>2, <2>1, <2>2, CarriedStays DEF PatientInv, RecordsCarried
  <2> QED
    BY <2>1, <2>3 DEF TabCarried, Carried, Saved, Idle
<1> QED
  BY <1>1, <1>2, <1>3, <1>4, <1>5, <1>6, PatientStep

LEMMA FetchCarries ==
    ASSUME KnowledgeInv, KnowledgeInv', PatientInv, NEW t \in Tab, Fetch(t) PROVE PatientInv'
<1> DEFINE remote == [ws |-> Latest, rev |-> Revision]
<1>1. /\ phase[t] = "load"
      /\ fetched' = [fetched EXCEPT ![t].remote = remote]
      /\ UNCHANGED <<history, late, cache, writes, phase, view, timer, status, base, rev, saves, push,
                     edits, seen, copies>>
  BY DEF Fetch, serverVars, cacheVars, screenVars, fieldVars, queueVars, countVars
<1> HIDE DEF remote
<1>2. Grows
  BY <1>1, CountersGrow
<1>3. StepOf(t)
  BY <1>1, ExtendsItself DEF KnowledgeInv, Families, StepOf, Untouched
<1>4. Counters'
  BY <1>1 DEF PatientInv, Counters, Revision
<1>5. HistoryCarried' /\ LateCarried' /\ RecordsCarried'
  <2>1. MergeWaits(t)
    BY <1>1 DEF MergeWaits
  <2> QED
    BY <1>1, <1>2, <1>3, <2>1, HistoryStays, LateStays, RecordsStay DEF PatientInv, StepOf
<1>6. TabCarried(t)'
  <2>1. saves'[t] = << >> /\ push'[t] = None /\ phase'[t] = "load"
    BY <1>1, LoadsAlone
  <2>2. fetched'[t].cached = fetched[t].cached
    BY <1>1 DEF KnowledgeInv, Families, TabKnows
  <2>3. fetched'[t].cached # None =>
            Carries(fetched'[t].cached.ws, fetched'[t].cached.base, edits', copies', seen')
    BY <1>1, <1>2, <2>2, CarriedStays DEF PatientInv, TabCarried
  <2> QED
    BY <2>1, <2>3 DEF TabCarried, Carried, Saved, Idle
<1> QED
  BY <1>1, <1>2, <1>3, <1>4, <1>5, <1>6, PatientStep

LEMMA LoadedCarries ==
    ASSUME KnowledgeInv, KnowledgeInv', PatientInv, NEW t \in Tab, Loaded(t) PROVE PatientInv'
<1> DEFINE cached == fetched[t].cached
           remote == fetched[t].remote
<1>1. /\ phase[t] = "load" /\ remote # None
      /\ UNCHANGED <<history, late, cache, saves, push, edits, seen, copies>>
  BY DEF Loaded, serverVars, queueVars, countVars
<1>2. /\ cached # None => Remembers(cached, history) /\ Carried(cached.ws, cached.base)
      /\ Known(remote.ws, remote.rev, history)
      /\ saves[t] = << >> /\ push[t] = None
  BY <1>1 DEF KnowledgeInv, TabKnows, PatientInv, TabCarried
<1>3. remote.ws = history[remote.rev + 1] /\ remote.rev + 1 \in DOMAIN history /\ remote.rev \in 0 .. Revision
  BY <1>2 DEF Known, KnowledgeInv, Families, IsSequence, Revision
<1>4. Grows /\ Extends(history', history)
  BY <1>1, CountersGrow, ExtendsItself DEF KnowledgeInv, Families
<1>5. HistoryCarried' /\ LateCarried'
  BY <1>1, <1>4, HistoryStays, LateStays DEF PatientInv
<1>6. MergeWaits(t) /\ timer[t] = FALSE
  BY <1>1, <1>2 DEF MergeWaits, PatientInv, Counters
<1> HIDE DEF cached, remote
<1>7. CASE Resumes(t)
  <2>1. /\ base' = [base EXCEPT ![t] = cached.base] /\ rev' = [rev EXCEPT ![t] = cached.rev]
        /\ phase' = [phase EXCEPT ![t] = "open"] /\ view' = [view EXCEPT ![t] = cached.ws]
        /\ timer' = [timer EXCEPT ![t] = TRUE] /\ status' = [status EXCEPT ![t] = "unsynced"]
        /\ fetched' = [fetched EXCEPT ![t] = None] /\ writes' = writes
    BY <1>7 DEF Loaded, Adopts, Shows, cached
  <2>2. cached.rev \in 0 .. Revision /\ Carried(cached.ws, cached.base)
    BY <1>2, <1>7 DEF Resumes, cached, Remembers, Known, Revision, KnowledgeInv, Families, IsSequence
  <2>3. StepOf(t)
    BY <1>1, <1>4, <2>1 DEF StepOf, Untouched
  <2>4. Counters'
    BY <1>1, <2>1, <2>2 DEF PatientInv, Counters, Revision
  <2>5. RecordsCarried'
    BY <1>1, <1>4, <1>6, <2>1, <2>3, RecordsStay DEF PatientInv
  <2>6. TabCarried(t)'
    <3>1. /\ base'[t] = cached.base /\ phase'[t] = "open" /\ view'[t] = cached.ws
          /\ timer'[t] = TRUE /\ saves'[t] = << >> /\ push'[t] = None
      BY <1>1, <1>2, <2>1 DEF KnowledgeInv, Families, PatientInv, Counters
    <3>2. Carries(view'[t], base'[t], edits', copies', seen')
      BY <1>4, <2>2, <3>1, CarriedStays
    <3> QED
      BY <3>1, <3>2 DEF TabCarried, Carried, Saved, Idle
  <2>7. \A u \in Tab \ {t} : status'[u] = status[u] /\ timer'[u] = timer[u]
    BY <2>1 DEF PatientInv, Counters
  <2> QED
    BY <1>4, <1>5, <2>3, <2>4, <2>5, <2>6, <2>7, PatientStep
<1>8. CASE ~Resumes(t)
  <2> DEFINE record == Record(remote.ws, remote.ws, remote.rev, FALSE)
  <2>1. /\ base' = [base EXCEPT ![t] = remote.ws] /\ rev' = [rev EXCEPT ![t] = remote.rev]
        /\ phase' = [phase EXCEPT ![t] = "store"] /\ status' = [status EXCEPT ![t] = status[t]]
        /\ view' = view /\ fetched' = fetched /\ timer' = timer
        /\ writes' = Issue(t, writes, record, "load")
    BY <1>8 DEF Loaded, Adopts, screenVars, remote
  <2>2. record.ws = remote.ws /\ record.base = remote.ws
    BY DEF Record
  <2> HIDE DEF record
  <2>3. Carries(record.ws, record.base, edits', copies', seen')
    <3>1. Written(remote.ws, edits, copies)
      BY <1>3 DEF PatientInv, HistoryCarried
    <3>2. Carried(record.ws, record.base)
      BY <2>2, <3>1, OverItself DEF Carried, Carries
    <3> QED
      BY <1>4, <3>2, CarriedStays
  <2>4. StepOf(t)
    BY <1>1, <1>4, <2>1 DEF StepOf, Untouched
  <2>5. Counters'
    BY <1>1, <1>3, <1>6, <2>1 DEF PatientInv, Counters, Revision
  <2>6. RecordsCarried'
    BY <1>1, <1>4, <1>6, <2>1, <2>3, <2>4, RecordIssued DEF PatientInv
  <2>7. TabCarried(t)'
    <3>1. phase'[t] = "store" /\ saves'[t] = << >> /\ push'[t] = None
      BY <1>1, <1>2, <2>1 DEF KnowledgeInv, Families
    <3> QED
      BY <3>1 DEF TabCarried, Saved, Idle
  <2>8. \A u \in Tab \ {t} : status'[u] = status[u] /\ timer'[u] = timer[u]
    BY <2>1
  <2> QED
    BY <1>4, <1>5, <2>4, <2>5, <2>6, <2>7, <2>8, PatientStep
<1> QED
  BY <1>7, <1>8

(* The screen of an author who may edit, and what becomes of the tab.      *)
LEMMA EditCarries ==
    ASSUME KnowledgeInv, KnowledgeInv', PatientInv, NEW t \in Tab, Saved(t),
           edits < MaxEdits, edits' = edits + 1,
           timer' = [timer EXCEPT ![t] = TRUE],
           UNCHANGED <<history, late, cache, writes, phase, fetched, status, base, rev, saves, push, copies>>,
           \A u \in Tab \ {t} : view'[u] = view[u],
           seen' \in [Edit -> SUBSET Edit], \A x \in 0 .. edits : seen'[x] = seen[x],
           Carries(view'[t], base[t], edits', copies, seen')
    PROVE  PatientInv'
<1>1. phase[t] = "open" /\ saves[t] = << >> /\ push[t] = None
  BY DEF Saved, Idle
<1>2. edits \in 0 .. MaxEdits /\ edits' \in Edit /\ MaxEdits \in Nat /\ copies \in Nat
  BY SyncAssumption DEF SyncAssumption, PatientInv, Counters, Edit
<1>3. Grows
  BY <1>2 DEF Grows, Edit
<1>4. StepOf(t)
  BY ExtendsItself DEF KnowledgeInv, Families, StepOf, Untouched
<1>5. Counters'
  BY <1>1, <1>2 DEF PatientInv, Counters, Revision
<1>6. HistoryCarried' /\ LateCarried' /\ RecordsCarried'
  <2>1. MergeWaits(t)
    BY DEF MergeWaits
  <2> QED
    BY <1>3, <1>4, <2>1, HistoryStays, LateStays, RecordsStay DEF PatientInv, StepOf
<1>7. TabCarried(t)'
  <2>1. timer'[t] = TRUE
    BY DEF PatientInv, Counters
  <2> QED
    BY <1>1, <2>1 DEF TabCarried, Carried, Saved, Idle
<1>8. \A u \in Tab \ {t} : status'[u] = status[u] /\ timer'[u] = timer[u]
  BY DEF PatientInv, Counters
<1> QED
  BY <1>3, <1>4, <1>5, <1>6, <1>7, <1>8, PatientStep

LEMMA PatientSaved ==
    ASSUME Patient, NEW t \in Tab, MayEdit(t)
    PROVE  Saved(t) /\ phase[t] = "open" /\ edits < MaxEdits /\ edits' = edits + 1
BY DEF Patient, MayEdit, Saved, Idle

LEMMA WriteCarries ==
    ASSUME Patient, KnowledgeInv, KnowledgeInv', PatientInv,
           NEW t \in Tab, NEW d \in Documents(view[t]), Write(t, d)
    PROVE  PatientInv'
<1> DEFINE ws == view[t]
           new == [view[t] EXCEPT ![d] = edits + 1]
<1>1. /\ Saved(t) /\ phase[t] = "open" /\ push[t] = None /\ edits < MaxEdits /\ edits' = edits + 1
      /\ view' = [view EXCEPT ![t] = new]
      /\ seen' = [seen EXCEPT ![edits + 1] = seen[ws[d]] \cup {ws[d]}]
      /\ timer' = [timer EXCEPT ![t] = TRUE]
      /\ UNCHANGED <<history, late, cache, writes, phase, fetched, status, base, rev, saves, push, copies>>
  BY PatientSaved DEF Write, Saved, Idle, serverVars, cacheVars, fieldVars, queueVars
<1>2. /\ Carried(ws, base[t]) /\ edits \in Nat /\ edits + 1 \in Edit /\ 0 .. edits \subseteq Edit
      /\ seen \in [Edit -> SUBSET Edit]
  BY <1>1, SyncAssumption DEF PatientInv, TabCarried, Counters, Edit, SyncAssumption
<1>3. ws[d] \in 0 .. edits
  BY <1>2 DEF Carried, Carries, Written
<1>4. /\ seen' \in [Edit -> SUBSET Edit] /\ \A x \in 0 .. edits : seen'[x] = seen[x]
      /\ seen'[edits + 1] = seen[ws[d]] \cup {ws[d]}
  BY <1>1, <1>2, <1>3
<1>5. Carries(new, base[t], edits + 1, copies, seen')
  <2>1. DOMAIN new = DOMAIN ws /\ new[d] = edits + 1 /\ \A x \in DOMAIN ws \ {d} : new[x] = ws[x]
    BY DEF Documents
  <2>2. Written(ws, edits, copies) /\ Written(base[t], edits, copies) /\ Over(ws, base[t], seen)
    BY <1>2 DEF Carried, Carries
  <2> HIDE DEF new, ws
  <2>3. Written(new, edits + 1, copies)
    BY <1>2, <2>1, <2>2 DEF Written, Documents
  <2>4. Written(base[t], edits + 1, copies)
    BY <1>2, <2>2 DEF Written
  <2>5. ASSUME NEW x \in Documents(base[t]), base[t][x] # 0
        PROVE  x \in DOMAIN new /\ (new[x] = base[t][x] \/ base[t][x] \in seen'[new[x]])
    <3>1. x \in DOMAIN ws /\ (ws[x] = base[t][x] \/ base[t][x] \in seen[ws[x]])
      BY <2>2, <2>5 DEF Over
    <3>2. CASE x = d
      BY <1>4, <2>1, <3>1, <3>2
    <3>3. CASE x # d
      <4>1. ws[x] \in 0 .. edits
        BY <2>2, <3>1 DEF Written, Documents
      <4> QED
        BY <1>4, <2>1, <3>1, <3>3, <4>1
    <3> QED
      BY <3>2, <3>3
  <2> QED
    BY <2>3, <2>4, <2>5 DEF Carries, Over
<1>6. view'[t] = new /\ \A u \in Tab \ {t} : view'[u] = view[u]
  BY <1>1 DEF KnowledgeInv, Families
<1> HIDE DEF new, ws
<1> QED
  BY <1>1, <1>4, <1>5, <1>6, EditCarries

LEMMA ToggleCarries ==
    ASSUME Patient, KnowledgeInv, KnowledgeInv', PatientInv,
           NEW t \in Tab, NEW f \in Setting, Toggle(t, f)
    PROVE  PatientInv'
<1> DEFINE ws == view[t]
           new == [view[t] EXCEPT ![f] = 1 - view[t][f]]
<1>1. /\ Saved(t) /\ phase[t] = "open" /\ push[t] = None /\ edits < MaxEdits /\ edits' = edits + 1
      /\ view' = [view EXCEPT ![t] = new]
      /\ timer' = [timer EXCEPT ![t] = TRUE]
      /\ UNCHANGED <<history, late, cache, writes, phase, fetched, status, base, rev, saves, push, copies, seen>>
  BY PatientSaved DEF Toggle, Saved, Idle, serverVars, cacheVars, fieldVars, queueVars
<1>2. Carried(ws, base[t]) /\ edits \in Nat /\ seen \in [Edit -> SUBSET Edit]
  BY <1>1 DEF PatientInv, TabCarried, Counters, Edit
<1>3. DOMAIN new = DOMAIN ws /\ \A x \in Documents(ws) : new[x] = ws[x]
  BY DEF Documents
<1>4. view'[t] = new /\ \A u \in Tab \ {t} : view'[u] = view[u]
  BY <1>1 DEF KnowledgeInv, Families
<1> HIDE DEF new, ws
<1>5. Carries(new, base[t], edits + 1, copies, seen')
  <2>1. Written(ws, edits, copies) /\ Written(base[t], edits, copies) /\ Over(ws, base[t], seen)
    BY <1>2 DEF Carried, Carries
  <2>2. Written(new, edits + 1, copies) /\ Written(base[t], edits + 1, copies)
    BY <1>2, <1>3, <2>1 DEF Written, Documents
  <2>3. Over(new, base[t], seen')
    BY <1>1, <1>3, <2>1 DEF Over, Documents
  <2> QED
    BY <2>2, <2>3 DEF Carries
<1> QED
  BY <1>1, <1>2, <1>4, <1>5, EditCarries

LEMMA DebouncedCarries ==
    ASSUME NullNone, KnowledgeInv, KnowledgeInv', PatientInv, NEW t \in Tab, Debounced(t) PROVE PatientInv'
<1>1. /\ phase[t] = "open" /\ timer[t] /\ timer' = [timer EXCEPT ![t] = FALSE]
      /\ UNCHANGED <<history, late, cache, phase, fetched, view, status, base, rev, edits, seen, copies>>
      /\ Save(t, TRUE)
  BY DEF Debounced, serverVars, fieldVars, countVars, Save, cacheVars
<1>2. saves[t] = << >> /\ push[t] = None /\ Carried(view[t], base[t])
  BY <1>1 DEF PatientInv, TabCarried, Waiting
<1>3. Grows /\ Extends(history', history)
  BY <1>1, CountersGrow, ExtendsItself DEF KnowledgeInv, Families
<1>4. HistoryCarried' /\ LateCarried' /\ MergeWaits(t)
  BY <1>1, <1>2, <1>3, HistoryStays, LateStays DEF PatientInv, MergeWaits
<1>5. timer'[t] = FALSE /\ Counters'
  BY <1>1 DEF PatientInv, Counters, Revision
<1>6. Carries(view'[t], base'[t], edits', copies', seen')
  BY <1>1, <1>2, <1>3, CarriedStays
<1>0. \A u \in Tab \ {t} : status'[u] = status[u] /\ timer'[u] = timer[u]
  BY <1>1 DEF PatientInv, Counters
<1>7. CASE Unchanged(t)
  <2>1. UNCHANGED <<writes, saves, push>>
    BY <1>1, <1>7 DEF Save, cacheVars, queueVars
  <2>2. StepOf(t)
    BY <1>1, <1>3, <2>1 DEF StepOf, Untouched
  <2>3. RecordsCarried'
    BY <1>1, <1>3, <1>4, <2>1, <2>2, RecordsStay DEF PatientInv
  <2>4. TabCarried(t)'
    BY <1>1, <1>2, <1>6, <1>7, <2>1 DEF TabCarried, Carried, Unchanged
  <2> QED
    BY <1>0, <1>3, <1>4, <1>5, <2>2, <2>3, <2>4, PatientStep
<1>8. CASE ~Unchanged(t)
  <2> DEFINE save == [ws |-> view[t], apply |-> TRUE, newest |-> TRUE, cached |-> FALSE]
             record == PendingRecord(t, view[t])
  <2>1. Uncached(saves[t]) = {} /\ [i \in DOMAIN saves[t] |-> [saves[t][i] EXCEPT !.newest = FALSE]] = << >>
    BY <1>2 DEF Uncached
  <2>2. /\ saves' = [saves EXCEPT ![t] = Append(<< >>, save)]
        /\ push' = [push EXCEPT ![t] = None]
        /\ writes' = Issue(t, writes, record, "save")
    BY <1>1, <1>2, <1>8, <2>1 DEF Save
  <2>8. save.ws = view[t] /\ save.apply = TRUE /\ save.newest = TRUE
    BY Zenon
  <2>3. record.ws = view[t] /\ record.base = base[t]
    BY <1>1, BaseIsThere DEF PendingRecord, Record, Else
  <2> HIDE DEF record, save
  <2>4. StepOf(t)
    BY <1>1, <1>2, <1>3, <2>2 DEF StepOf, Untouched
  <2>5. RecordsCarried'
    <3>1. Carries(record.ws, record.base, edits', copies', seen')
      BY <1>1, <1>6, <2>3
    <3> QED
      BY <1>1, <1>3, <1>4, <2>2, <2>4, <3>1, RecordIssued DEF PatientInv
  <2>6. saves'[t] = <<save>> /\ push'[t] = None
    <3>1. saves'[t] = Append(<< >>, save) /\ push'[t] = None
      BY <2>2 DEF KnowledgeInv, Families
    <3>2. Append(<< >>, save) = <<save>>
      OBVIOUS
    <3> QED
      BY <3>1, <3>2
  <2>7. TabCarried(t)'
    <3>1. /\ Len(saves'[t]) = 1 /\ saves'[t][1] = save /\ saves'[t] # << >>
          /\ phase'[t] = "open" /\ timer'[t] = FALSE /\ view'[t] = view[t]
      BY <1>1, <1>5, <2>6
    <3>2. saves'[t][1].ws = view'[t] /\ saves'[t][1].apply = TRUE /\ saves'[t][1].newest = TRUE
      BY <2>8, <3>1, Zenon
    <3> QED
      BY <1>6, <2>6, <3>1, <3>2 DEF TabCarried, Carried, Saved, Idle, Waiting
  <2> QED
    BY <1>0, <1>3, <1>4, <1>5, <2>4, <2>5, <2>7, PatientStep
<1> QED
  BY <1>7, <1>8

-----------------------------------------------------------------------------
(* The push of a patient author.                                           *)

LEMMA StartPushCarries ==
    ASSUME NullNone, KnowledgeInv, KnowledgeInv', PatientInv, NEW t \in Tab, StartPush(t) PROVE PatientInv'
<1> DEFINE save == Head(saves[t])
           p == [ws |-> save.ws, apply |-> save.apply, newest |-> save.newest,
                 candidate |-> save.ws, base |-> Else(base[t], save.ws), rev |-> rev[t],
                 tries |-> 1, at |-> "sent", answer |-> None]
<1>1. /\ push[t] = None /\ saves[t] # << >>
      /\ push' = [push EXCEPT ![t] = p] /\ saves' = [saves EXCEPT ![t] = Tail(saves[t])]
      /\ UNCHANGED <<history, late, cache, writes, phase, fetched, view, timer, status, base, rev,
                     edits, seen, copies>>
  BY DEF StartPush, serverVars, cacheVars, screenVars, fieldVars, countVars
<1>2. /\ Waiting(t) /\ Len(saves[t]) = 1 /\ Carried(view[t], base[t])
      /\ saves[t][1].ws = view[t] /\ saves[t][1].apply = TRUE /\ saves[t][1].newest = TRUE
  BY <1>1 DEF PatientInv, TabCarried, Waiting
<1>3. Tail(saves[t]) = << >> /\ save = saves[t][1]
  <2>1. /\ IsSequence(Tail(saves[t])) /\ DOMAIN Tail(saves[t]) = 1 .. Len(saves[t]) - 1
        /\ save = saves[t][1]
    BY <1>1, TailIsSequence DEF KnowledgeInv, TabKnows
  <2>2. DOMAIN Tail(saves[t]) = {}
    BY <1>2, <2>1
  <2> QED
    BY <2>1, <2>2 DEF IsSequence
<1>4. Else(base[t], save.ws) = base[t]
  BY <1>2, BaseIsThere DEF Else, Waiting
<1>5. /\ p.ws = view[t] /\ p.apply = TRUE /\ p.newest = TRUE /\ p.candidate = view[t]
      /\ p.base = base[t] /\ p.rev = rev[t] /\ p.tries = 1
  BY <1>2, <1>3, <1>4
<1> HIDE DEF p
<1>6. push'[t] = p /\ saves'[t] = << >>
  BY <1>1, <1>3 DEF KnowledgeInv, Families
<1>7. Grows
  BY <1>1, CountersGrow
<1>8. StepOf(t)
  BY <1>1, ExtendsItself DEF KnowledgeInv, Families, StepOf, Untouched
<1>9. Counters'
  BY <1>1 DEF PatientInv, Counters, Revision
<1>10. HistoryCarried' /\ LateCarried' /\ RecordsCarried'
  <2>1. MergeWaits(t)
    BY <1>1 DEF MergeWaits
  <2> QED
    BY <1>1, <1>7, <1>8, <2>1, HistoryStays, LateStays, RecordsStay DEF PatientInv, StepOf
<1>11. TabCarried(t)'
  <2>1. push'[t] # None
    <3>1. IsFunction(p)
      BY DEF p, IsFunction
    <3> QED
      BY <1>6, <3>1 DEF NullNone, IsFunction
  <2>2. Carries(p.candidate, p.base, edits', copies', seen')
    BY <1>2, <1>5, <1>7, CarriedStays
  <2>3. phase'[t] = "open" /\ ~timer'[t] /\ view'[t] = view[t] /\ base'[t] = base[t] /\ rev'[t] = rev[t]
    BY <1>1, <1>2 DEF Waiting
  <2>4. p.tries \in 1 .. Attempts
    BY <1>5, SyncAssumption DEF SyncAssumption
  <2> QED
    BY <1>5, <1>6, <2>1, <2>2, <2>3, <2>4 DEF TabCarried, Carried, Saved, Idle, Waiting
<1> QED
  BY <1>1, <1>7, <1>8, <1>9, <1>10, <1>11, PatientStep

(* A push goes on: what its tab carries.                                   *)
LEMMA PushCarries ==
    ASSUME KnowledgeInv, NEW t \in Tab, push[t] # None, TabCarried(t),
           UNCHANGED <<phase, timer, view, saves>>,
           push'[t] # None, SameCall(push'[t], push[t]),
           Carries(push'[t].candidate, push'[t].base, edits', copies', seen')
    PROVE  TabCarried(t)'
<1>1. /\ Waiting(t) /\ saves[t] = << >>
      /\ push[t].ws = view[t] /\ push[t].apply = TRUE /\ push[t].newest = TRUE
      /\ push[t].tries \in 1 .. Attempts
  BY DEF TabCarried
<1> QED
  BY <1>1 DEF TabCarried, Carried, Saved, Idle, Waiting, SameCall

LEMMA ServeCarries ==
    ASSUME NullNone, KnowledgeInv, KnowledgeInv', PatientInv, NEW t \in Tab, Serve(t) PROVE PatientInv'
<1> DEFINE p == push[t]
           at == IF p.rev = Revision THEN "saved" ELSE "conflict"
           answer == IF p.rev = Revision THEN [rev |-> Revision + 1, ws |-> p.candidate]
                                         ELSE [rev |-> Revision, ws |-> Latest]
           p2 == Answered(p, at, answer)
<1>1. /\ p # None /\ p.at = "sent" /\ push' = [push EXCEPT ![t] = p2]
      /\ \/ p.rev = Revision /\ history' = Append(history, p.candidate)
         \/ p.rev # Revision /\ history' = history
      /\ UNCHANGED <<late, cache, writes, phase, fetched, view, timer, status, base, rev, saves,
                     edits, seen, copies>>
  BY DEF Serve, Answered, cacheVars, screenVars, fieldVars, countVars
<1>2. TabCarried(t) /\ IsRequest(p, history) /\ Carried(p.candidate, p.base)
  BY <1>1 DEF PatientInv, TabCarried, KnowledgeInv, PushKnows, IsPush
<1>3. p.rev = Revision => p.base = Latest
  BY <1>2 DEF IsRequest, Known, Latest, Revision, KnowledgeInv, Families, IsSequence
<1>4. /\ p2.at = at /\ p2.candidate = p.candidate /\ p2.base = p.base /\ p2.rev = p.rev /\ SameCall(p2, p)
      /\ IsFunction(p2)
  BY <1>2, AnsweredPush DEF IsRequest
<1> HIDE DEF p2, at
<1>5. push'[t] = p2 /\ \A u \in Tab \ {t} : push'[u] = push[u]
  BY <1>1 DEF KnowledgeInv, Families
<1>6. p2 # None
  BY <1>4 DEF NullNone, IsFunction
<1>7. Grows
  BY <1>1, CountersGrow
<1>8. Extends(history', history)
  BY <1>1, ExtendsItself, ExtendsByAppend DEF KnowledgeInv, Families
<1>9. StepOf(t)
  BY <1>1, <1>5, <1>8 DEF StepOf, Untouched
<1>10. Counters'
  BY <1>1, <1>8, RevisionsGrow DEF PatientInv, Counters
<1>11. HistoryCarried'
  BY <1>1, <1>2, <1>3, <1>7, HistoryStays, HistoryAppended DEF PatientInv
<1>12. LateCarried' /\ RecordsCarried'
  <2>1. MergeWaits(t)
    BY <1>1 DEF MergeWaits
  <2> QED
    BY <1>1, <1>7, <1>8, <1>9, <2>1, LateStays, RecordsStay DEF PatientInv
<1>13. TabCarried(t)'
  <2>1. Carries(p2.candidate, p2.base, edits', copies', seen')
    BY <1>2, <1>4, <1>7, CarriedStays
  <2> QED
    BY <1>1, <1>2, <1>4, <1>5, <1>6, <2>1, PushCarries
<1> QED
  BY <1>1, <1>7, <1>9, <1>10, <1>11, <1>12, <1>13, PatientStep

LEMMA SavedAnswerCarries ==
    ASSUME NullNone, KnowledgeInv, KnowledgeInv', PatientInv, NEW t \in Tab, SavedAnswer(t) PROVE PatientInv'
<1> DEFINE p == push[t]
           p2 == [p EXCEPT !.at = "store"]
           record == Record(p.candidate, p.candidate, p.answer.rev, FALSE)
<1>1. /\ p # None /\ p.at = "saved" /\ p.newest = TRUE /\ TabCarried(t) /\ Carried(p.candidate, p.base)
  BY DEF SavedAnswer, PatientInv, TabCarried
<1>2. /\ base' = [base EXCEPT ![t] = p.candidate] /\ rev' = [rev EXCEPT ![t] = p.answer.rev]
      /\ status' = [status EXCEPT ![t] = status[t]]
      /\ UNCHANGED <<history, late, cache, phase, fetched, view, timer, saves, edits, seen, copies>>
      /\ writes' = Issue(t, writes, record, "saved") /\ push' = [push EXCEPT ![t] = p2]
  BY <1>1 DEF SavedAnswer, Adopts, serverVars, screenVars, countVars
<1>3. IsRequest(p, history) /\ p.answer.rev \in 0 .. Revision
  BY <1>1 DEF KnowledgeInv, PushKnows, IsPush, Known, Families, IsSequence, Revision
<1>4. /\ IsPush(p2, history) /\ p2.at = "store" /\ SameCall(p2, p)
      /\ p2.candidate = p.candidate /\ p2.base = p.base
  BY <1>3, StoringPush
<1>5. record.ws = p.candidate /\ record.base = p.candidate
  BY DEF Record
<1> HIDE DEF p2, record
<1>6. push'[t] = p2 /\ p2 # None
  BY <1>2, <1>4 DEF KnowledgeInv, Families, IsPush, IsRequest, NullNone, IsFunction
<1>7. Grows
  BY <1>2, CountersGrow
<1>8. StepOf(t)
  BY <1>2, ExtendsItself DEF KnowledgeInv, Families, StepOf, Untouched
<1>9. Counters'
  BY <1>2, <1>3 DEF PatientInv, Counters, Revision
<1>10. HistoryCarried' /\ LateCarried'
  BY <1>2, <1>7, <1>8, HistoryStays, LateStays DEF PatientInv, StepOf
<1>11. RecordsCarried'
  <2>1. MergeWaits(t)
    BY <1>1 DEF MergeWaits
  <2>2. Carries(record.ws, record.base, edits', copies', seen')
    <3>1. Carried(record.ws, record.base)
      BY <1>1, <1>5, OverItself DEF Carried, Carries
    <3> QED
      BY <1>7, <3>1, CarriedStays
  <2> QED
    BY <1>2, <1>7, <1>8, <2>1, <2>2, RecordIssued DEF PatientInv
<1>12. TabCarried(t)'
  <2>1. Carries(p2.candidate, p2.base, edits', copies', seen')
    BY <1>1, <1>4, <1>7, CarriedStays
  <2> QED
    BY <1>1, <1>2, <1>4, <1>6, <2>1, PushCarries
<1>13. \A u \in Tab \ {t} : status'[u] = status[u] /\ timer'[u] = timer[u]
  BY <1>2
<1> QED
  BY <1>7, <1>8, <1>9, <1>10, <1>11, <1>12, <1>13, PatientStep

LEMMA ConflictAnswerCarries ==
    ASSUME NullNone, CopiesAreNew, KnowledgeInv, KnowledgeInv', PatientInv, NEW t \in Tab, ConflictAnswer(t)
    PROVE  PatientInv'
<1> DEFINE p == push[t]
           server == p.answer.ws
           clashes == Conflicts(server, p.candidate, p.base)
           merged == Reconciled(server, p.candidate, p.base, copies + 1)
           q == Rebased(p, merged)
           p2 == [q EXCEPT !.at = "store"]
           record == Record(merged, server, p.answer.rev, TRUE)
<1>1. /\ p # None /\ p.at = "conflict" /\ p.newest = TRUE /\ TabCarried(t) /\ Carried(p.candidate, p.base)
  BY DEF ConflictAnswer, PatientInv, TabCarried
<1>2. /\ base' = [base EXCEPT ![t] = server] /\ rev' = [rev EXCEPT ![t] = p.answer.rev]
      /\ copies' = IF clashes \subseteq Setting THEN copies ELSE copies + 1
      /\ writes' = Issue(t, writes, record, "merged") /\ push' = [push EXCEPT ![t] = p2]
      /\ UNCHANGED <<history, late, cache, phase, fetched, view, timer, status, saves, edits, seen>>
  BY <1>1 DEF ConflictAnswer, serverVars, screenVars
<1>3. /\ IsRequest(p, history) /\ Known(server, p.answer.rev, history)
      /\ p.answer.rev \in 0 .. Revision /\ Written(server, edits, copies)
  BY <1>1 DEF KnowledgeInv, PushKnows, IsPush, Known, Families, IsSequence, Revision,
              PatientInv, HistoryCarried
<1>4. Grows
  <2>1. edits \in Nat /\ copies \in Nat
    BY SyncAssumption DEF PatientInv, Counters, Edit, SyncAssumption
  <2> QED
    BY <1>2, <2>1 DEF Grows
<1>5. Carries(merged, server, edits, copies', seen)
  <2>1. Over(merged, server, seen)
    BY <1>1, <1>3, <1>4, MergeIsOverServer DEF Carried, Grows
  <2>2. Written(merged, edits, copies')
    <3>1. Written(p.candidate, edits, copies) /\ edits \in Nat /\ copies \in Nat
      BY <1>1, <1>4 DEF Carried, Carries, Grows
    <3>2. /\ Written(merged, edits, copies + 1)
          /\ clashes \subseteq Setting => Written(merged, edits, copies)
      BY <1>3, <3>1, MergeIsWritten
    <3> QED
      BY <1>2, <3>2
  <2>3. Written(server, edits, copies')
    BY <1>3, <1>4, WrittenStays DEF Grows
  <2> QED
    BY <2>1, <2>2, <2>3 DEF Carries
<1>6. IsFunction(merged)
  BY DEF Reconciled, With, IsFunction
<1> HIDE DEF merged
<1>7. IsRequest(q, history) /\ q.candidate = merged /\ q.base = server /\ SameCall(q, p)
  BY <1>3, <1>6, RebasedPush DEF SameCall
<1> HIDE DEF q
<1>8. /\ IsPush(p2, history) /\ p2.at = "store" /\ SameCall(p2, q)
      /\ p2.candidate = merged /\ p2.base = server
  BY <1>7, StoringPush
<1>9. record.ws = merged /\ record.base = server
  BY DEF Record
<1> HIDE DEF p2, record
<1>10. push'[t] = p2 /\ p2 # None /\ base'[t] = server
  BY <1>2, <1>8 DEF KnowledgeInv, Families, IsPush, IsRequest, NullNone, IsFunction
<1>11. StepOf(t)
  BY <1>2, ExtendsItself DEF KnowledgeInv, Families, StepOf, Untouched
<1>12. Counters'
  BY <1>2, <1>3, <1>4 DEF PatientInv, Counters, Revision, Grows
<1>13. HistoryCarried' /\ LateCarried'
  BY <1>2, <1>4, <1>11, HistoryStays, LateStays DEF PatientInv, StepOf
<1>14. Carries(merged, server, edits', copies', seen')
  BY <1>2, <1>5
<1>15. RecordsCarried'
  <2>1. MergeWaits(t)
    BY <1>1 DEF MergeWaits
  <2>2. Carries(record.ws, record.base, edits', copies', seen') /\ push'[t].base = base'[t]
    BY <1>8, <1>9, <1>10, <1>14
  <2> QED
    BY <1>2, <1>4, <1>11, <2>1, <2>2, RecordIssued DEF PatientInv
<1>16. TabCarried(t)'
  <2>1. SameCall(p2, p)
    BY <1>7, <1>8 DEF SameCall
  <2>2. Carries(p2.candidate, p2.base, edits', copies', seen')
    BY <1>8, <1>14
  <2> QED
    BY <1>1, <1>2, <1>8, <1>10, <2>1, <2>2, PushCarries
<1>17. \A u \in Tab \ {t} : status'[u] = status[u] /\ timer'[u] = timer[u]
  BY <1>2
<1> QED
  BY <1>4, <1>11, <1>12, <1>13, <1>15, <1>16, <1>17, PatientStep

(* A late request is over the revision it was made for, and changes no tab. *)
LEMMA LateCarries ==
    ASSUME KnowledgeInv, KnowledgeInv', PatientInv, Late PROVE PatientInv'
<1>1. PICK r \in late : /\ late' = late \ {r}
                        /\ \/ r.rev = Revision /\ history' = Append(history, r.ws)
                           \/ history' = history
  BY DEF Late
<1>2. UNCHANGED <<cache, writes, phase, fetched, view, timer, status, base, rev, saves, push, edits, seen, copies>>
  BY DEF Late, cacheVars, screenVars, fieldVars, queueVars, countVars
<1>3. Grows
  BY <1>2, CountersGrow
<1>4. Extends(history', history)
  BY <1>1, ExtendsItself, ExtendsByAppend DEF KnowledgeInv, Families
<1>5. HistoryCarried'
  <2>1. r.rev = Revision => Carried(r.ws, Latest)
    BY DEF PatientInv, LateCarried, Latest, Revision, KnowledgeInv, Families, IsSequence
  <2> QED
    BY <1>1, <1>3, <2>1, HistoryStays, HistoryAppended DEF PatientInv
<1>6. LateCarried'
  BY <1>1, <1>3, <1>4, LateStays DEF PatientInv
<1>7. RecordsCarried'
  BY <1>2 DEF PatientInv, RecordsCarried, Carried
<1>8. \A t \in Tab : TabCarried(t)'
  BY <1>2 DEF PatientInv, TabCarried, Carried, Waiting, Saved, Idle
<1>9. Counters'
  BY <1>2, <1>4, RevisionsGrow DEF PatientInv, Counters
<1> QED
  BY <1>5, <1>6, <1>7, <1>8, <1>9 DEF PatientInv

(* A tab that closes leaves what is stored, and a request on its way.      *)
LEMMA CloseCarries ==
    ASSUME KnowledgeInv, KnowledgeInv', PatientInv, NEW t \in Tab, Close(t) PROVE PatientInv'
<1> DEFINE d == DeviceOf[t]
           request == [ws |-> push[t].candidate, rev |-> push[t].rev]
<1>1. /\ \/ late' = late
         \/ push[t] # None /\ push[t].at = "sent" /\ late' = late \cup {request}
      /\ phase' = [phase EXCEPT ![t] = "closed"] /\ fetched' = [fetched EXCEPT ![t] = None]
      /\ view' = [view EXCEPT ![t] = None] /\ timer' = [timer EXCEPT ![t] = FALSE]
      /\ base' = [base EXCEPT ![t] = None] /\ rev' = [rev EXCEPT ![t] = 0]
      /\ status' = [status EXCEPT ![t] = "synchronizing"]
      /\ saves' = [saves EXCEPT ![t] = << >>] /\ push' = [push EXCEPT ![t] = None]
      /\ UNCHANGED <<history, cache, edits, seen, copies>>
      /\ writes' = [writes EXCEPT ![d] = [i \in DOMAIN writes[d] |->
            IF writes[d][i].tab = t THEN [writes[d][i] EXCEPT !.then = "aborted"] ELSE writes[d][i]]]
  BY DEF Close, Adopts
<1>2. Grows
  BY <1>1, CountersGrow
<1>3. StepOf(t) /\ Extends(history', history)
  BY <1>1, ExtendsItself DEF KnowledgeInv, Families, StepOf, Untouched
<1>4. Counters'
  BY <1>1, <1>3, RevisionsGrow DEF PatientInv, Counters, Revision
<1>5. HistoryCarried'
  BY <1>1, <1>2, HistoryStays DEF PatientInv
<1>6. LateCarried'
  <2>1. ASSUME push[t] # None
        PROVE  request.rev + 1 \in DOMAIN history /\ Carried(request.ws, history[request.rev + 1])
    <3>1. IsRequest(push[t], history) /\ Carried(push[t].candidate, push[t].base)
      BY <2>1 DEF KnowledgeInv, PushKnows, IsPush, PatientInv, TabCarried
    <3> QED
      BY <3>1 DEF IsRequest, Known, KnowledgeInv, Families, IsSequence
  <2> HIDE DEF request
  <2>2. \A r \in late' : r.rev + 1 \in DOMAIN history /\ Carried(r.ws, history[r.rev + 1])
    BY <1>1, <2>1 DEF PatientInv, LateCarried
  <2>3. \A r \in late' : r.rev + 1 \in DOMAIN history /\
              Carries(r.ws, history[r.rev + 1], edits', copies', seen')
    BY <1>2, <2>2, CarriedStays
  <2> QED
    BY <1>1, <2>3 DEF LateCarried, Carried
<1>7. RecordsCarried'
  <2>1. d \in Device /\ DOMAIN writes = Device
    BY SyncAssumption DEF SyncAssumption, KnowledgeInv, Families
  <2>2. /\ DOMAIN writes'[d] = DOMAIN writes[d]
        /\ \A i \in DOMAIN writes[d] : writes'[d][i] =
              IF writes[d][i].tab = t THEN [writes[d][i] EXCEPT !.then = "aborted"] ELSE writes[d][i]
        /\ \A v \in Device \ {d} : writes'[v] = writes[v]
    BY <1>1, <2>1
  <2>3. ASSUME NEW v \in Device, NEW i \in DOMAIN writes'[v]
        PROVE  LET put == writes'[v][i] IN
                /\ Carries(put.record.ws, put.record.base, edits', copies', seen')
                /\ put.then = "merged" => push'[put.tab].base = base'[put.tab]
    <3> DEFINE w == writes[v][i]
               x == writes'[v][i]
    <3>1. i \in DOMAIN writes[v] /\ Awaited(v, w, phase, push, base)
      BY <2>2 DEF KnowledgeInv, PutsFit, Fit
    <3>2. /\ Carried(w.record.ws, w.record.base)
          /\ w.then = "merged" => push[w.tab].base = base[w.tab]
      BY <3>1 DEF PatientInv, RecordsCarried
    <3>3. Carries(w.record.ws, w.record.base, edits', copies', seen')
      BY <1>2, <3>2, CarriedStays
    <3>4. x = [w EXCEPT !.then = "aborted"] \/ (x = w /\ (w.tab # t \/ w.then = "aborted"))
      <4>1. CASE v = d
        BY <2>2, <3>1, <4>1
      <4>2. CASE v # d
        <5>1. x = w
          BY <2>2, <4>2
        <5>2. w.then # "aborted" => w.tab # t
          BY <3>1, <4>2 DEF Awaited
        <5> QED
          BY <5>1, <5>2
      <4> QED
        BY <4>1, <4>2
    <3> HIDE DEF w, x
    <3>5. CASE x = [w EXCEPT !.then = "aborted"]
      <4>1. x.record = w.record /\ x.then = "aborted"
        BY <3>1, <3>5 DEF Awaited, IsFunction, PutFields
      <4> QED
        BY <3>3, <4>1 DEF x
    <3>6. CASE x = w /\ (w.tab # t \/ w.then = "aborted")
      <4>1. w.then = "merged" => push'[w.tab].base = base'[w.tab]
        BY <1>1, <3>1, <3>2, <3>6 DEF Awaited, KnowledgeInv, Families
      <4> QED
        BY <3>3, <3>6, <4>1 DEF x
    <3> QED
      BY <3>4, <3>5, <3>6
  <2> QED
    BY <1>1, <1>2, <2>3, CacheStaysCarried DEF PatientInv
<1>8. TabCarried(t)'
  <2>1. phase'[t] = "closed" /\ saves'[t] = << >> /\ push'[t] = None
    BY <1>1 DEF KnowledgeInv, Families
  <2> QED
    BY <2>1 DEF TabCarried, Saved, Idle
<1>9. \A u \in Tab \ {t} : status'[u] = status[u] /\ timer'[u] = timer[u]
  BY <1>1
<1> QED
  BY <1>2, <1>3, <1>4, <1>5, <1>6, <1>7, <1>8, <1>9, PatientStep

-----------------------------------------------------------------------------
(* A put of a patient author's tab completes.                              *)

(* The puts behind the one that completes.                                 *)
LEMMA RestPuts ==
    ASSUME Grows, KnowledgeInv, RecordsCarried, NEW v \in Device, writes[v] # << >>,
           NEW t \in Tab, StepOf(t), writes' = Rest(v),
           MergeWaits(t) \/ (Head(writes[v]).tab = t /\ Head(writes[v]).then \in {"saved", "merged"}),
           NEW x \in Device, NEW i \in DOMAIN writes'[x]
    PROVE  LET put == writes'[x][i] IN
           /\ Carries(put.record.ws, put.record.base, edits', copies', seen')
           /\ put.then = "merged" => push'[put.tab].base = base'[put.tab]
<1> DEFINE w == writes'[x][i]
           head == Head(writes[v])
<1>1. /\ \A y \in Device : Fit(y, writes[y], phase, push, base, history)
      /\ DOMAIN writes = Device
  BY DEF KnowledgeInv, PutsFit, Families
<1>2. /\ Awaited(v, head, phase, push, base)
      /\ \A j \in DOMAIN Tail(writes[v]) : ~Rivals(head, Tail(writes[v])[j])
  BY <1>1, FitTail
<1>3. /\ DOMAIN writes[v] = 1 .. Len(writes[v]) /\ Len(writes[v]) \in Nat \ {0}
      /\ DOMAIN Tail(writes[v]) = 1 .. Len(writes[v]) - 1
      /\ \A j \in DOMAIN Tail(writes[v]) : Tail(writes[v])[j] = writes[v][j + 1]
  BY <1>1, TailIsSequence DEF Fit
<1>4. writes'[v] = Tail(writes[v]) /\ \A y \in Device \ {v} : writes'[y] = writes[y]
  BY <1>1 DEF Rest
<1>5. /\ \E j \in DOMAIN writes[x] : w = writes[x][j]
      /\ x = v => ~Rivals(head, w)
  <2>1. CASE x = v
    <3>1. i \in DOMAIN Tail(writes[v]) /\ w = Tail(writes[v])[i]
      BY <1>4, <2>1
    <3>2. i + 1 \in DOMAIN writes[v]
      BY <1>3, <3>1
    <3> QED
      BY <1>2, <1>3, <2>1, <3>1, <3>2
  <2>2. CASE x # v
    BY <1>4, <2>2
  <2> QED
    BY <2>1, <2>2
<1>6. /\ Awaited(x, w, phase, push, base) /\ Carried(w.record.ws, w.record.base)
      /\ w.then = "merged" => push[w.tab].base = base[w.tab]
  BY <1>1, <1>5 DEF Fit, RecordsCarried
<1> HIDE DEF w, head
<1>7. ASSUME w.then = "merged" PROVE push'[w.tab].base = base'[w.tab]
  <2>1. w.tab \in Tab /\ push[w.tab] # None /\ push[w.tab].at = "store" /\ DeviceOf[w.tab] = x
    BY <1>6, <1>7 DEF Awaited
  <2>2. CASE w.tab # t
    BY <1>6, <1>7, <2>1, <2>2 DEF StepOf, Untouched
  <2>3. CASE w.tab = t
    <3>1. ~(head.tab = t /\ head.then \in {"saved", "merged"})
      BY <1>2, <1>5, <1>7, <2>1, <2>3 DEF Awaited, Rivals
    <3> QED
      BY <1>6, <1>7, <2>1, <2>3, <3>1 DEF MergeWaits, head
  <2> QED
    BY <2>2, <2>3
<1>8. Carries(w.record.ws, w.record.base, edits', copies', seen')
  BY <1>6, CarriedStays
<1> QED
  BY <1>7, <1>8 DEF w

LEMMA StoredRecords ==
    ASSUME Grows, KnowledgeInv, RecordsCarried, NEW v \in Device, NEW t \in Tab, Completes(v, t), StepOf(t),
           writes' = Rest(v), MergeWaits(t) \/ Head(writes[v]).then \in {"saved", "merged"}
    PROVE  RecordsCarried'
<1>1. \A x \in Device : \A i \in DOMAIN writes'[x] : LET put == writes'[x][i] IN
          /\ Carries(put.record.ws, put.record.base, edits', copies', seen')
          /\ put.then = "merged" => push'[put.tab].base = base'[put.tab]
  BY RestPuts DEF Completes
<1>2. Carried(Head(writes[v]).record.ws, Head(writes[v]).record.base)
  <2>1. Head(writes[v]) = writes[v][1] /\ 1 \in DOMAIN writes[v]
    BY TailIsSequence DEF Completes, KnowledgeInv, PutsFit, Fit
  <2> QED
    BY <2>1 DEF RecordsCarried
<1>3. ASSUME NEW x \in Device, cache'[x] # None
      PROVE  Carries(cache'[x].ws, cache'[x].base, edits', copies', seen')
  <2>1. cache'[x] = IF x = v THEN Head(writes[v]).record ELSE cache[x]
    BY DEF Completes, KnowledgeInv, Families
  <2>2. Carried(cache'[x].ws, cache'[x].base)
    BY <1>2, <1>3, <2>1 DEF RecordsCarried
  <2> QED
    BY <2>2, CarriedStays
<1> QED
  BY <1>1, <1>3 DEF RecordsCarried, Carried

(* What the disjuncts of Stored have in common, for a patient author.      *)
LEMMA CompletionCarries ==
    ASSUME KnowledgeInv, KnowledgeInv', PatientInv, NEW v \in Device, NEW t \in Tab, Completes(v, t),
           writes' = Rest(v), MergeWaits(t) \/ Head(writes[v]).then \in {"saved", "merged"},
           UNCHANGED <<edits, seen, copies>>, \A u \in Tab \ {t} : Untouched(u),
           NEW s \in {"synchronized", "synchronizing", "unsynced"}, NEW m \in BOOLEAN,
           \/ status' = [status EXCEPT ![t] = s]
           \/ status' = status,
           \/ timer' = [timer EXCEPT ![t] = m]
           \/ timer' = timer,
           phase' = [phase EXCEPT ![t] = "open"] \/ (phase' = phase /\ phase[t] = "open"),
           TabCarried(t)'
    PROVE  PatientInv'
<1>1. Grows
  BY CountersGrow
<1>2. history' = history /\ late' = late /\ rev' = rev /\ base' = base
  BY DEF Completes
<1>3. StepOf(t)
  BY <1>2, ExtendsItself DEF KnowledgeInv, Families, StepOf
<1>4. Counters'
  BY <1>2 DEF PatientInv, Counters, Revision
<1>5. HistoryCarried' /\ LateCarried'
  BY <1>1, <1>2, <1>3, HistoryStays, LateStays DEF PatientInv, StepOf
<1>6. RecordsCarried'
  BY <1>1, <1>3, StoredRecords DEF PatientInv
<1>7. \A u \in Tab \ {t} : status'[u] = status[u] /\ timer'[u] = timer[u]
  BY DEF PatientInv, Counters
<1> QED
  BY <1>1, <1>3, <1>4, <1>5, <1>6, <1>7, PatientStep

LEMMA LoadStoredCarries ==
    ASSUME KnowledgeInv, KnowledgeInv', PatientInv, NEW v \in Device, NEW t \in Tab, Completes(v, t),
           Head(writes[v]).then = "load", LoadStored(t, Rest(v)), UNCHANGED <<edits, seen, copies>>
    PROVE  PatientInv'
<1>1. /\ phase' = [phase EXCEPT ![t] = "open"] /\ view' = [view EXCEPT ![t] = base[t]]
      /\ timer' = [timer EXCEPT ![t] = TRUE] /\ status' = [status EXCEPT ![t] = "synchronized"]
      /\ fetched' = [fetched EXCEPT ![t] = None] /\ writes' = Rest(v)
      /\ UNCHANGED <<saves, push, base, rev>>
  BY DEF LoadStored, Shows, queueVars, Completes
<1>2. phase[t] = "store" /\ push[t] = None /\ saves[t] = << >> /\ Known(base[t], rev[t], history)
  <2>1. Awaited(v, Head(writes[v]), phase, push, base)
    BY FitTail DEF KnowledgeInv, PutsFit, Completes
  <2> QED
    BY <2>1 DEF Awaited, Completes, KnowledgeInv, TabKnows
<1>3. Written(base[t], edits, copies)
  BY <1>2 DEF Known, KnowledgeInv, Families, IsSequence, PatientInv, HistoryCarried
<1>4. TabCarried(t)'
  <2>1. phase'[t] = "open" /\ view'[t] = base[t] /\ base'[t] = base[t] /\ timer'[t] = TRUE
    BY <1>1 DEF KnowledgeInv, Families, PatientInv, Counters
  <2>2. Carries(view'[t], base'[t], edits', copies', seen')
    BY <1>3, <2>1, OverItself DEF Carries
  <2> QED
    BY <1>1, <1>2, <2>1, <2>2 DEF TabCarried, Carried, Saved, Idle
<1>5. \A u \in Tab \ {t} : Untouched(u)
  BY <1>1 DEF Untouched
<1>6. MergeWaits(t)
  BY <1>2 DEF MergeWaits
<1> QED
  BY <1>1, <1>4, <1>5, <1>6, CompletionCarries

LEMMA SaveStoredCarries ==
    ASSUME KnowledgeInv, KnowledgeInv', PatientInv, NEW v \in Device, NEW t \in Tab, Completes(v, t),
           Head(writes[v]).then = "save", SaveStored(t, Rest(v)), UNCHANGED <<edits, seen, copies>>
    PROVE  PatientInv'
<1> DEFINE U == Uncached(saves[t])
           first == CHOOSE i \in U : \A j \in U : i <= j
           left == U \ {first}
           q == saves[t]
           r == [q EXCEPT ![first] = [q[first] EXCEPT !.cached = TRUE]]
<1>1. phase[t] = "open" /\ TabCarried(t) /\ TabKnows(t) /\ IsSequence(q)
  <2>1. Awaited(v, Head(writes[v]), phase, push, base)
    BY FitTail DEF KnowledgeInv, PutsFit, Completes
  <2> QED
    BY <2>1 DEF Awaited, Completes, KnowledgeInv, TabKnows, PatientInv
<1>2. left = {}
  <2>1. DOMAIN q \subseteq {1}
    BY <1>1 DEF TabCarried, IsSequence
  <2>2. U \subseteq {1}
    BY <2>1 DEF Uncached
  <2>3. U # {} => first \in U
    BY <2>2
  <2> QED
    BY <2>2, <2>3
<1>3. /\ saves' = [saves EXCEPT ![t] = r] /\ writes' = Rest(v)
      /\ status' = [status EXCEPT ![t] = "synchronizing"]
      /\ UNCHANGED <<phase, fetched, view, timer, push, base, rev>>
  BY <1>2 DEF SaveStored, screenVars, Completes
<1>4. saves'[t] = r
  BY <1>3 DEF KnowledgeInv, Families
<1> HIDE DEF first, U, left
<1>5. /\ DOMAIN r = DOMAIN q
      /\ q # << >> => Len(r) = Len(q) /\ r[1].ws = q[1].ws /\ r[1].apply = q[1].apply /\ r[1].newest = q[1].newest
      /\ q = << >> => r = << >>
  <2>1. IsFunction(r) /\ DOMAIN r = DOMAIN q
    BY DEF IsFunction
  <2>2. Len(r) = Len(q)
    BY <1>1, <2>1, MappedIsSequence
  <2>3. ASSUME q # << >>
        PROVE  r[1].ws = q[1].ws /\ r[1].apply = q[1].apply /\ r[1].newest = q[1].newest
    <3>1. 1 \in DOMAIN q /\ IsSave(q[1])
      BY <1>1, <2>3 DEF TabCarried, IsSequence, TabKnows
    <3>2. CASE first # 1
      <4>1. r[1] = q[1]
        BY <3>1, <3>2
      <4> QED
        BY <4>1
    <3>3. CASE first = 1
      <4> DEFINE s == q[1]
      <4>1. r[1] = [s EXCEPT !.cached = TRUE] /\ IsSave(s)
        BY <3>1, <3>3
      <4> HIDE DEF s, r
      <4>2. r[1].ws = s.ws /\ r[1].apply = s.apply /\ r[1].newest = s.newest
        BY <4>1 DEF IsSave, SaveFields
      <4> QED
        BY <4>2 DEF s
    <3> QED
      BY <3>2, <3>3
  <2>4. q = << >> => r = << >>
    OBVIOUS
  <2> QED
    BY <2>1, <2>2, <2>3, <2>4
<1> HIDE DEF r
<1>6. TabCarried(t)'
  <2>1. status'[t] = "synchronizing"
    BY <1>3 DEF PatientInv, Counters
  <2>2. /\ phase'[t] = "open" /\ push'[t] = push[t] /\ view'[t] = view[t] /\ base'[t] = base[t]
        /\ timer'[t] = timer[t]
    BY <1>1, <1>3
  <2>3. /\ push'[t] = None => Carried(view[t], base[t])'
        /\ push'[t] # None => Carried(push[t].candidate, push[t].base)'
    BY <1>1, <1>3, <2>2 DEF TabCarried, Carried
  <2>4. saves'[t] # << >> =>
          /\ Waiting(t)' /\ push'[t] = None /\ Len(saves'[t]) = 1
          /\ saves'[t][1].ws = view'[t] /\ saves'[t][1].apply = TRUE /\ saves'[t][1].newest = TRUE
    BY <1>1, <1>4, <1>5, <2>2 DEF TabCarried, Waiting
  <2>5. push'[t] # None => saves'[t] = << >> /\ Waiting(t)'
    BY <1>1, <1>4, <1>5, <2>2 DEF TabCarried, Waiting
  <2> QED
    BY <1>1, <2>1, <2>2, <2>3, <2>4, <2>5 DEF TabCarried, Saved
<1>7. \A u \in Tab \ {t} : Untouched(u)
  BY <1>3 DEF Untouched
<1>8. MergeWaits(t)
  BY <1>3 DEF MergeWaits
<1> QED
  BY <1>1, <1>3, <1>6, <1>7, <1>8, CompletionCarries

(* The screen takes what the push resolves to: it still shows what the     *)
(* push was for.                                                           *)
LEMMA ResolveShows ==
    ASSUME KnowledgeInv, PatientInv, NEW t \in Tab, push[t] # None, NEW ws, Resolve(t, ws)
    PROVE  /\ view'[t] = ws /\ push'[t] = None /\ saves[t] = << >> /\ phase[t] = "open"
           /\ \A u \in Tab \ {t} : view'[u] = view[u] /\ push'[u] = push[u]
           /\ \E m \in BOOLEAN : timer' = [timer EXCEPT ![t] = m]
<1>1. push[t].apply = TRUE /\ view[t] = push[t].ws /\ timer[t] \in BOOLEAN /\ saves[t] = << >> /\ phase[t] = "open"
  BY DEF PatientInv, TabCarried, Counters, Waiting
<1> DEFINE shown == push[t].apply /\ view[t] = push[t].ws /\ ws # view[t]
<1>2. shown <=> ws # view[t]
  BY <1>1
<1>3. /\ view' = [view EXCEPT ![t] = IF shown THEN ws ELSE view[t]]
      /\ timer' = [timer EXCEPT ![t] = timer[t] \/ shown]
      /\ push' = [push EXCEPT ![t] = None]
  BY DEF Resolve
<1> HIDE DEF shown
<1>4. (timer[t] \/ shown) \in BOOLEAN
  OBVIOUS
<1> QED
  BY <1>1, <1>2, <1>3, <1>4 DEF KnowledgeInv, Families

LEMMA ResultStoredCarries ==
    ASSUME KnowledgeInv, KnowledgeInv', PatientInv, NEW v \in Device, NEW t \in Tab, Completes(v, t),
           Head(writes[v]).then = "saved", ResultStored(t, Rest(v)), UNCHANGED <<edits, seen, copies>>
    PROVE  PatientInv'
<1> DEFINE p == push[t]
<1>1. p # None /\ base[t] = p.candidate /\ Carried(p.candidate, p.base)
  <2>1. Awaited(v, Head(writes[v]), phase, push, base)
    BY FitTail DEF KnowledgeInv, PutsFit, Completes
  <2> QED
    BY <2>1 DEF Awaited, Completes, PatientInv, TabCarried
<1>2. /\ Resolve(t, p.candidate) /\ status' = [status EXCEPT ![t] = "synchronized"] /\ writes' = Rest(v)
      /\ UNCHANGED <<phase, fetched, saves, base, rev>>
  BY DEF ResultStored, Completes
<1>3. /\ view'[t] = p.candidate /\ push'[t] = None /\ saves[t] = << >> /\ phase[t] = "open"
      /\ \A u \in Tab \ {t} : view'[u] = view[u] /\ push'[u] = push[u]
      /\ \E m \in BOOLEAN : timer' = [timer EXCEPT ![t] = m]
  BY <1>1, <1>2, ResolveShows
<1>4. TabCarried(t)'
  <2>1. Carries(view'[t], base'[t], edits', copies', seen')
    BY <1>1, <1>2, <1>3, OverItself DEF Carried, Carries
  <2>2. view'[t] = base'[t]
    BY <1>1, <1>2, <1>3
  <2> QED
    BY <1>2, <1>3, <2>1, <2>2 DEF TabCarried, Carried
<1>5. \A u \in Tab \ {t} : Untouched(u)
  BY <1>2, <1>3 DEF Untouched
<1> QED
  BY <1>2, <1>3, <1>4, <1>5, CompletionCarries

LEMMA MergeStoredCarries ==
    ASSUME NullNone, KnowledgeInv, KnowledgeInv', PatientInv, NEW v \in Device, NEW t \in Tab, Completes(v, t),
           Head(writes[v]).then = "merged", MergeStored(t, Rest(v)), UNCHANGED <<edits, seen, copies>>
    PROVE  PatientInv'
<1> DEFINE p == push[t]
<1>1. /\ p # None /\ phase[t] = "open" /\ TabCarried(t) /\ IsRequest(p, history)
      /\ p.newest = TRUE /\ p.tries \in 1 .. Attempts
      /\ Carried(p.candidate, p.base) /\ p.base = base[t]
  <2>1. Awaited(v, Head(writes[v]), phase, push, base)
    BY FitTail DEF KnowledgeInv, PutsFit, Completes
  <2>2. p # None
    BY <2>1 DEF Awaited, Completes
  <2>3. Head(writes[v]) = writes[v][1] /\ 1 \in DOMAIN writes[v]
    BY TailIsSequence DEF Completes, KnowledgeInv, PutsFit, Fit
  <2>4. p.base = base[t]
    BY <2>3 DEF PatientInv, RecordsCarried, Completes
  <2> QED
    BY <2>2, <2>4 DEF PatientInv, TabCarried, Waiting, KnowledgeInv, PushKnows, IsPush
<1>2. NextTry(t, p) /\ writes' = Rest(v) /\ UNCHANGED <<phase, fetched, saves, base, rev>>
  BY DEF MergeStored, Completes
<1>3. CASE ~LastTry(p)
  <2>1. push' = [push EXCEPT ![t] = Resent(p)] /\ UNCHANGED <<status, view, timer>>
    BY <1>2, <1>3 DEF NextTry, Resent, screenVars
  <2>2. /\ IsPush(Resent(p), history) /\ Resent(p).candidate = p.candidate /\ Resent(p).base = p.base
        /\ Resent(p).tries = p.tries + 1 /\ Resent(p).newest = p.newest
        /\ Resent(p).apply = p.apply /\ Resent(p).ws = p.ws
    BY <1>1, ResentPush
  <2>3. push'[t] = Resent(p) /\ Resent(p) # None
    BY <2>1, <2>2 DEF KnowledgeInv, Families, IsPush, IsRequest, NullNone, IsFunction
  <2>4. p.tries + 1 \in 1 .. Attempts
    BY <1>1, <1>3, SyncAssumption DEF LastTry, SyncAssumption
  <2>5. TabCarried(t)'
    <3>1. /\ Waiting(t) /\ saves[t] = << >> /\ p.ws = view[t] /\ p.apply = TRUE
      BY <1>1 DEF TabCarried
    <3>2. Carries(push'[t].candidate, push'[t].base, edits', copies', seen')
      BY <1>1, <2>2, <2>3 DEF Carried
    <3> QED
      BY <1>1, <1>2, <2>1, <2>2, <2>3, <2>4, <3>1, <3>2 DEF TabCarried, Carried, Saved, Idle, Waiting
  <2>6. \A u \in Tab \ {t} : Untouched(u)
    BY <1>2, <2>1 DEF Untouched
  <2> QED
    BY <1>1, <1>2, <2>1, <2>5, <2>6, CompletionCarries
<1>4. CASE LastTry(p)
  <2>1. Resolve(t, p.candidate) /\ status' = [status EXCEPT ![t] = "unsynced"]
    BY <1>1, <1>2, <1>4 DEF NextTry
  <2>2. /\ view'[t] = p.candidate /\ push'[t] = None /\ saves[t] = << >> /\ phase[t] = "open"
        /\ \A u \in Tab \ {t} : view'[u] = view[u] /\ push'[u] = push[u]
        /\ \E m \in BOOLEAN : timer' = [timer EXCEPT ![t] = m]
    BY <1>1, <2>1, ResolveShows
  <2>3. status'[t] = "unsynced"
    BY <2>1 DEF PatientInv, Counters
  <2>4. TabCarried(t)'
    <3>1. Carries(view'[t], base'[t], edits', copies', seen')
      BY <1>1, <1>2, <2>2 DEF Carried
    <3> QED
      BY <1>2, <2>2, <2>3, <3>1 DEF TabCarried, Carried, Saved
  <2>5. \A u \in Tab \ {t} : Untouched(u)
    BY <1>2, <2>2 DEF Untouched
  <2> QED
    BY <1>2, <2>1, <2>2, <2>4, <2>5, CompletionCarries
<1> QED
  BY <1>3, <1>4

LEMMA StoredCarries ==
    ASSUME NullNone, KnowledgeInv, KnowledgeInv', PatientInv, NEW v \in Device, Stored(v) PROVE PatientInv'
<1> DEFINE put == Head(writes[v])
           t == put.tab
<1>1. writes[v] # << >> /\ UNCHANGED <<history, late, base, rev, edits, seen, copies>>
  BY DEF Stored, serverVars, countVars
<1>2. \/ /\ \/ put.then = "load" /\ LoadStored(t, Rest(v))
            \/ put.then = "save" /\ SaveStored(t, Rest(v))
            \/ put.then = "saved" /\ ResultStored(t, Rest(v))
            \/ put.then = "merged" /\ MergeStored(t, Rest(v))
         /\ cache' = [cache EXCEPT ![v] = put.record]
      \/ /\ put.then = "aborted" /\ writes' = Rest(v)
         /\ UNCHANGED <<cache, phase, fetched, view, timer, status, saves, push>>
  BY DEF Stored, Rest, screenVars, queueVars
<1>3. t \in Tab
  BY <1>1, FitTail DEF KnowledgeInv, PutsFit, Awaited
<1>4. CASE /\ put.then = "aborted" /\ writes' = Rest(v)
           /\ UNCHANGED <<cache, phase, fetched, view, timer, status, saves, push>>
  <2>1. Grows
    BY <1>1, CountersGrow
  <2>2. StepOf(t) /\ MergeWaits(t)
    BY <1>1, <1>4, ExtendsItself DEF KnowledgeInv, Families, StepOf, Untouched, MergeWaits
  <2>3. RecordsCarried'
    <3>1. \A x \in Device : \A i \in DOMAIN writes'[x] : LET w == writes'[x][i] IN
              /\ Carries(w.record.ws, w.record.base, edits', copies', seen')
              /\ w.then = "merged" => push'[w.tab].base = base'[w.tab]
      BY <1>1, <1>3, <1>4, <2>1, <2>2, RestPuts DEF PatientInv
    <3> QED
      BY <1>4, <2>1, <3>1, CacheStaysCarried DEF PatientInv
  <2>4. HistoryCarried' /\ LateCarried'
    BY <1>1, <2>1, <2>2, HistoryStays, LateStays DEF PatientInv, StepOf
  <2>5. Counters'
    BY <1>1, <1>4 DEF PatientInv, Counters, Revision
  <2>6. \A u \in Tab : TabCarried(u)'
    BY <1>1, <1>4 DEF PatientInv, TabCarried, Carried, Waiting, Saved, Idle
  <2> QED
    BY <2>3, <2>4, <2>5, <2>6 DEF PatientInv
<1>5. CASE cache' = [cache EXCEPT ![v] = put.record]
           /\ \/ put.then = "load" /\ LoadStored(t, Rest(v))
              \/ put.then = "save" /\ SaveStored(t, Rest(v))
              \/ put.then = "saved" /\ ResultStored(t, Rest(v))
              \/ put.then = "merged" /\ MergeStored(t, Rest(v))
  <2>1. Completes(v, t)
    BY <1>1, <1>5 DEF Completes
  <2> QED
    BY <1>1, <1>3, <1>5, <2>1, LoadStoredCarries, SaveStoredCarries, ResultStoredCarries, MergeStoredCarries
<1> QED
  BY <1>2, <1>4, <1>5

-----------------------------------------------------------------------------
(* The specification, for patient authors.                                 *)

LEMMA CarriedAtFirst ==
    ASSUME Init PROVE PatientInv
<1> USE DEF Init
<1>1. edits = 0 /\ copies = 0 /\ Len(history) = 1 /\ DOMAIN history = {1}
      /\ history[1] = [x \in Doc \cup Setting |-> 0]
  OBVIOUS
<1>2. HistoryCarried
  <2>1. Written(history[1], 0, 0)
    BY <1>1 DEF Written, Documents
  <2> QED
    BY <1>1, <2>1 DEF HistoryCarried
<1>3. Counters
  BY <1>1, SyncAssumption DEF Counters, Revision, Edit, SyncAssumption
<1>4. LateCarried /\ RecordsCarried
  BY DEF LateCarried, RecordsCarried
<1>5. \A t \in Tab : TabCarried(t)
  BY DEF TabCarried, Saved, Idle
<1> QED
  BY <1>2, <1>3, <1>4, <1>5 DEF PatientInv

LEMMA PatientNext ==
    ASSUME NullNone, CopiesAreNew, Patient, KnowledgeInv, PatientInv, Next
    PROVE  KnowledgeInv' /\ PatientInv'
<1>1. \A t \in Tab : ~LoadFails(t) /\ ~Online(t) /\ ~SaveNow(t) /\ ~Fails(t)
  BY DEF Patient, LoadFails, Online, SaveNow, Fails, Fault
<1>2. KnowledgeInv'
  BY <1>1, NextKeeps
<1>3. PatientInv'
  BY <1>1, <1>2, OpenCarries, FetchCarries, LoadedCarries, WriteCarries, ToggleCarries, DebouncedCarries,
     StartPushCarries, ServeCarries, SavedAnswerCarries, ConflictAnswerCarries, CloseCarries,
     StoredCarries, LateCarries
  DEF Next, Protocol
<1> QED
  BY <1>2, <1>3

LEMMA PatientStutter ==
    ASSUME PatientInv, UNCHANGED vars PROVE PatientInv'
<1> USE DEF vars, serverVars, cacheVars, screenVars, fieldVars, queueVars, countVars
<1>1. Counters' /\ HistoryCarried'
  BY DEF PatientInv, Counters, HistoryCarried, Revision
<1>2. LateCarried' /\ RecordsCarried'
  BY DEF PatientInv, LateCarried, RecordsCarried, Carried
<1>3. \A t \in Tab : TabCarried(t)'
  BY DEF PatientInv, TabCarried, Carried, Waiting, Saved, Idle
<1> QED
  BY <1>1, <1>2, <1>3 DEF PatientInv

LEMMA PatientInvariant ==
    ASSUME NullNone, CopiesAreNew, Patient PROVE Spec => [](KnowledgeInv /\ PatientInv)
<1>1. Init => KnowledgeInv /\ PatientInv
  BY KnowledgeAtFirst, CarriedAtFirst
<1>2. (KnowledgeInv /\ PatientInv) /\ [Next]_vars => (KnowledgeInv /\ PatientInv)'
  BY PatientNext, PatientStutter, StutterKeeps
<1> QED
  BY <1>1, <1>2, PTL DEF Spec

(* What is carried from revision to revision is not overwritten.           *)
LEMMA CarriedIsNotOverwritten ==
    ASSUME KnowledgeInv, PatientInv PROVE WritingInv
<1>1. IsSequence(history) /\ DOMAIN history = 1 .. Len(history) /\ Len(history) \in Nat
  BY DEF KnowledgeInv, Families, IsSequence
<1>2. ASSUME NEW n \in 1 .. Len(history) - 1 PROVE Over(history[n + 1], history[n], seen)
  <2>1. n \in DOMAIN history /\ n + 1 \in DOMAIN history
    BY <1>1
  <2> QED
    BY <2>1 DEF PatientInv, HistoryCarried
<1>3. NothingOverwritten
  <2> SUFFICES ASSUME NEW n \in 1 .. Len(history) - 1, NEW e \in Words(history[n]) \ {0}
               PROVE  Covers(history[n + 1], e)
    BY DEF NothingOverwritten
  <2>1. PICK d \in Documents(history[n]) : e = history[n][d]
    BY DEF Words
  <2>2. d \in DOMAIN history[n + 1] /\ (history[n + 1][d] = e \/ e \in seen[history[n + 1][d]])
    BY <1>2, <2>1 DEF Over
  <2>3. history[n + 1][d] \in Words(history[n + 1])
    BY <2>1, <2>2 DEF Words, Documents
  <2> QED
    BY <2>2, <2>3 DEF Covers
<1>4. DocumentsStay
  BY <1>2 DEF DocumentsStay, Over
<1>5. TypeOK
  <2>1. \A t \in Tab : push[t] # None =>
            push[t].at \in {"sent", "saved", "conflict", "store"} /\ push[t].tries \in 1 .. Attempts
    BY DEF KnowledgeInv, PushKnows, IsPush, PatientInv, TabCarried
  <2> QED
    BY <2>1 DEF TypeOK, PatientInv, Counters
<1> QED
  BY <1>3, <1>4, <1>5 DEF WritingInv

(* No last writer wins: with authors who wait for "Saved" before they go   *)
(* on, however many tabs there are on however many devices, whichever of   *)
(* them crash and however their saves, refusals, merges and retries in     *)
(* push (233-283) interleave, what the server holds at a revision is at    *)
(* the next still there or replaced by writing made over it, and no        *)
(* document that says something is gone.                                   *)
THEOREM NoLastWriterWins ==
    ASSUME NullNone, CopiesAreNew, Patient PROVE Spec => []WritingInv
<1>1. KnowledgeInv /\ PatientInv => WritingInv
  BY CarriedIsNotOverwritten
<1> QED
  BY <1>1, PatientInvariant, PTL

(* To the same authors "Saved" on an idle screen (979-984) means that the  *)
(* screen shows what the server was sent.                                  *)
THEOREM SavedIsSaved ==
    ASSUME NullNone, CopiesAreNew, Patient PROVE Spec => []SavedMeansSaved
<1>1. PatientInv => SavedMeansSaved
  BY DEF PatientInv, TabCarried, SavedMeansSaved
<1> QED
  BY <1>1, PatientInvariant, PTL
-----------------------------------------------------------------------------
(* No needless copy: patient authors with a device each, whose tabs do not *)
(* close.  A tab that resumed the record another tab or its own earlier    *)
(* self had pending would push the same words twice, and the second push   *)
(* would be refused and keep them as a copy of themselves.                 *)

Undisturbed == Environment = {}
OneTabEach == \A t, u \in Tab : DeviceOf[t] = DeviceOf[u] => t = u

(* The words that some revision held.                                      *)
Public(h) == UNION {Words(h[n]) : n \in DOMAIN h}

(* Every copy in ws is beside the document it was made from, and says what *)
(* that one neither says nor was written over.                             *)
Kept(ws, sn) ==
    \A x \in Documents(ws) \ Doc :
        /\ Original(x) \in Documents(ws)
        /\ ws[x] # ws[Original(x)] /\ ws[x] \notin sn[ws[Original(x)]]

(* What ws changes of bs no revision has held, and was written over what   *)
(* bs says.                                                                *)
Drafted(ws, bs, sn, pub) ==
    /\ DOMAIN bs \subseteq DOMAIN ws
    /\ \A d \in Documents(ws) : Changed(ws, bs, d) =>
          /\ ws[d] \notin pub
          /\ d \in DOMAIN bs => sn[ws[d]] = sn[bs[d]] \cup {bs[d]}

Changes(ws, bs) == {ws[d] : d \in {x \in Documents(ws) : Changed(ws, bs, x)}}

(* What a tab has that the server has not: what its push is for, until it  *)
(* is accepted, and otherwise what is on the screen.                       *)
Draft(t) == IF push[t] = None THEN view[t] ELSE push[t].candidate
Drafting(t) == phase[t] = "open" /\ (push[t] = None \/ push[t].at # "saved")
Mine(t) == IF Drafting(t) THEN Changes(Draft(t), base[t]) ELSE {}

(* A tab finds no record when it loads: its device was never used.         *)
Unused(t) ==
    /\ phase[t] \in {"closed", "load"} => cache[DeviceOf[t]] = None /\ writes[DeviceOf[t]] = << >>
    /\ phase[t] = "load" => fetched[t].cached = None

TabKeeps(t) ==
    /\ Drafting(t) => Kept(Draft(t), seen) /\ Drafted(Draft(t), base[t], seen, Public(history))
    /\ push[t] # None /\ push[t].at \in {"sent", "conflict"} => push[t].base = base[t]
    /\ push[t] # None /\ push[t].at = "conflict" => DOMAIN push[t].base \subseteq DOMAIN push[t].answer.ws
    /\ Unused(t)

RevisionsKeep ==
    \A n \in DOMAIN history : Kept(history[n], seen) /\ DOMAIN history[n] \subseteq DOMAIN Latest

(* The inductive invariant of NoNeedlessCopy.                              *)
KeepInv ==
    /\ late = {} /\ RevisionsKeep
    /\ \A e \in Edit : seen[e] \subseteq Public(history)
    /\ \A t \in Tab : TabKeeps(t)
    /\ \A t \in Tab : \A u \in Tab : t # u => Mine(t) \cap Mine(u) = {}

(* A merge keeps what the device wrote, beside what the server holds and   *)
(* never beside itself.                                                    *)
LEMMA MergeKeeps ==
    ASSUME CopiesAreNew, NEW e \in Nat, NEW c \in Nat, NEW sn, NEW pub,
           NEW server, NEW local, NEW bs,
           Written(local, e, c), Written(server, e, c), Written(bs, e, c),
           Kept(server, sn), Kept(local, sn), Drafted(local, bs, sn, pub),
           Words(server) \subseteq pub, \A v \in Words(server) : sn[v] \subseteq pub,
           DOMAIN bs \subseteq DOMAIN server
    PROVE  LET merged == Reconciled(server, local, bs, c + 1)
           IN  /\ Kept(merged, sn) /\ Drafted(merged, server, sn, pub)
               /\ Changes(merged, server) \subseteq Changes(local, bs)
<1> DEFINE copied == Copies(server, local, bs, c + 1)
           merged == Reconciled(server, local, bs, c + 1)
           wins == LocalWins(server, local, bs)
           clashes == Conflicts(server, local, bs) \ Setting
<1>1. /\ DOMAIN merged = (DOMAIN server \cup wins) \cup DOMAIN copied
      /\ \A x \in DOMAIN merged : x \notin DOMAIN copied => merged[x] = IF x \in wins THEN local[x] ELSE server[x]
      /\ \A x \in DOMAIN copied : merged[x] = copied[x]
  <2> DEFINE kept == ThreeWay(server, local, bs)
  <2>1. LocalDrops(server, local, bs) = {}
    BY DEF LocalDrops, Drafted
  <2>2. DOMAIN kept = DOMAIN server \cup wins /\ \A x \in DOMAIN kept : kept[x] = IF x \in wins THEN local[x] ELSE server[x]
    BY <2>1 DEF ThreeWay
  <2>3. merged = With(kept, copied)
    BY DEF Reconciled
  <2> HIDE DEF kept, merged, wins, copied
  <2> QED BY <2>2, <2>3 DEF With
<1>2. /\ DOMAIN copied = {Fresh(d, c + 1) : d \in clashes}
      /\ \A y \in DOMAIN copied : copied[y] = local[Original(y)]
  BY DEF Copies
<1>3. /\ \A x \in Documents(local) : local[x] \in 0 .. e /\ local[x] # Absent
      /\ \A x \in Documents(server) : server[x] \in 0 .. e /\ server[x] # Absent /\ server[x] \in pub
                                      /\ sn[server[x]] \subseteq pub
      /\ \A x \in Documents(bs) : bs[x] # Absent
  BY SyncAssumption DEF Written, Words, SyncAssumption
<1>4. ASSUME NEW d \in clashes
      PROVE  /\ d \in Documents(local) /\ d \in Documents(server) /\ d \notin wins
             /\ Changed(local, bs, d)
  <2>1. d \in DOMAIN local /\ d \notin Setting /\ Changed(local, bs, d) /\ Changed(server, bs, d)
    BY DEF Conflicts
  <2>2. d \in DOMAIN server
    BY <2>1 DEF Changed, At
  <2> QED BY <2>1, <2>2 DEF Documents, LocalWins
<1>5. ASSUME NEW x \in wins, x \notin Setting
      PROVE  /\ x \in Documents(local) /\ Changed(local, bs, x)
             /\ x \in DOMAIN server => x \in DOMAIN bs /\ bs[x] = server[x]
  <2>1. x \in DOMAIN local /\ Changed(local, bs, x) /\ ~Changed(server, bs, x)
    BY DEF LocalWins
  <2> QED BY <1>3, <1>5, <2>1 DEF Changed, At, Documents
<1>6. ASSUME NEW x \in Documents(local), x \notin wins
      PROVE  x \in Documents(server)
  <2>1. CASE Changed(local, bs, x)
    BY <1>4, <1>6, <2>1 DEF LocalWins, Conflicts, Documents
  <2>2. CASE ~Changed(local, bs, x)
    BY <1>3, <2>2 DEF Changed, At, Documents
  <2> QED BY <2>1, <2>2
<1>7. ASSUME NEW y \in DOMAIN copied
      PROVE  /\ y \notin DOMAIN server /\ y \notin DOMAIN local /\ y \notin Doc \cup Setting
             /\ Original(y) \in clashes /\ merged[y] = local[Original(y)]
  <2>1. PICK d \in clashes : y = Fresh(d, c + 1)
    BY <1>2
  <2>2. Original(y) = d /\ y[2] = c + 1 /\ y \notin Doc \cup Setting
    BY <2>1 DEF Original, Fresh, CopiesAreNew
  <2> QED BY <1>1, <1>2, <2>1, <2>2 DEF Written
<1> HIDE DEF copied, merged, wins, clashes
<1>8. \A x \in Documents(local) : Changed(local, bs, x) => local[x] \notin pub
  BY DEF Drafted
<1>9. \A x \in Documents(server) : x \notin DOMAIN copied /\ x \in Documents(merged)
  BY <1>1, <1>7 DEF Documents
<1>10. \A x \in Documents(local) : x \notin DOMAIN copied /\ x \in Documents(merged)
  BY <1>1, <1>6, <1>7 DEF Documents
<1>11. ASSUME NEW x \in Documents(merged) \ Doc
       PROVE  /\ Original(x) \in Documents(merged)
              /\ merged[x] # merged[Original(x)] /\ merged[x] \notin sn[merged[Original(x)]]
  <2> DEFINE o == Original(x)
  <2>1. CASE x \in DOMAIN copied
    <3>1. /\ merged[x] = local[o] /\ local[o] \notin pub
          /\ o \in Documents(server) /\ o \notin wins
      BY <1>4, <1>7, <1>8, <2>1
    <3>2. o \in Documents(merged) /\ merged[o] = server[o]
      BY <1>1, <1>9, <3>1 DEF Documents
    <3> QED BY <1>3, <3>1, <3>2
  <2>2. CASE x \notin DOMAIN copied /\ x \in wins
    <3>1. /\ merged[x] = local[x] /\ local[x] \notin pub /\ x \in Documents(local) \ Doc
      BY <1>1, <1>5, <1>8, <2>2 DEF Documents
    <3>2. o \in Documents(local) /\ local[x] # local[o] /\ local[x] \notin sn[local[o]]
      BY <3>1 DEF Kept
    <3>3. o \in Documents(merged) /\ o \notin DOMAIN copied
      BY <1>10, <3>2
    <3>4. CASE o \in wins
      BY <1>1, <3>1, <3>2, <3>3, <3>4 DEF Documents
    <3>5. CASE o \notin wins
      <4>1. merged[o] = server[o] /\ o \in Documents(server)
        BY <1>1, <1>6, <3>2, <3>3, <3>5 DEF Documents
      <4> QED BY <1>3, <3>1, <3>3, <4>1
    <3> QED BY <3>4, <3>5
  <2>3. CASE x \notin DOMAIN copied /\ x \notin wins
    <3>1. merged[x] = server[x] /\ x \in Documents(server) \ Doc
      BY <1>1, <2>3 DEF Documents
    <3>2. o \in Documents(server) /\ server[x] # server[o] /\ server[x] \notin sn[server[o]]
      BY <3>1 DEF Kept
    <3>3. o \in Documents(merged) /\ o \notin DOMAIN copied
      BY <1>9, <3>2
    <3>4. CASE o \notin wins
      BY <1>1, <3>1, <3>2, <3>3, <3>4 DEF Documents
    <3>5. CASE o \in wins
      <4>1. /\ merged[o] = local[o] /\ o \in Documents(local) /\ Changed(local, bs, o)
            /\ o \in DOMAIN bs /\ bs[o] = server[o]
        BY <1>1, <1>5, <3>2, <3>3, <3>5 DEF Documents
      <4>2. local[o] \notin pub /\ sn[local[o]] = sn[server[o]] \cup {server[o]}
        BY <4>1 DEF Drafted
      <4>3. server[x] \in pub
        BY <1>3, <3>1
      <4> QED BY <3>1, <3>2, <3>3, <4>1, <4>2, <4>3
    <3> QED BY <3>4, <3>5
  <2> QED BY <2>1, <2>2, <2>3
<1>12. ASSUME NEW d \in Documents(merged), Changed(merged, server, d)
       PROVE  /\ merged[d] \notin pub /\ merged[d] \in Changes(local, bs)
              /\ d \in DOMAIN server => sn[merged[d]] = sn[server[d]] \cup {server[d]}
  <2>1. CASE d \in DOMAIN copied
    BY <1>4, <1>7, <1>8, <2>1 DEF Changes
  <2>2. CASE d \notin DOMAIN copied /\ d \in wins
    <3>1. /\ merged[d] = local[d] /\ d \in Documents(local) /\ Changed(local, bs, d)
          /\ d \in DOMAIN server => d \in DOMAIN bs /\ bs[d] = server[d]
      BY <1>1, <1>5, <2>2 DEF Documents
    <3> QED BY <3>1 DEF Drafted, Changes
  <2>3. CASE d \notin DOMAIN copied /\ d \notin wins
    <3>1. d \in DOMAIN server /\ merged[d] = server[d] /\ d \in DOMAIN merged
      BY <1>1, <2>3 DEF Documents
    <3> QED BY <1>12, <3>1 DEF Changed, At
  <2> QED BY <2>1, <2>2, <2>3
<1>13. Kept(merged, sn)
  BY <1>11 DEF Kept
<1>14. Drafted(merged, server, sn, pub)
  BY <1>1, <1>12 DEF Drafted
<1>15. Changes(merged, server) \subseteq Changes(local, bs)
  <2> SUFFICES ASSUME NEW z \in Changes(merged, server) PROVE z \in Changes(local, bs)
    OBVIOUS
  <2>1. PICK d \in Documents(merged) : Changed(merged, server, d) /\ z = merged[d]
    BY DEF Changes
  <2> QED BY <1>12, <2>1
<1> QED BY <1>13, <1>14, <1>15 DEF merged

(* Nothing that is known of words or copies is undone by later edits.      *)
LEMMA KeptStays ==
    ASSUME NEW ws, NEW e, NEW c, NEW sn, NEW sn2, \A x \in 0 .. e : sn2[x] = sn[x],
           Written(ws, e, c), Kept(ws, sn)
    PROVE  Kept(ws, sn2)
<1>1. ASSUME NEW x \in Documents(ws) \ Doc
      PROVE  /\ Original(x) \in Documents(ws)
             /\ ws[x] # ws[Original(x)] /\ ws[x] \notin sn2[ws[Original(x)]]
  <2>1. /\ Original(x) \in Documents(ws)
        /\ ws[x] # ws[Original(x)] /\ ws[x] \notin sn[ws[Original(x)]]
    BY DEF Kept
  <2>2. ws[Original(x)] \in 0 .. e
    BY <2>1 DEF Written
  <2> QED BY <2>1, <2>2
<1> QED BY <1>1 DEF Kept

LEMMA DraftedStays ==
    ASSUME NEW ws, NEW bs, NEW e, NEW c, NEW sn, NEW sn2, \A x \in 0 .. e : sn2[x] = sn[x],
           Written(ws, e, c), Written(bs, e, c), NEW pub, NEW pub2,
           Drafted(ws, bs, sn, pub), pub2 \cap Changes(ws, bs) = {}
    PROVE  Drafted(ws, bs, sn2, pub2)
<1>1. ASSUME NEW d \in Documents(ws), Changed(ws, bs, d)
      PROVE  /\ ws[d] \notin pub2
             /\ d \in DOMAIN bs => sn2[ws[d]] = sn2[bs[d]] \cup {bs[d]}
  <2>1. d \in DOMAIN bs => sn[ws[d]] = sn[bs[d]] \cup {bs[d]}
    BY <1>1 DEF Drafted
  <2>2. ws[d] \in 0 .. e /\ (d \in DOMAIN bs => bs[d] \in 0 .. e)
    BY DEF Written, Documents
  <2>3. ws[d] \in Changes(ws, bs)
    BY <1>1 DEF Changes
  <2> QED BY <2>1, <2>2, <2>3
<1> QED BY <1>1 DEF Drafted

(* A revision drafts nothing.                                              *)
LEMMA NothingDrafted ==
    ASSUME NEW ws, NEW sn, NEW pub PROVE Drafted(ws, ws, sn, pub) /\ Changes(ws, ws) = {}
BY DEF Drafted, Changes, Changed

LEMMA KnownKeeps ==
    ASSUME KnowledgeInv, PatientInv, KeepInv, NEW ws, NEW r, Known(ws, r, history)
    PROVE  /\ Kept(ws, seen) /\ Written(ws, edits, copies) /\ Words(ws) \subseteq Public(history)
           /\ DOMAIN ws \subseteq DOMAIN Latest
           /\ \A v \in Words(ws) : v \in Edit /\ seen[v] \subseteq Public(history)
<1>1. r + 1 \in DOMAIN history /\ ws = history[r + 1]
  BY DEF Known, KnowledgeInv, Families, IsSequence
<1>2. Written(ws, edits, copies)
  BY <1>1 DEF PatientInv, HistoryCarried
<1>3. \A v \in Words(ws) : v \in Edit
  <2>1. edits \in Nat /\ MaxEdits \in Nat /\ edits <= MaxEdits
    BY SyncAssumption DEF PatientInv, Counters, Edit, SyncAssumption
  <2> QED BY <1>2, <2>1 DEF Written, Words, Edit
<1>4. Words(ws) \subseteq Public(history)
  BY <1>1 DEF Public
<1> QED BY <1>1, <1>2, <1>3, <1>4 DEF KeepInv, RevisionsKeep

LEMMA DraftWritten ==
    ASSUME KnowledgeInv, PatientInv, NEW t \in Tab, Drafting(t)
    PROVE  /\ Written(Draft(t), edits, copies) /\ Written(base[t], edits, copies)
           /\ \A x \in Mine(t) : x \in 0 .. edits
<1>1. phase[t] = "open"
  BY DEF Drafting
<1>2. Written(Draft(t), edits, copies)
  BY <1>1 DEF Draft, PatientInv, TabCarried, Carried, Carries
<1>3. Written(base[t], edits, copies)
  <2>1. Known(base[t], rev[t], history)
    BY <1>1 DEF KnowledgeInv, TabKnows
  <2>2. rev[t] + 1 \in DOMAIN history /\ base[t] = history[rev[t] + 1]
    BY <2>1 DEF Known, KnowledgeInv, Families, IsSequence
  <2> QED BY <2>2 DEF PatientInv, HistoryCarried
<1> QED BY <1>2, <1>3 DEF Mine, Changes, Written

LEMMA PublicGrows ==
    ASSUME KnowledgeInv, KnowledgeInv', Extends(history', history)
    PROVE  Public(history) \subseteq Public(history')
<1>1. DOMAIN history = 1 .. Len(history) /\ DOMAIN history' = 1 .. Len(history')
  BY DEF KnowledgeInv, Families, IsSequence
<1>2. \A n \in DOMAIN history : n \in DOMAIN history' /\ history'[n] = history[n]
  BY <1>1 DEF Extends
<1> QED BY <1>2 DEF Public

(* Only the device of the tab that steps is used.                          *)
Elsewhere(t) == \A v \in Device \ {DeviceOf[t]} : cache'[v] = cache[v] /\ writes'[v] = writes[v]

(* A step of t publishes no words but its own, and takes up none but new.  *)
LEMMA KeepStep ==
    ASSUME KnowledgeInv, PatientInv, KeepInv, OneTabEach, NEW t \in Tab, StepOf(t), Grows, Elsewhere(t),
           late' = {}, RevisionsKeep', \A e \in Edit : seen'[e] \subseteq Public(history'),
           Public(history') \subseteq Public(history) \cup Mine(t),
           TabKeeps(t)', \A x \in Mine(t)' : x \in Mine(t) \/ x \notin 0 .. edits
    PROVE  KeepInv'
<1>1. ASSUME NEW u \in Tab \ {t}
      PROVE  /\ Drafting(u)' <=> Drafting(u)
             /\ Drafting(u) => Draft(u)' = Draft(u) /\ base'[u] = base[u]
             /\ Mine(u)' = Mine(u) /\ Mine(u) \cap Mine(t) = {} /\ \A x \in Mine(u) : x \in 0 .. edits
  <2>1. Untouched(u)
    BY DEF StepOf
  <2>2. Mine(u) \cap Mine(t) = {}
    BY DEF KeepInv
  <2>3. \A x \in Mine(u) : x \in 0 .. edits
    BY DraftWritten DEF Mine
  <2> QED BY <2>1, <2>2, <2>3 DEF Untouched, Drafting, Draft, Mine
<1>2. ASSUME NEW u \in Tab \ {t} PROVE TabKeeps(u)'
  <2>1. Untouched(u) /\ TabKeeps(u)
    BY DEF StepOf, KeepInv
  <2>2. ASSUME Drafting(u)
        PROVE  Kept(Draft(u), seen') /\ Drafted(Draft(u), base[u], seen', Public(history'))
    <3>1. /\ Written(Draft(u), edits, copies) /\ Written(base[u], edits, copies)
          /\ Kept(Draft(u), seen) /\ Drafted(Draft(u), base[u], seen, Public(history))
      BY <2>1, <2>2, DraftWritten DEF TabKeeps
    <3>2. Mine(u) = Changes(Draft(u), base[u]) /\ Mine(u) \cap Public(history) = {}
      BY <2>2, <3>1 DEF Mine, Changes, Drafted
    <3>3. Public(history') \cap Changes(Draft(u), base[u]) = {}
      BY <1>1, <3>2
    <3>4. \A x \in 0 .. edits : seen'[x] = seen[x]
      BY DEF Grows
    <3> QED BY <3>1, <3>3, <3>4, KeptStays, DraftedStays
  <2>3. cache'[DeviceOf[u]] = cache[DeviceOf[u]] /\ writes'[DeviceOf[u]] = writes[DeviceOf[u]]
    BY SyncAssumption DEF SyncAssumption, OneTabEach, Elsewhere
  <2>4. Unused(u)'
    BY <2>1, <2>3 DEF Untouched, TabKeeps, Unused
  <2>5. /\ push'[u] # None /\ push'[u].at \in {"sent", "conflict"} => push'[u].base = base'[u]
        /\ push'[u] # None /\ push'[u].at = "conflict" => DOMAIN push'[u].base \subseteq DOMAIN push'[u].answer.ws
    BY <2>1 DEF Untouched, TabKeeps
  <2> QED BY <1>1, <2>2, <2>4, <2>5 DEF TabKeeps
<1>3. ASSUME NEW u \in Tab \ {t} PROVE Mine(t)' \cap Mine(u)' = {}
  BY <1>1
<1>4. \A u \in Tab : \A w \in Tab : u # w => Mine(u)' \cap Mine(w)' = {}
  <2> SUFFICES ASSUME NEW u \in Tab, NEW w \in Tab, u # w PROVE Mine(u)' \cap Mine(w)' = {}
    OBVIOUS
  <2>1. CASE u = t
    BY <1>3, <2>1
  <2>2. CASE w = t
    BY <1>3, <2>2
  <2>3. CASE u # t /\ w # t
    BY <1>1, <2>3 DEF KeepInv
  <2> QED BY <2>1, <2>2, <2>3
<1> QED BY <1>2, <1>4 DEF KeepInv

(* A step that publishes nothing and edits nothing.                        *)
LEMMA KeepQuiet ==
    ASSUME KnowledgeInv, PatientInv, KeepInv, OneTabEach, NEW t \in Tab, StepOf(t), Grows, Elsewhere(t),
           UNCHANGED <<history, late, seen>>, TabKeeps(t)', Mine(t)' \subseteq Mine(t)
    PROVE  KeepInv'
<1>1. late' = {} /\ RevisionsKeep' /\ \A e \in Edit : seen'[e] \subseteq Public(history')
  BY DEF KeepInv, RevisionsKeep, Latest
<1> QED BY <1>1, KeepStep

(* A step after which the tab has what it had.                             *)
SameDraft(t) ==
    /\ Drafting(t) /\ Drafting(t)' /\ Draft(t)' = Draft(t) /\ base'[t] = base[t]

LEMMA KeepDraft ==
    ASSUME KnowledgeInv, PatientInv, KeepInv, OneTabEach, NEW t \in Tab, StepOf(t), Grows, Elsewhere(t),
           UNCHANGED <<history, late, seen>>, SameDraft(t), phase'[t] = "open",
           push'[t] # None /\ push'[t].at \in {"sent", "conflict"} => push'[t].base = base'[t],
           push'[t] # None /\ push'[t].at = "conflict" => DOMAIN push'[t].base \subseteq DOMAIN push'[t].answer.ws
    PROVE  KeepInv'
<1>1. Kept(Draft(t), seen) /\ Drafted(Draft(t), base[t], seen, Public(history))
  BY DEF SameDraft, KeepInv, TabKeeps
<1>2. Unused(t)'
  BY DEF Unused
<1>3. TabKeeps(t)'
  BY <1>1, <1>2 DEF SameDraft, TabKeeps
<1>4. Mine(t)' = Mine(t)
  BY DEF SameDraft, Mine
<1> QED BY <1>3, <1>4, KeepQuiet

LEMMA IssuedHere ==
    ASSUME KnowledgeInv, NEW t \in Tab, NEW record, NEW then, cache' = cache,
           writes' = Issue(t, writes, record, then)
    PROVE  Elsewhere(t)
BY DEF KnowledgeInv, Families, Issue, Elsewhere

(* A tab that shows nothing yet has nothing of its own.                    *)
LEMMA KeepLoading ==
    ASSUME KnowledgeInv, PatientInv, KeepInv, OneTabEach, NEW t \in Tab, StepOf(t), Elsewhere(t),
           UNCHANGED <<history, late, edits, seen, copies>>,
           phase'[t] # "open", push'[t] = None, Unused(t)'
    PROVE  KeepInv'
<1>1. Grows
  BY CountersGrow
<1>2. ~Drafting(t)' /\ Mine(t)' = {}
  BY DEF Drafting, Mine
<1>3. TabKeeps(t)'
  BY <1>2 DEF TabKeeps
<1> QED BY <1>1, <1>2, <1>3, KeepQuiet

LEMMA OpenStays ==
    ASSUME KnowledgeInv, PatientInv, KeepInv, OneTabEach, NEW t \in Tab, Open(t) PROVE KeepInv'
<1>1. /\ phase[t] = "closed"
      /\ phase' = [phase EXCEPT ![t] = "load"]
      /\ fetched' = [fetched EXCEPT ![t] = [cached |-> cache[DeviceOf[t]], remote |-> None]]
      /\ UNCHANGED <<history, late, cache, writes, view, timer, status, base, rev, saves, push,
                     edits, seen, copies>>
  BY DEF Open, serverVars, cacheVars, screenVars, fieldVars, queueVars, countVars
<1>2. StepOf(t)
  BY <1>1, ExtendsItself DEF KnowledgeInv, Families, StepOf, Untouched
<1>3. phase'[t] = "load" /\ fetched'[t].cached = cache[DeviceOf[t]] /\ push'[t] = None
  BY <1>1, LoadsAlone DEF KnowledgeInv, Families
<1>4. Unused(t)'
  BY <1>1, <1>3 DEF KeepInv, TabKeeps, Unused
<1>5. Elsewhere(t)
  BY <1>1 DEF Elsewhere
<1> QED BY <1>1, <1>2, <1>3, <1>4, <1>5, KeepLoading

LEMMA FetchStays ==
    ASSUME KnowledgeInv, PatientInv, KeepInv, OneTabEach, NEW t \in Tab, Fetch(t) PROVE KeepInv'
<1> DEFINE remote == [ws |-> Latest, rev |-> Revision]
<1>1. /\ phase[t] = "load"
      /\ fetched' = [fetched EXCEPT ![t].remote = remote]
      /\ UNCHANGED <<history, late, cache, writes, phase, view, timer, status, base, rev, saves, push,
                     edits, seen, copies>>
  BY DEF Fetch, serverVars, cacheVars, screenVars, fieldVars, queueVars, countVars
<1> HIDE DEF remote
<1>2. StepOf(t)
  BY <1>1, ExtendsItself DEF KnowledgeInv, Families, StepOf, Untouched
<1>3. phase'[t] = "load" /\ push'[t] = None
  BY <1>1, LoadsAlone
<1>4. fetched'[t].cached = fetched[t].cached
  BY <1>1 DEF KnowledgeInv, Families, TabKnows
<1>5. Unused(t)'
  BY <1>1, <1>3, <1>4 DEF KeepInv, TabKeeps, Unused
<1>6. Elsewhere(t)
  BY <1>1 DEF Elsewhere
<1> QED BY <1>1, <1>2, <1>3, <1>5, <1>6, KeepLoading

LEMMA LoadedStays ==
    ASSUME KnowledgeInv, PatientInv, KeepInv, OneTabEach, NEW t \in Tab, Loaded(t) PROVE KeepInv'
<1> DEFINE remote == fetched[t].remote
           record == Record(remote.ws, remote.ws, remote.rev, FALSE)
<1>1. phase[t] = "load" /\ ~Resumes(t)
  BY DEF Loaded, KeepInv, TabKeeps, Unused, Resumes
<1>2. /\ UNCHANGED <<history, late, cache, saves, push, edits, seen, copies>>
      /\ base' = [base EXCEPT ![t] = remote.ws] /\ rev' = [rev EXCEPT ![t] = remote.rev]
      /\ phase' = [phase EXCEPT ![t] = "store"] /\ view' = view /\ fetched' = fetched
      /\ writes' = Issue(t, writes, record, "load")
  BY <1>1 DEF Loaded, Adopts, serverVars, queueVars, countVars, screenVars
<1> HIDE DEF record, remote
<1>3. StepOf(t)
  BY <1>2, ExtendsItself DEF KnowledgeInv, Families, StepOf, Untouched
<1>4. phase'[t] = "store" /\ push'[t] = None
  BY <1>1, <1>2, LoadsAlone DEF KnowledgeInv, Families
<1>5. Elsewhere(t)
  BY <1>2, IssuedHere
<1>6. Unused(t)'
  BY <1>4 DEF Unused
<1> QED BY <1>2, <1>3, <1>4, <1>5, <1>6, KeepLoading

(* New words are nobody else's, and written over what a revision says.     *)
LEMMA WriteStays ==
    ASSUME Patient, KnowledgeInv, PatientInv, KeepInv, OneTabEach,
           NEW t \in Tab, NEW d \in Documents(view[t]), Write(t, d)
    PROVE  KeepInv'
<1> DEFINE ws == view[t]
           e == edits + 1
           new == [view[t] EXCEPT ![d] = edits + 1]
<1>1. /\ Saved(t) /\ phase[t] = "open" /\ push[t] = None /\ edits < MaxEdits /\ edits' = edits + 1
      /\ view' = [view EXCEPT ![t] = new]
      /\ seen' = [seen EXCEPT ![edits + 1] = seen[ws[d]] \cup {ws[d]}]
      /\ UNCHANGED <<history, late, cache, writes, phase, fetched, base, rev, saves, push, copies>>
  BY PatientSaved DEF Write, Saved, Idle, serverVars, cacheVars, fieldVars, queueVars
<1>2. ws = base[t] /\ Known(ws, rev[t], history)
  BY <1>1 DEF PatientInv, TabCarried, KnowledgeInv, TabKnows
<1>3. /\ Kept(ws, seen) /\ Written(ws, edits, copies) /\ Words(ws) \subseteq Public(history)
      /\ \A v \in Words(ws) : v \in Edit /\ seen[v] \subseteq Public(history)
  BY <1>2, KnownKeeps
<1>4. /\ edits \in Nat /\ copies \in Nat /\ e \in Edit /\ 0 .. edits \subseteq Edit /\ e \notin 0 .. edits
      /\ seen \in [Edit -> SUBSET Edit]
  BY <1>1, SyncAssumption DEF PatientInv, Counters, Edit, SyncAssumption
<1>5. ws[d] \in Words(ws) /\ ws[d] \in 0 .. edits
  BY <1>3 DEF Words, Written
<1>6. /\ \A x \in Edit : x # e => seen'[x] = seen[x]
      /\ \A x \in 0 .. edits : seen'[x] = seen[x]
      /\ seen'[e] = seen[ws[d]] \cup {ws[d]}
  BY <1>1, <1>4
<1>7. \A x \in Public(history) : x \in 0 .. edits
  BY DEF Public, Words, PatientInv, HistoryCarried, Written
<1>8. DOMAIN new = DOMAIN ws /\ new[d] = e /\ \A x \in DOMAIN ws \ {d} : new[x] = ws[x]
  BY DEF Documents
<1>9. view'[t] = new /\ \A u \in Tab \ {t} : view'[u] = view[u]
  BY <1>1 DEF KnowledgeInv, Families
<1>10. Grows
  BY <1>1, <1>4, <1>6 DEF Grows
<1>11. StepOf(t)
  BY <1>1, <1>9, ExtendsItself DEF KnowledgeInv, Families, StepOf, Untouched
<1>12. Elsewhere(t)
  BY <1>1 DEF Elsewhere
<1> HIDE DEF ws, e, new
<1>13. late' = {} /\ Public(history') = Public(history)
  BY <1>1 DEF KeepInv
<1>14. \A x \in Edit : seen'[x] \subseteq Public(history')
  <2>1. seen'[e] \subseteq Public(history)
    BY <1>3, <1>5, <1>6
  <2> QED BY <1>6, <1>13, <2>1 DEF KeepInv
<1>15. RevisionsKeep'
  <2>1. ASSUME NEW n \in DOMAIN history PROVE Kept(history[n], seen')
    <3>1. Kept(history[n], seen) /\ Written(history[n], edits, copies)
      BY DEF KeepInv, RevisionsKeep, PatientInv, HistoryCarried
    <3> QED BY <1>6, <3>1, KeptStays
  <2> QED BY <1>1, <2>1 DEF KeepInv, RevisionsKeep, Latest
<1>16. Kept(new, seen')
  <2> SUFFICES ASSUME NEW x \in Documents(new) \ Doc
               PROVE  /\ Original(x) \in Documents(new)
                      /\ new[x] # new[Original(x)] /\ new[x] \notin seen'[new[Original(x)]]
    BY DEF Kept
  <2> DEFINE o == Original(x)
  <2>1. /\ x \in Documents(ws) /\ o \in Documents(ws) /\ o \in Documents(new)
        /\ ws[x] # ws[o] /\ ws[x] \notin seen[ws[o]]
    BY <1>3, <1>8 DEF Kept, Documents
  <2>2. ws[x] \in 0 .. edits /\ ws[o] \in 0 .. edits /\ ws[o] \in Words(ws)
    BY <1>3, <2>1 DEF Written, Words
  <2>3. CASE x = d
    <3>1. new[x] = e /\ new[o] = ws[o] /\ seen'[ws[o]] = seen[ws[o]]
      BY <1>6, <1>8, <2>1, <2>2, <2>3 DEF Documents
    <3>2. e \notin seen[ws[o]]
      BY <1>3, <1>4, <1>7, <2>2
    <3> QED BY <1>4, <2>1, <2>2, <3>1, <3>2
  <2>4. CASE x # d /\ o = d
    <3>1. new[x] = ws[x] /\ new[o] = e
      BY <1>8, <2>1, <2>4 DEF Documents
    <3> QED BY <1>4, <1>6, <2>1, <2>2, <2>4, <3>1
  <2>5. CASE x # d /\ o # d
    <3>1. new[x] = ws[x] /\ new[o] = ws[o]
      BY <1>8, <2>1, <2>5 DEF Documents
    <3> QED BY <1>6, <2>1, <2>2, <3>1
  <2> QED BY <2>3, <2>4, <2>5
<1>17. ASSUME NEW x \in Documents(new), Changed(new, ws, x) PROVE x = d
  BY <1>8, <1>17 DEF Changed, At, Documents
<1>18. Drafted(new, ws, seen', Public(history))
  <2>1. e \notin Public(history)
    BY <1>4, <1>7
  <2>2. seen'[ws[d]] = seen[ws[d]]
    BY <1>5, <1>6
  <2> QED BY <1>6, <1>8, <1>17, <2>1, <2>2 DEF Drafted
<1>19. /\ Drafting(t)' /\ Draft(t)' = new /\ base'[t] = ws
  BY <1>1, <1>2, <1>9 DEF Drafting, Draft
<1>20. Mine(t)' \subseteq {e}
  BY <1>8, <1>17, <1>19 DEF Mine, Changes
<1>21. TabKeeps(t)'
  BY <1>1, <1>13, <1>16, <1>18, <1>19 DEF TabKeeps, Unused
<1> QED
  BY <1>4, <1>10, <1>11, <1>12, <1>13, <1>14, <1>15, <1>20, <1>21, KeepStep

(* A setting is not writing.                                               *)
LEMMA ToggleStays ==
    ASSUME Patient, KnowledgeInv, PatientInv, KeepInv, OneTabEach,
           NEW t \in Tab, NEW f \in Setting, Toggle(t, f)
    PROVE  KeepInv'
<1> DEFINE ws == view[t]
           new == [view[t] EXCEPT ![f] = 1 - view[t][f]]
<1>1. /\ Saved(t) /\ phase[t] = "open" /\ push[t] = None /\ edits < MaxEdits /\ edits' = edits + 1
      /\ view' = [view EXCEPT ![t] = new]
      /\ UNCHANGED <<history, late, cache, writes, phase, fetched, base, rev, saves, push, copies, seen>>
  BY PatientSaved DEF Toggle, Saved, Idle, serverVars, cacheVars, fieldVars, queueVars
<1>2. DOMAIN new = DOMAIN ws /\ Documents(new) = Documents(ws) /\ \A x \in Documents(ws) : new[x] = ws[x]
  BY DEF Documents
<1>3. view'[t] = new /\ \A u \in Tab \ {t} : view'[u] = view[u]
  BY <1>1 DEF KnowledgeInv, Families
<1>4. Drafting(t) /\ Draft(t) = ws /\ Drafting(t)' /\ Draft(t)' = new /\ base'[t] = base[t]
  BY <1>1, <1>3 DEF Drafting, Draft
<1> HIDE DEF new, ws
<1>5. \A x \in Documents(ws) : Changed(new, base[t], x) <=> Changed(ws, base[t], x)
  BY <1>2 DEF Changed, At, Documents
<1>6. Kept(ws, seen) /\ Drafted(ws, base[t], seen, Public(history))
  BY <1>4 DEF KeepInv, TabKeeps
<1>7. Kept(new, seen)
  BY <1>2, <1>6 DEF Kept
<1>8. Drafted(new, base[t], seen, Public(history)) /\ Changes(new, base[t]) = Changes(ws, base[t])
  BY <1>2, <1>5, <1>6 DEF Drafted, Changes
<1>9. TabKeeps(t)' /\ Mine(t)' = Mine(t)
  BY <1>1, <1>4, <1>7, <1>8 DEF TabKeeps, Mine, Unused
<1>10. Grows
  BY <1>1, SyncAssumption DEF Grows, PatientInv, Counters, Edit, SyncAssumption
<1>11. StepOf(t) /\ Elsewhere(t)
  BY <1>1, <1>3, ExtendsItself DEF KnowledgeInv, Families, StepOf, Untouched, Elsewhere
<1> QED BY <1>1, <1>9, <1>10, <1>11, KeepQuiet

LEMMA DebouncedStays ==
    ASSUME KnowledgeInv, PatientInv, KeepInv, OneTabEach, NEW t \in Tab, Debounced(t) PROVE KeepInv'
<1>1. /\ phase[t] = "open" /\ timer[t] /\ Save(t, TRUE)
      /\ UNCHANGED <<history, late, cache, phase, fetched, view, status, base, rev, edits, seen, copies>>
  BY DEF Debounced, serverVars, fieldVars, countVars, Save, cacheVars
<1>2. saves[t] = << >> /\ push[t] = None
  BY <1>1 DEF PatientInv, TabCarried, Waiting
<1>3. Grows
  BY <1>1, CountersGrow
<1>4. /\ push'[t] = None /\ \A u \in Tab \ {t} : push'[u] = push[u] /\ saves'[u] = saves[u]
      /\ Elsewhere(t)
  <2>1. CASE Unchanged(t)
    BY <1>1, <1>2, <2>1 DEF Save, cacheVars, queueVars, Elsewhere
  <2>2. CASE ~Unchanged(t)
    <3> DEFINE record == PendingRecord(t, view[t])
               queue == Append([i \in DOMAIN saves[t] |-> [saves[t][i] EXCEPT !.newest = FALSE]],
                               [ws |-> view[t], apply |-> TRUE, newest |-> TRUE, cached |-> FALSE])
    <3>1. Uncached(saves[t]) = {}
      BY <1>2 DEF Uncached
    <3>2. /\ saves' = [saves EXCEPT ![t] = queue] /\ push' = [push EXCEPT ![t] = None]
          /\ writes' = Issue(t, writes, record, "save")
      BY <1>2, <2>2, <1>1, <3>1 DEF Save
    <3> HIDE DEF record, queue
    <3> QED BY <1>1, <3>2, IssuedHere DEF KnowledgeInv, Families
  <2> QED BY <2>1, <2>2
<1>5. StepOf(t)
  BY <1>1, <1>4, ExtendsItself DEF KnowledgeInv, Families, StepOf, Untouched
<1>6. SameDraft(t)
  BY <1>1, <1>2, <1>4 DEF SameDraft, Drafting, Draft
<1> QED BY <1>1, <1>3, <1>4, <1>5, <1>6, KeepDraft

(* The push is for what the screen shows.                                  *)
LEMMA StartPushStays ==
    ASSUME NullNone, KnowledgeInv, PatientInv, KeepInv, OneTabEach, NEW t \in Tab, StartPush(t)
    PROVE  KeepInv'
<1> DEFINE save == Head(saves[t])
           p == [ws |-> save.ws, apply |-> save.apply, newest |-> save.newest,
                 candidate |-> save.ws, base |-> Else(base[t], save.ws), rev |-> rev[t],
                 tries |-> 1, at |-> "sent", answer |-> None]
<1>1. /\ push[t] = None /\ saves[t] # << >>
      /\ push' = [push EXCEPT ![t] = p] /\ saves' = [saves EXCEPT ![t] = Tail(saves[t])]
      /\ UNCHANGED <<history, late, cache, writes, phase, fetched, view, timer, status, base, rev,
                     edits, seen, copies>>
  BY DEF StartPush, serverVars, cacheVars, screenVars, fieldVars, countVars
<1>2. /\ Waiting(t) /\ Len(saves[t]) = 1 /\ saves[t][1].ws = view[t]
  BY <1>1 DEF PatientInv, TabCarried, Waiting
<1>3. save = saves[t][1]
  BY <1>1, TailIsSequence DEF KnowledgeInv, TabKnows
<1>4. Else(base[t], save.ws) = base[t]
  BY <1>2, BaseIsThere DEF Else, Waiting
<1>5. p.candidate = view[t] /\ p.base = base[t] /\ p.at = "sent" /\ IsFunction(p)
  BY <1>2, <1>3, <1>4 DEF IsFunction
<1> HIDE DEF p
<1>6. push'[t] = p /\ p # None
  BY <1>1, <1>5 DEF KnowledgeInv, Families, NullNone, IsFunction
<1>7. Grows
  BY <1>1, CountersGrow
<1>8. StepOf(t)
  BY <1>1, ExtendsItself DEF KnowledgeInv, Families, StepOf, Untouched
<1>9. Elsewhere(t) /\ phase[t] = "open"
  BY <1>1, <1>2 DEF Elsewhere, Waiting
<1>10. SameDraft(t)
  BY <1>1, <1>5, <1>6, <1>9 DEF SameDraft, Drafting, Draft
<1> QED BY <1>1, <1>5, <1>6, <1>7, <1>8, <1>9, <1>10, KeepDraft

(* What the server takes in is its last revision and the tab's own words.  *)
LEMMA ServeStays ==
    ASSUME NullNone, KnowledgeInv, KnowledgeInv', PatientInv, KeepInv, OneTabEach, NEW t \in Tab, Serve(t)
    PROVE  KeepInv'
<1> DEFINE p == push[t]
           at == IF p.rev = Revision THEN "saved" ELSE "conflict"
           answer == IF p.rev = Revision THEN [rev |-> Revision + 1, ws |-> p.candidate]
                                         ELSE [rev |-> Revision, ws |-> Latest]
           p2 == Answered(p, at, answer)
<1>1. /\ p # None /\ p.at = "sent" /\ push' = [push EXCEPT ![t] = p2]
      /\ \/ p.rev = Revision /\ history' = Append(history, p.candidate)
         \/ p.rev # Revision /\ history' = history
      /\ UNCHANGED <<late, cache, writes, phase, fetched, view, timer, status, base, rev, saves,
                     edits, seen, copies>>
  BY DEF Serve, Answered, cacheVars, screenVars, fieldVars, countVars
<1>2. IsRequest(p, history) /\ Known(p.base, p.rev, history) /\ p.base = base[t] /\ phase[t] = "open"
  BY <1>1 DEF KnowledgeInv, PushKnows, IsPush, IsRequest, KeepInv, TabKeeps, PatientInv, TabCarried, Waiting
<1>3. /\ p2.at = at /\ p2.answer = answer /\ p2.candidate = p.candidate /\ p2.base = p.base
      /\ IsFunction(p2)
  BY <1>2, AnsweredPush DEF IsRequest
<1>4. /\ p.rev = Revision => at = "saved"
      /\ p.rev # Revision => at = "conflict" /\ answer.ws = Latest
  OBVIOUS
<1> HIDE DEF p2, at, answer
<1>5. push'[t] = p2 /\ p2 # None /\ \A u \in Tab \ {t} : push'[u] = push[u]
  BY <1>1, <1>3 DEF KnowledgeInv, Families, NullNone, IsFunction
<1>6. Grows
  BY <1>1, CountersGrow
<1>7. Extends(history', history)
  BY <1>1, ExtendsItself, ExtendsByAppend DEF KnowledgeInv, Families
<1>8. StepOf(t) /\ Elsewhere(t)
  BY <1>1, <1>5, <1>7 DEF StepOf, Untouched, Elsewhere
<1>9. Drafting(t) /\ Draft(t) = p.candidate /\ Mine(t) = Changes(p.candidate, base[t])
  BY <1>1, <1>2 DEF Drafting, Draft, Mine
<1>10. Kept(p.candidate, seen) /\ Drafted(p.candidate, base[t], seen, Public(history))
  BY <1>9 DEF KeepInv, TabKeeps
<1>11. CASE p.rev # Revision
  <2>1. p.base = base[t] /\ DOMAIN p.base \subseteq DOMAIN Latest
    BY <1>2, KnownKeeps
  <2>2. SameDraft(t) /\ phase'[t] = "open"
    BY <1>1, <1>2, <1>3, <1>4, <1>5, <1>9, <1>11 DEF SameDraft, Drafting, Draft
  <2> QED
    BY <1>1, <1>3, <1>4, <1>5, <1>6, <1>8, <1>11, <2>1, <2>2, KeepDraft
<1>12. CASE p.rev = Revision
  <2>1. /\ IsSequence(history') /\ Len(history) \in Nat /\ Len(history) > 0
        /\ DOMAIN history = 1 .. Len(history) /\ DOMAIN history' = 1 .. Len(history) + 1
        /\ Len(history') = Len(history) + 1
        /\ \A n \in DOMAIN history : history'[n] = history[n]
        /\ history'[Len(history) + 1] = p.candidate
    <3>1. history' = Append(history, p.candidate)
      BY <1>1, <1>12
    <3> QED BY <3>1, AppendIsSequence DEF KnowledgeInv, Families
  <2>2. Latest' = p.candidate /\ base[t] = Latest
    BY <1>2, <1>12, <2>1 DEF Latest, Known, Revision
  <2>3. Words(p.candidate) \subseteq Public(history) \cup Mine(t)
    <3> SUFFICES ASSUME NEW x \in Documents(p.candidate)
                 PROVE  p.candidate[x] \in Public(history) \cup Mine(t)
      BY DEF Words
    <3>1. CASE Changed(p.candidate, base[t], x)
      BY <1>9, <3>1 DEF Changes
    <3>2. CASE ~Changed(p.candidate, base[t], x)
      <4>1. p.candidate[x] # Absent
        <5>1. Written(p.candidate, edits, copies)
          BY <1>9, DraftWritten
        <5> QED BY <5>1, SyncAssumption DEF Written, SyncAssumption
      <4>2. x \in Documents(base[t]) /\ p.candidate[x] = base[t][x]
        BY <3>2, <4>1 DEF Changed, At, Documents
      <4>3. Words(base[t]) \subseteq Public(history)
        BY <1>2, KnownKeeps
      <4> QED BY <4>2, <4>3 DEF Words
    <3> QED BY <3>1, <3>2
  <2>4. Public(history') \subseteq Public(history) \cup Mine(t)
    <3> SUFFICES ASSUME NEW n \in DOMAIN history', NEW w \in Words(history'[n])
                 PROVE  w \in Public(history) \cup Mine(t)
      BY DEF Public
    <3>1. CASE n \in DOMAIN history
      BY <2>1, <3>1 DEF Public
    <3>2. CASE n \notin DOMAIN history
      BY <2>1, <2>3, <3>2
    <3> QED BY <3>1, <3>2
  <2>5. \A e \in Edit : seen'[e] \subseteq Public(history')
    BY <1>1, <1>7, PublicGrows DEF KeepInv
  <2>6. RevisionsKeep'
    <3> SUFFICES ASSUME NEW n \in DOMAIN history'
                 PROVE  Kept(history'[n], seen') /\ DOMAIN history'[n] \subseteq DOMAIN Latest'
      BY DEF RevisionsKeep
    <3>1. CASE n \in DOMAIN history
      <4>1. Kept(history[n], seen) /\ DOMAIN history[n] \subseteq DOMAIN Latest
        BY <3>1 DEF KeepInv, RevisionsKeep
      <4>2. DOMAIN Latest \subseteq DOMAIN p.candidate
        BY <1>10, <2>2 DEF Drafted
      <4> QED BY <1>1, <2>1, <2>2, <3>1, <4>1, <4>2
    <3>2. CASE n \notin DOMAIN history
      BY <1>1, <1>10, <2>1, <2>2, <3>2
    <3> QED BY <3>1, <3>2
  <2>7. ~Drafting(t)' /\ Mine(t)' = {} /\ TabKeeps(t)'
    BY <1>1, <1>2, <1>3, <1>4, <1>5, <1>12 DEF Drafting, Mine, TabKeeps, Unused
  <2>8. late' = {}
    BY <1>1 DEF KeepInv
  <2> QED BY <1>6, <1>8, <2>4, <2>5, <2>6, <2>7, <2>8, KeepStep
<1> QED BY <1>11, <1>12

(* What was accepted is the base: the tab has nothing that the server has  *)
(* not.                                                                    *)
LEMMA SavedAnswerStays ==
    ASSUME NullNone, KnowledgeInv, PatientInv, KeepInv, OneTabEach, NEW t \in Tab, SavedAnswer(t)
    PROVE  KeepInv'
<1> DEFINE p == push[t]
           p2 == [p EXCEPT !.at = "store"]
           record == Record(p.candidate, p.candidate, p.answer.rev, FALSE)
<1>1. /\ p # None /\ p.at = "saved" /\ p.newest = TRUE /\ phase[t] = "open"
  BY DEF SavedAnswer, PatientInv, TabCarried, Waiting
<1>2. /\ base' = [base EXCEPT ![t] = p.candidate] /\ rev' = [rev EXCEPT ![t] = p.answer.rev]
      /\ UNCHANGED <<history, late, cache, phase, fetched, view, timer, saves, edits, seen, copies>>
      /\ writes' = Issue(t, writes, record, "saved") /\ push' = [push EXCEPT ![t] = p2]
  BY <1>1 DEF SavedAnswer, Adopts, serverVars, screenVars, countVars
<1>3. IsRequest(p, history) /\ Known(p.candidate, p.answer.rev, history)
  BY <1>1 DEF KnowledgeInv, PushKnows, IsPush
<1>4. IsPush(p2, history) /\ p2.at = "store" /\ p2.candidate = p.candidate
  BY <1>3, StoringPush
<1> HIDE DEF p2, record
<1>5. push'[t] = p2 /\ p2 # None /\ base'[t] = p.candidate
  BY <1>2, <1>4 DEF KnowledgeInv, Families, IsPush, IsRequest, NullNone, IsFunction
<1>6. Grows
  BY <1>2, CountersGrow
<1>7. StepOf(t)
  BY <1>2, ExtendsItself DEF KnowledgeInv, Families, StepOf, Untouched
<1>8. Elsewhere(t)
  BY <1>2, IssuedHere
<1>9. Drafting(t)' /\ Draft(t)' = p.candidate
  BY <1>1, <1>2, <1>4, <1>5 DEF Drafting, Draft
<1>10. Kept(p.candidate, seen)
  BY <1>3, KnownKeeps
<1>11. TabKeeps(t)' /\ Mine(t)' = {}
  BY <1>1, <1>2, <1>4, <1>5, <1>9, <1>10, NothingDrafted DEF TabKeeps, Mine, Unused
<1> QED BY <1>2, <1>6, <1>7, <1>8, <1>11, KeepQuiet

(* A merge has what the tab had, over what the server has.                 *)
LEMMA ConflictAnswerStays ==
    ASSUME NullNone, CopiesAreNew, KnowledgeInv, PatientInv, KeepInv, OneTabEach, NEW t \in Tab, ConflictAnswer(t)
    PROVE  KeepInv'
<1> DEFINE p == push[t]
           server == p.answer.ws
           clashes == Conflicts(server, p.candidate, p.base)
           merged == Reconciled(server, p.candidate, p.base, copies + 1)
           q == Rebased(p, merged)
           p2 == [q EXCEPT !.at = "store"]
           record == Record(merged, server, p.answer.rev, TRUE)
<1>1. /\ p # None /\ p.at = "conflict" /\ p.newest = TRUE /\ phase[t] = "open"
  BY DEF ConflictAnswer, PatientInv, TabCarried, Waiting
<1>2. /\ base' = [base EXCEPT ![t] = server] /\ rev' = [rev EXCEPT ![t] = p.answer.rev]
      /\ copies' = IF clashes \subseteq Setting THEN copies ELSE copies + 1
      /\ writes' = Issue(t, writes, record, "merged") /\ push' = [push EXCEPT ![t] = p2]
      /\ UNCHANGED <<history, late, cache, phase, fetched, view, timer, status, saves, edits, seen>>
  BY <1>1 DEF ConflictAnswer, serverVars, screenVars
<1>3. /\ IsRequest(p, history) /\ Known(server, p.answer.rev, history)
      /\ p.base = base[t] /\ DOMAIN p.base \subseteq DOMAIN server
  BY <1>1 DEF KnowledgeInv, PushKnows, IsPush, KeepInv, TabKeeps
<1>4. Drafting(t) /\ Draft(t) = p.candidate /\ Mine(t) = Changes(p.candidate, base[t])
  BY <1>1 DEF Drafting, Draft, Mine
<1>5. edits \in Nat /\ copies \in Nat
  BY SyncAssumption DEF PatientInv, Counters, Edit, SyncAssumption
<1>6. Grows
  BY <1>2, <1>5 DEF Grows
<1>7. /\ Kept(merged, seen) /\ Drafted(merged, server, seen, Public(history))
      /\ Changes(merged, server) \subseteq Changes(p.candidate, p.base)
  <2>1. /\ Written(p.candidate, edits, copies) /\ Written(p.base, edits, copies)
        /\ Kept(p.candidate, seen) /\ Drafted(p.candidate, p.base, seen, Public(history))
    BY <1>3, <1>4, DraftWritten DEF KeepInv, TabKeeps
  <2>2. /\ Kept(server, seen) /\ Written(server, edits, copies) /\ Words(server) \subseteq Public(history)
        /\ \A v \in Words(server) : seen[v] \subseteq Public(history)
    BY <1>3, KnownKeeps
  <2> QED BY <1>3, <1>5, <2>1, <2>2, MergeKeeps
<1>8. IsFunction(merged)
  BY DEF Reconciled, With, IsFunction
<1> HIDE DEF merged
<1>9. IsRequest(q, history) /\ q.candidate = merged /\ q.base = server
  BY <1>3, <1>8, RebasedPush
<1> HIDE DEF q
<1>10. IsPush(p2, history) /\ p2.at = "store" /\ p2.candidate = merged
  BY <1>9, StoringPush
<1> HIDE DEF p2, record
<1>11. push'[t] = p2 /\ p2 # None /\ base'[t] = server
  BY <1>2, <1>10 DEF KnowledgeInv, Families, IsPush, IsRequest, NullNone, IsFunction
<1>12. StepOf(t)
  BY <1>2, ExtendsItself DEF KnowledgeInv, Families, StepOf, Untouched
<1>13. Elsewhere(t)
  BY <1>2, IssuedHere
<1>14. Drafting(t)' /\ Draft(t)' = merged
  BY <1>1, <1>2, <1>10, <1>11 DEF Drafting, Draft
<1>15. TabKeeps(t)' /\ Mine(t)' \subseteq Mine(t)
  BY <1>1, <1>2, <1>3, <1>4, <1>7, <1>10, <1>11, <1>14 DEF TabKeeps, Mine, Unused
<1> QED BY <1>2, <1>6, <1>12, <1>13, <1>15, KeepQuiet


(* The completion of a put leaves the other devices alone.                 *)
LEMMA StoredHere ==
    ASSUME KnowledgeInv, NEW v \in Device, NEW t \in Tab, Completes(v, t),
           Head(writes[v]).then # "aborted", writes' = Rest(v)
    PROVE  Elsewhere(t) /\ Awaited(v, Head(writes[v]), phase, push, base)
<1>1. Awaited(v, Head(writes[v]), phase, push, base)
  BY FitTail DEF KnowledgeInv, PutsFit, Completes
<1>2. DeviceOf[t] = v
  BY <1>1 DEF Awaited, Completes
<1>3. \A x \in Device \ {v} : cache'[x] = cache[x] /\ writes'[x] = writes[x]
  BY DEF Completes, Rest, KnowledgeInv, Families
<1> QED BY <1>1, <1>2, <1>3 DEF Elsewhere

(* A tab opens with what the server has.                                   *)
LEMMA LoadStoredStays ==
    ASSUME KnowledgeInv, PatientInv, KeepInv, OneTabEach, NEW v \in Device, NEW t \in Tab, Completes(v, t),
           Head(writes[v]).then = "load", LoadStored(t, Rest(v)), UNCHANGED <<edits, seen, copies>>
    PROVE  KeepInv'
<1>1. /\ phase' = [phase EXCEPT ![t] = "open"] /\ view' = [view EXCEPT ![t] = base[t]]
      /\ timer' = [timer EXCEPT ![t] = TRUE] /\ status' = [status EXCEPT ![t] = "synchronized"]
      /\ fetched' = [fetched EXCEPT ![t] = None] /\ writes' = Rest(v)
      /\ UNCHANGED <<history, late, saves, push, base, rev>>
  BY DEF LoadStored, Shows, queueVars, Completes
<1>2. Elsewhere(t) /\ Awaited(v, Head(writes[v]), phase, push, base)
  BY <1>1, StoredHere
<1>3. phase[t] = "store" /\ push[t] = None /\ Known(base[t], rev[t], history)
  BY <1>2 DEF Awaited, Completes, KnowledgeInv, TabKnows
<1>4. phase'[t] = "open" /\ view'[t] = base[t] /\ base'[t] = base[t] /\ push'[t] = None
  BY <1>1, <1>3 DEF KnowledgeInv, Families, PatientInv, Counters
<1>5. Drafting(t)' /\ Draft(t)' = base[t]
  BY <1>4 DEF Drafting, Draft
<1>6. Kept(base[t], seen)
  BY <1>3, KnownKeeps
<1>7. TabKeeps(t)' /\ Mine(t)' = {}
  BY <1>1, <1>4, <1>5, <1>6, NothingDrafted DEF TabKeeps, Mine, Unused
<1>8. Grows
  BY CountersGrow
<1>9. StepOf(t)
  BY <1>1, ExtendsItself DEF KnowledgeInv, Families, StepOf, Untouched
<1> QED BY <1>1, <1>2, <1>7, <1>8, <1>9, KeepQuiet

(* A save goes on: what the tab has is what it had.                        *)
LEMMA SaveStoredStays ==
    ASSUME KnowledgeInv, PatientInv, KeepInv, OneTabEach, NEW v \in Device, NEW t \in Tab, Completes(v, t),
           Head(writes[v]).then = "save", SaveStored(t, Rest(v)), UNCHANGED <<edits, seen, copies>>
    PROVE  KeepInv'
<1> DEFINE q == saves[t]
           U == Uncached(saves[t])
           first == CHOOSE i \in U : \A j \in U : i <= j
           left == U \ {first}
<1>1. Awaited(v, Head(writes[v]), phase, push, base)
  BY FitTail DEF KnowledgeInv, PutsFit, Completes
<1>2. phase[t] = "open"
  BY <1>1 DEF Awaited, Completes
<1>3. left = {}
  <2>1. DOMAIN q \subseteq {1}
    BY DEF PatientInv, TabCarried, KnowledgeInv, TabKnows, IsSequence
  <2>2. U \subseteq {1}
    BY <2>1 DEF Uncached
  <2>3. U # {} => first \in U
    BY <2>2
  <2> QED BY <2>2, <2>3
<1>4. /\ writes' = Rest(v) /\ \A u \in Tab \ {t} : saves'[u] = saves[u]
      /\ status' = [status EXCEPT ![t] = "synchronizing"]
      /\ UNCHANGED <<history, late, phase, fetched, view, timer, push, base, rev>>
  BY <1>3 DEF SaveStored, screenVars, Completes, KnowledgeInv, Families
<1>5. Elsewhere(t)
  BY <1>4, StoredHere
<1>6. Mine(t)' = Mine(t) /\ TabKeeps(t)'
  <2>1. Drafting(t)' <=> Drafting(t)
    BY <1>4 DEF Drafting
  <2>2. Draft(t)' = Draft(t)
    BY <1>4 DEF Draft
  <2>3. TabKeeps(t)
    BY DEF KeepInv
  <2> QED BY <1>2, <1>4, <2>1, <2>2, <2>3 DEF Mine, TabKeeps, Unused
<1>7. Grows
  BY CountersGrow
<1>8. StepOf(t)
  BY <1>4, ExtendsItself DEF KnowledgeInv, Families, StepOf, Untouched
<1> QED BY <1>4, <1>5, <1>6, <1>7, <1>8, KeepQuiet

(* The screen takes the push's candidate, or shows it already.             *)
LEMMA ResolveStays ==
    ASSUME KnowledgeInv, PatientInv, KeepInv, OneTabEach, NEW t \in Tab, push[t] # None, push[t].at = "store",
           Resolve(t, push[t].candidate), StepOf(t), Elsewhere(t),
           UNCHANGED <<history, late, phase, base, edits, seen, copies>>
    PROVE  KeepInv'
<1>1. view'[t] = push[t].candidate /\ push'[t] = None /\ phase[t] = "open"
  BY ResolveShows
<1>2. SameDraft(t)
  BY <1>1 DEF SameDraft, Drafting, Draft
<1>3. Grows
  BY CountersGrow
<1> QED BY <1>1, <1>2, <1>3, KeepDraft

LEMMA ResultStoredStays ==
    ASSUME KnowledgeInv, PatientInv, KeepInv, OneTabEach, NEW v \in Device, NEW t \in Tab, Completes(v, t),
           Head(writes[v]).then = "saved", ResultStored(t, Rest(v)), UNCHANGED <<edits, seen, copies>>
    PROVE  KeepInv'
<1>1. /\ Resolve(t, push[t].candidate) /\ status' = [status EXCEPT ![t] = "synchronized"] /\ writes' = Rest(v)
      /\ UNCHANGED <<history, late, phase, fetched, saves, base, rev>>
  BY DEF ResultStored, Completes
<1>2. Elsewhere(t) /\ push[t] # None /\ push[t].at = "store"
  BY <1>1, StoredHere DEF Awaited, Completes
<1>3. /\ \A u \in Tab \ {t} : view'[u] = view[u] /\ push'[u] = push[u]
      /\ \E m \in BOOLEAN : timer' = [timer EXCEPT ![t] = m]
  BY <1>1, <1>2, ResolveShows
<1>4. StepOf(t)
  BY <1>1, <1>3, ExtendsItself DEF KnowledgeInv, Families, StepOf, Untouched
<1> QED BY <1>1, <1>2, <1>4, ResolveStays

(* The push is tried again with what it had, or its candidate is shown.    *)
LEMMA MergeStoredStays ==
    ASSUME NullNone, KnowledgeInv, PatientInv, KeepInv, OneTabEach, NEW v \in Device, NEW t \in Tab,
           Completes(v, t), Head(writes[v]).then = "merged", MergeStored(t, Rest(v)),
           UNCHANGED <<edits, seen, copies>>
    PROVE  KeepInv'
<1> DEFINE p == push[t]
<1>1. NextTry(t, p) /\ writes' = Rest(v) /\ UNCHANGED <<history, late, phase, fetched, saves, base, rev>>
  BY DEF MergeStored, Completes
<1>2. Elsewhere(t) /\ p # None /\ p.at = "store"
  BY <1>1, StoredHere DEF Awaited, Completes
<1>3. phase[t] = "open" /\ IsRequest(p, history) /\ p.newest = TRUE /\ p.base = base[t]
  <2>1. Head(writes[v]) = writes[v][1] /\ 1 \in DOMAIN writes[v]
    BY TailIsSequence DEF Completes, KnowledgeInv, PutsFit, Fit
  <2>2. p.base = base[t]
    BY <2>1 DEF PatientInv, RecordsCarried, Completes
  <2> QED BY <1>2, <2>2 DEF PatientInv, TabCarried, Waiting, KnowledgeInv, PushKnows, IsPush
<1>4. CASE ~LastTry(p)
  <2>1. push' = [push EXCEPT ![t] = Resent(p)] /\ UNCHANGED <<status, view, timer>>
    BY <1>1, <1>4 DEF NextTry, Resent, screenVars
  <2>2. /\ IsPush(Resent(p), history) /\ Resent(p).at = "sent" /\ Resent(p).candidate = p.candidate
        /\ Resent(p).base = p.base
    BY <1>3, ResentPush
  <2>3. push'[t] = Resent(p) /\ Resent(p) # None
    BY <2>1, <2>2 DEF KnowledgeInv, Families, IsPush, IsRequest, NullNone, IsFunction
  <2>4. SameDraft(t) /\ phase'[t] = "open"
    BY <1>1, <1>2, <1>3, <2>2, <2>3 DEF SameDraft, Drafting, Draft
  <2>5. StepOf(t)
    BY <1>1, <2>1, ExtendsItself DEF KnowledgeInv, Families, StepOf, Untouched
  <2>6. Grows
    BY CountersGrow
  <2>7. push'[t].at = "sent" /\ push'[t].base = base'[t]
    BY <1>1, <1>3, <2>2, <2>3
  <2> QED BY <1>1, <1>2, <2>4, <2>5, <2>6, <2>7, KeepDraft
<1>5. CASE LastTry(p)
  <2>1. Resolve(t, p.candidate) /\ status' = [status EXCEPT ![t] = "unsynced"]
    BY <1>1, <1>3, <1>5 DEF NextTry
  <2>2. /\ \A u \in Tab \ {t} : view'[u] = view[u] /\ push'[u] = push[u]
        /\ \E m \in BOOLEAN : timer' = [timer EXCEPT ![t] = m]
    BY <1>2, <2>1, ResolveShows
  <2>3. StepOf(t)
    BY <1>1, <2>1, <2>2, ExtendsItself DEF KnowledgeInv, Families, StepOf, Untouched
  <2> QED BY <1>1, <1>2, <2>1, <2>3, ResolveStays
<1> QED BY <1>4, <1>5

(* The put of a tab that closed changes no record.                         *)
LEMMA AbortedStays ==
    ASSUME KnowledgeInv, PatientInv, KeepInv, NEW v \in Device, writes[v] # << >>, writes' = Rest(v),
           UNCHANGED <<history, late, cache, phase, fetched, view, push, base, seen>>
    PROVE  KeepInv'
<1>1. ASSUME NEW u \in Tab PROVE Unused(u)'
  <2>1. \A x \in Device \ {v} : writes'[x] = writes[x]
    BY DEF Rest, KnowledgeInv, Families
  <2>2. Unused(u)
    BY DEF KeepInv, TabKeeps
  <2>3. phase[u] \in {"closed", "load"} => DeviceOf[u] # v /\ DeviceOf[u] \in Device
    BY <2>2, SyncAssumption DEF Unused, SyncAssumption
  <2> QED BY <2>1, <2>2, <2>3 DEF Unused
<1>2. ASSUME NEW u \in Tab
      PROVE  /\ Drafting(u)' <=> Drafting(u)
             /\ Draft(u)' = Draft(u) /\ Mine(u)' = Mine(u)
  BY DEF Drafting, Draft, Mine
<1>3. ASSUME NEW u \in Tab PROVE TabKeeps(u)'
  BY <1>1, <1>2 DEF KeepInv, TabKeeps
<1>4. RevisionsKeep'
  BY DEF KeepInv, RevisionsKeep, Latest
<1> QED BY <1>2, <1>3, <1>4 DEF KeepInv

LEMMA StoredStays ==
    ASSUME NullNone, KnowledgeInv, PatientInv, KeepInv, OneTabEach, NEW v \in Device, Stored(v) PROVE KeepInv'
<1> DEFINE put == Head(writes[v])
           t == put.tab
<1>1. writes[v] # << >> /\ UNCHANGED <<history, late, base, rev, edits, seen, copies>>
  BY DEF Stored, serverVars, countVars
<1>2. \/ /\ \/ put.then = "load" /\ LoadStored(t, Rest(v))
            \/ put.then = "save" /\ SaveStored(t, Rest(v))
            \/ put.then = "saved" /\ ResultStored(t, Rest(v))
            \/ put.then = "merged" /\ MergeStored(t, Rest(v))
         /\ cache' = [cache EXCEPT ![v] = put.record]
      \/ /\ put.then = "aborted" /\ writes' = Rest(v)
         /\ UNCHANGED <<cache, phase, fetched, view, timer, status, saves, push>>
  BY DEF Stored, Rest, screenVars, queueVars
<1>3. t \in Tab
  BY <1>1, FitTail DEF KnowledgeInv, PutsFit, Awaited
<1>4. CASE /\ put.then = "aborted" /\ writes' = Rest(v)
           /\ UNCHANGED <<cache, phase, fetched, view, timer, status, saves, push>>
  BY <1>1, <1>4, AbortedStays
<1>5. CASE cache' = [cache EXCEPT ![v] = put.record]
           /\ \/ put.then = "load" /\ LoadStored(t, Rest(v))
              \/ put.then = "save" /\ SaveStored(t, Rest(v))
              \/ put.then = "saved" /\ ResultStored(t, Rest(v))
              \/ put.then = "merged" /\ MergeStored(t, Rest(v))
  <2>1. Completes(v, t)
    BY <1>1, <1>5 DEF Completes
  <2> QED
    BY <1>1, <1>3, <1>5, <2>1, LoadStoredStays, SaveStoredStays, ResultStoredStays, MergeStoredStays
<1> QED BY <1>2, <1>4, <1>5

LEMMA KeepAtFirst ==
    ASSUME Init PROVE KeepInv
<1> USE DEF Init
<1> DEFINE ws == [x \in Doc \cup Setting |-> 0]
<1>1. Len(history) = 1 /\ DOMAIN history = {1} /\ history[1] = ws /\ Latest = ws
  BY DEF Latest
<1>2. Documents(ws) \ Doc = {}
  BY DEF Documents
<1> HIDE DEF ws
<1>3. RevisionsKeep
  BY <1>1, <1>2 DEF RevisionsKeep, Kept
<1>4. \A t \in Tab : TabKeeps(t) /\ Mine(t) = {}
  BY SyncAssumption DEF TabKeeps, Unused, Drafting, Mine, SyncAssumption
<1> QED BY <1>3, <1>4 DEF KeepInv

LEMMA KeepNext ==
    ASSUME NullNone, CopiesAreNew, Undisturbed, OneTabEach, KnowledgeInv, PatientInv, KeepInv, Next
    PROVE  KnowledgeInv' /\ PatientInv' /\ KeepInv'
<1>1. Patient
  BY DEF Undisturbed, Patient
<1>2. KnowledgeInv' /\ PatientInv'
  BY <1>1, PatientNext
<1>3. \A t \in Tab : ~LoadFails(t) /\ ~Online(t) /\ ~SaveNow(t) /\ ~Fails(t) /\ ~Close(t)
  BY DEF Undisturbed, LoadFails, Online, SaveNow, Fails, Close, Fault
<1>4. ~Late
  BY DEF KeepInv, Late
<1>5. KeepInv'
  BY <1>1, <1>2, <1>3, <1>4, OpenStays, FetchStays, LoadedStays, WriteStays, ToggleStays, DebouncedStays,
     StartPushStays, ServeStays, SavedAnswerStays, ConflictAnswerStays, StoredStays
  DEF Next, Protocol
<1> QED BY <1>2, <1>5

LEMMA KeepStutter ==
    ASSUME KeepInv, UNCHANGED vars PROVE KeepInv'
<1> USE DEF vars, serverVars, cacheVars, screenVars, fieldVars, queueVars, countVars
<1>1. RevisionsKeep'
  BY DEF KeepInv, RevisionsKeep, Latest
<1>2. ASSUME NEW t \in Tab PROVE TabKeeps(t)' /\ Mine(t)' = Mine(t)
  <2>1. (Drafting(t)' <=> Drafting(t)) /\ Draft(t)' = Draft(t)
    BY DEF Drafting, Draft
  <2> QED BY <2>1 DEF KeepInv, TabKeeps, Unused, Mine
<1> QED BY <1>1, <1>2 DEF KeepInv

LEMMA KeepInvariant ==
    ASSUME NullNone, CopiesAreNew, Undisturbed, OneTabEach
    PROVE  Spec => [](KnowledgeInv /\ PatientInv /\ KeepInv)
<1>1. Init => KnowledgeInv /\ PatientInv /\ KeepInv
  BY KnowledgeAtFirst, CarriedAtFirst, KeepAtFirst
<1>2. (KnowledgeInv /\ PatientInv /\ KeepInv) /\ [Next]_vars => (KnowledgeInv /\ PatientInv /\ KeepInv)'
  BY KeepNext, KeepStutter, PatientStutter, StutterKeeps
<1> QED BY <1>1, <1>2, PTL DEF Spec

(* A conflict copy is worth its place.  With patient authors on a device   *)
(* each, whose requests are answered and whose tabs stay open, every copy  *)
(* that a merge (reconcileWorkspaces, from push 233-283) puts beside a     *)
(* document keeps words that document neither says nor was written over,   *)
(* at every revision, however many refusals, merges and retries it took.   *)
THEOREM CopiesKeepLostWords ==
    ASSUME NullNone, CopiesAreNew, Undisturbed, OneTabEach PROVE Spec => []NoNeedlessCopy
<1>1. KeepInv => NoNeedlessCopy
  BY DEF KeepInv, RevisionsKeep, Kept, NoNeedlessCopy
<1> QED BY <1>1, KeepInvariant, PTL

-----------------------------------------------------------------------------
(* The device keeps what it says it keeps.  Tabs on a device each, of       *)
(* authors who edit, save and close whenever they like, with every fault   *)
(* but a first load that fails.  What a tab has on its way from the screen *)
(* to the server is in one order: the record and the puts behind it hold no *)
(* more than the saves, those no more than the screen, and a push holds    *)
(* what its save did, but for words the server has held.                   *)

(* ws says x, or something that was written over it; a revision did.       *)
Says(ws, x, sn) == \E v \in Words(ws) : x = v \/ x \in sn[v]
Surfaced(x, sn, h) == \E n \in DOMAIN h : Says(h[n], x, sn)

(* Whatever a says, b says or some revision did, as far as the e edits, c  *)
(* conflicts and the history h have come.                                  *)
Contained(a, b, e, c, sn, h) ==
    /\ Written(a, e, c) /\ Written(b, e, c)
    /\ \A x \in Words(a) \ {0} : Says(b, x, sn) \/ Surfaced(x, sn, h)
Within(a, b) == Contained(a, b, edits, copies, seen, history)
Later(a, b) == Contained(a, b, edits', copies', seen', history')

(* Writing over writing over words is writing over them.                   *)
Ordered(e, sn) ==
    /\ sn[0] = {}
    /\ \A x \in 0 .. e : sn[x] \subseteq 0 .. e /\ \A y \in sn[x] : sn[y] \subseteq sn[x]

WordsKnown ==
    /\ timer \in [Tab -> BOOLEAN] /\ DOMAIN status = Tab
    /\ edits \in Edit /\ copies \in Nat /\ seen \in [Edit -> SUBSET Edit] /\ Ordered(edits, seen)
    /\ \A x \in Edit \ 0 .. edits : seen[x] = {}
    /\ \A n \in DOMAIN history : Written(history[n], edits, copies)
    /\ \A r \in late : Written(r.ws, edits, copies)

(* The puts of a device that will complete, and the workspaces in its      *)
(* record or on the way to it.                                             *)
Live(v) == {i \in DOMAIN writes[v] : writes[v][i].then # "aborted"}
Stock(v) == (IF cache[v] = None THEN {} ELSE {cache[v].ws}) \cup {writes[v][i].record.ws : i \in Live(v)}

(* A record that will not be saved again holds its base.                   *)
Sound(record) == record # None /\ (record.pending \/ record.ws = record.base)

(* No record takes words from the one it replaces.                         *)
DeviceStores(v) ==
    /\ cache[v] # None => Sound(cache[v])
    /\ \A ws \in Stock(v) : Within(ws, ws)
    /\ \A j \in Live(v) :
          /\ Sound(writes[v][j].record)
          /\ cache[v] # None => Within(cache[v].ws, writes[v][j].record.ws)
          /\ \A i \in Live(v) : i < j => Within(writes[v][i].record.ws, writes[v][j].record.ws)

LastSave(t) == saves[t][Len(saves[t])]

(* A later save holds what an earlier one does, and is stored later.       *)
SavesInOrder(t) ==
    \A j \in DOMAIN saves[t] :
       /\ saves[t][j].newest <=> j = Len(saves[t])
       /\ Within(saves[t][j].ws, view[t])
       /\ \A i \in 1 .. j : /\ Within(saves[t][i].ws, saves[t][j].ws)
                            /\ saves[t][j].cached => saves[t][i].cached

(* A push has what its save had; no save waits behind the newest.          *)
PushInOrder(t) ==
    push[t] # None =>
       /\ Within(push[t].ws, push[t].candidate) /\ Within(push[t].candidate, push[t].ws)
       /\ Within(push[t].candidate, view[t])
       /\ push[t].newest <=> saves[t] = << >>

(* The record and the puts behind it have nothing that is not on the screen *)
(* and in what was saved last.                                             *)
ScreenHolds(t) ==
    \A ws \in Stock(DeviceOf[t]) :
       /\ Within(ws, view[t])
       /\ saves[t] # << >> => Within(ws, LastSave(t).ws)
       /\ push[t] # None /\ saves[t] = << >> => Within(ws, push[t].candidate)

(* The first save that is not in the record.                               *)
Resumed(t, k) == k \in DOMAIN saves[t] /\ ~saves[t][k].cached /\ \A j \in 1 .. k - 1 : saves[t][j].cached

(* What each put of the tab stores; one of a save is behind the others.    *)
PutsInOrder(t) ==
    \A i \in Live(DeviceOf[t]) :
       LET put == writes[DeviceOf[t]][i] IN
       /\ put.then = "load" => put.record.ws = put.record.base
       /\ put.then = "save" => /\ put.record.pending /\ i = Len(writes[DeviceOf[t]])
                               /\ \E k \in DOMAIN saves[t] : Resumed(t, k) /\ put.record.ws = saves[t][k].ws
       /\ put.then = "merged" => put.record.pending /\ put.record.ws = push[t].candidate
       /\ saves[t] # << >> => Uncached(saves[t]) # {}

InRecord(t, ws) ==
    LET record == cache[DeviceOf[t]] IN record # None /\ record.pending /\ Within(ws, record.ws)

(* What is saved is in the record until it is on the server.               *)
WorkStored(t) ==
    /\ saves[t] # << >> /\ Uncached(saves[t]) = {} => InRecord(t, LastSave(t).ws)
    /\ push[t] # None /\ saves[t] = << >> /\ push[t].at # "store" => InRecord(t, push[t].candidate)

(* Between two edits what is on the screen is saved.                       *)
ScreenSaved(t) ==
    ~timer[t] =>
       /\ saves[t] # << >> => Within(view[t], LastSave(t).ws)
       /\ push[t] # None /\ saves[t] = << >> => Within(view[t], push[t].candidate)
       /\ push[t] = None /\ saves[t] = << >> /\ status[t] = "unsynced" => InRecord(t, view[t])

TabStores(t) ==
    /\ phase[t] = "load" => fetched[t].cached = cache[DeviceOf[t]]
    /\ PutsInOrder(t)
    /\ phase[t] = "open" =>
          /\ Within(view[t], view[t])
          /\ SavesInOrder(t) /\ PushInOrder(t) /\ ScreenHolds(t) /\ WorkStored(t) /\ ScreenSaved(t)

(* The inductive invariant of DeviceKeepsWriting, until a first load fails. *)
StoreInv == WordsKnown /\ (\A v \in Device : DeviceStores(v)) /\ (\A t \in Tab : TabStores(t))

-----------------------------------------------------------------------------
(* Containment is an order, which more words and more revisions keep.      *)

LEMMA ContainedItself ==
    ASSUME NEW a, NEW e, NEW c, NEW sn, NEW h, Written(a, e, c) PROVE Contained(a, a, e, c, sn, h)
BY DEF Contained, Says

(* A word in b may be looked for in what contains b.                       *)
LEMMA SaidWithin ==
    ASSUME NEW e \in Nat, NEW c, NEW sn, NEW h, Ordered(e, sn), \A n \in DOMAIN h : Written(h[n], e, c),
           NEW b, NEW d, Contained(b, d, e, c, sn, h), NEW x, x # 0, Says(b, x, sn)
    PROVE  Says(d, x, sn) \/ Surfaced(x, sn, h)
<1>1. PICK v \in Words(b) : x = v \/ x \in sn[v]
  BY DEF Says
<1>2. v # 0
  BY <1>1 DEF Ordered
<1>3. Says(d, v, sn) \/ Surfaced(v, sn, h)
  BY <1>1, <1>2 DEF Contained
<1>4. ASSUME NEW ws, Written(ws, e, c), Says(ws, v, sn) PROVE Says(ws, x, sn)
  <2>1. PICK w \in Words(ws) : v = w \/ v \in sn[w]
    BY <1>4 DEF Says
  <2>2. w \in 0 .. e
    BY <1>4 DEF Words, Written
  <2>3. x = w \/ x \in sn[w]
    BY <1>1, <2>1, <2>2 DEF Ordered
  <2> QED BY <2>3 DEF Says
<1>5. CASE Says(d, v, sn)
  BY <1>4, <1>5 DEF Contained
<1>6. CASE Surfaced(v, sn, h)
  <2>1. PICK n \in DOMAIN h : Says(h[n], v, sn)
    BY <1>6 DEF Surfaced
  <2> QED BY <1>4, <2>1 DEF Surfaced
<1> QED BY <1>3, <1>5, <1>6

LEMMA ContainedThrough ==
    ASSUME NEW e \in Nat, NEW c, NEW sn, NEW h, Ordered(e, sn), \A n \in DOMAIN h : Written(h[n], e, c),
           NEW a, NEW b, NEW d, Contained(a, b, e, c, sn, h), Contained(b, d, e, c, sn, h)
    PROVE  Contained(a, d, e, c, sn, h)
<1>1. ASSUME NEW x \in Words(a) \ {0} PROVE Says(d, x, sn) \/ Surfaced(x, sn, h)
  <2>1. Says(b, x, sn) \/ Surfaced(x, sn, h)
    BY DEF Contained
  <2> QED BY <2>1, SaidWithin
<1> QED BY <1>1 DEF Contained

(* A revision is contained in everything that is written.                  *)
LEMMA RevisionContained ==
    ASSUME NEW e, NEW c, NEW sn, NEW h, NEW n \in DOMAIN h, NEW b, Written(h[n], e, c), Written(b, e, c)
    PROVE  Contained(h[n], b, e, c, sn, h)
BY DEF Contained, Says, Surfaced

(* A merge has what the device had, and nothing else that the server has   *)
(* never had.                                                              *)
LEMMA MergeContains ==
    ASSUME CopiesAreNew, NEW e \in Nat, NEW c \in Nat, NEW sn, NEW h, NEW server, NEW local, NEW bs,
           Written(server, e, c), Written(local, e, c), Written(bs, e, c),
           \E n \in DOMAIN h : h[n] = server, \E n \in DOMAIN h : h[n] = bs,
           NEW c2 \in Nat, c <= c2, Written(Reconciled(server, local, bs, c + 1), e, c2)
    PROVE  LET merged == Reconciled(server, local, bs, c + 1)
           IN  Contained(local, merged, e, c2, sn, h) /\ Contained(merged, local, e, c2, sn, h)
<1> DEFINE held == DOMAIN ThreeWay(server, local, bs)
           copied == Copies(server, local, bs, c + 1)
           merged == Reconciled(server, local, bs, c + 1)
           wins == LocalWins(server, local, bs)
           clashes == Conflicts(server, local, bs) \ Setting
<1>1. /\ DOMAIN merged = held \cup DOMAIN copied
      /\ \A x \in held : x \notin DOMAIN copied => merged[x] = ThreeWay(server, local, bs)[x]
      /\ \A x \in DOMAIN copied : merged[x] = copied[x]
  BY DEF Reconciled, With
<1>2. /\ held = (DOMAIN server \cup wins) \ LocalDrops(server, local, bs)
      /\ \A x \in held : ThreeWay(server, local, bs)[x] = IF x \in wins THEN local[x] ELSE server[x]
  BY DEF ThreeWay
<1>3. /\ DOMAIN copied = {Fresh(d, c + 1) : d \in clashes}
      /\ \A y \in DOMAIN copied : copied[y] = local[Original(y)]
      /\ clashes \subseteq Documents(local)
  BY DEF Copies, Conflicts, Documents
<1>4. wins \subseteq DOMAIN local /\ \A x \in wins : x \notin LocalDrops(server, local, bs)
  BY DEF LocalWins, LocalDrops
<1>5. Written(merged, e, c2)
  OBVIOUS
<1>6. Written(local, e, c2)
  BY WrittenStays
<1> HIDE DEF merged, copied, held, wins, clashes
<1>7. ASSUME NEW y \in DOMAIN copied PROVE \E d \in clashes : y = Fresh(d, c + 1) /\ Original(y) = d /\ y[2] = c + 1
  BY <1>3 DEF Fresh, Original
<1>8. ASSUME NEW x \in DOMAIN local PROVE x \notin DOMAIN copied
  <2>1. SUFFICES ASSUME x \in DOMAIN copied PROVE FALSE
    OBVIOUS
  <2>2. PICK d \in clashes : x = Fresh(d, c + 1) /\ x[2] = c + 1
    BY <1>7, <2>1
  <2>3. x \in Doc \cup Setting \/ x[2] \in 0 .. c
    BY DEF Written
  <2> QED BY <2>2, <2>3 DEF CopiesAreNew
<1>9. ASSUME NEW x \in Documents(local), local[x] # 0
      PROVE  Says(merged, local[x], sn) \/ Surfaced(local[x], sn, h)
  <2>0. x \in DOMAIN local /\ x \notin Setting /\ local[x] # Absent
    BY SyncAssumption DEF Documents, Written, SyncAssumption
  <2>1. CASE ~Changed(local, bs, x)
    <3>1. x \in Documents(bs) /\ bs[x] = local[x]
      BY <2>0, <2>1 DEF Changed, At, Documents
    <3>2. Says(bs, local[x], sn)
      BY <3>1 DEF Says, Words
    <3> QED BY <3>2 DEF Surfaced
  <2>2. CASE x \in wins
    <3>1. x \in Documents(merged) /\ merged[x] = local[x]
      BY <1>1, <1>2, <1>4, <1>8, <2>0, <2>2 DEF Documents
    <3> QED BY <3>1 DEF Says, Words
  <2>3. CASE Changed(local, bs, x) /\ x \notin wins
    <3>1. x \in clashes
      BY <2>0, <2>3 DEF wins, LocalWins, clashes, Conflicts
    <3>2. Fresh(x, c + 1) \in DOMAIN copied /\ Original(Fresh(x, c + 1)) = x
      BY <1>3, <3>1 DEF Fresh, Original
    <3>3. merged[Fresh(x, c + 1)] = local[x] /\ Fresh(x, c + 1) \in DOMAIN merged
      BY <1>1, <1>3, <3>2
    <3>4. Fresh(x, c + 1) \in Documents(merged)
      BY <3>3 DEF Documents, CopiesAreNew
    <3> QED BY <3>3, <3>4 DEF Says, Words
  <2> QED BY <2>1, <2>2, <2>3
<1>10. ASSUME NEW y \in Documents(merged)
       PROVE  Says(local, merged[y], sn) \/ Surfaced(merged[y], sn, h)
  <2>0. y \in DOMAIN merged /\ y \notin Setting
    BY DEF Documents
  <2>1. CASE y \in DOMAIN copied
    <3>1. Original(y) \in Documents(local) /\ merged[y] = local[Original(y)]
      BY <1>1, <1>3, <1>7, <2>1
    <3> QED BY <3>1 DEF Says, Words
  <2>2. CASE y \notin DOMAIN copied /\ y \in wins
    <3>1. y \in Documents(local) /\ merged[y] = local[y]
      BY <1>1, <1>2, <1>4, <2>0, <2>2 DEF Documents
    <3> QED BY <3>1 DEF Says, Words
  <2>3. CASE y \notin DOMAIN copied /\ y \notin wins
    <3>1. y \in Documents(server) /\ merged[y] = server[y]
      BY <1>1, <1>2, <2>0, <2>3 DEF Documents
    <3>2. Says(server, merged[y], sn)
      BY <3>1 DEF Says, Words
    <3> QED BY <3>2 DEF Surfaced
  <2> QED BY <2>1, <2>2, <2>3
<1>11. \A x \in Words(local) \ {0} : Says(merged, x, sn) \/ Surfaced(x, sn, h)
  BY <1>9 DEF Words
<1>12. \A x \in Words(merged) \ {0} : Says(local, x, sn) \/ Surfaced(x, sn, h)
  BY <1>10 DEF Words
<1> QED BY <1>5, <1>6, <1>11, <1>12 DEF Contained, merged

-----------------------------------------------------------------------------
(* What a step leaves in order.                                            *)

(* What was known of words and revisions still is.                         *)
Moves == StoreInv /\ Grows /\ WordsKnown' /\ KnowledgeInv /\ KnowledgeInv' /\ Extends(history', history)

LEMMA WithinStays ==
    ASSUME Moves PROVE \A a, b : Within(a, b) => Later(a, b)
<1>0. /\ edits \in Nat /\ edits' \in Nat /\ copies \in Nat /\ copies' \in Nat
      /\ edits <= edits' /\ copies <= copies' /\ \A x \in 0 .. edits : seen'[x] = seen[x]
  BY DEF Moves, Grows
<1>1. DOMAIN history = 1 .. Len(history) /\ DOMAIN history' = 1 .. Len(history')
  BY DEF Moves, KnowledgeInv, Families, IsSequence
<1>2. \A n \in DOMAIN history : n \in DOMAIN history' /\ history'[n] = history[n] /\ Written(history[n], edits, copies)
  BY <1>1 DEF Moves, Extends, StoreInv, WordsKnown
<1>3. ASSUME NEW ws, Written(ws, edits, copies), NEW x, Says(ws, x, seen) PROVE Says(ws, x, seen')
  <2>1. PICK v \in Words(ws) : x = v \/ x \in seen[v]
    BY <1>3 DEF Says
  <2>2. v \in 0 .. edits
    BY <1>3 DEF Words, Written
  <2> QED BY <1>0, <2>1, <2>2 DEF Says
<1>4. ASSUME NEW x, Surfaced(x, seen, history) PROVE Surfaced(x, seen', history')
  <2>1. PICK n \in DOMAIN history : Says(history[n], x, seen)
    BY <1>4 DEF Surfaced
  <2> QED BY <1>2, <1>3, <2>1 DEF Surfaced
<1>5. ASSUME NEW a, NEW b, Within(a, b) PROVE Later(a, b)
  <2>1. /\ Written(a, edits, copies) /\ Written(b, edits, copies)
        /\ \A x \in Words(a) \ {0} : Says(b, x, seen) \/ Surfaced(x, seen, history)
    BY <1>5 DEF Within, Contained
  <2>2. Written(a, edits', copies') /\ Written(b, edits', copies')
    BY <1>0, <2>1, WrittenStays
  <2>3. \A x \in Words(a) \ {0} : Says(b, x, seen') \/ Surfaced(x, seen', history')
    BY <1>3, <1>4, <2>1
  <2> QED BY <2>2, <2>3 DEF Later, Contained
<1> QED BY <1>5

LEMMA LaterThrough ==
    ASSUME Moves PROVE \A a, b, d : Later(a, b) /\ Later(b, d) => Later(a, d)
<1>1. edits' \in Nat /\ Ordered(edits', seen') /\ \A n \in DOMAIN history' : Written(history'[n], edits', copies')
  BY DEF Moves, Grows, WordsKnown
<1>2. ASSUME NEW a, NEW b, NEW d, Later(a, b), Later(b, d) PROVE Later(a, d)
  BY <1>1, <1>2, ContainedThrough DEF Later
<1> QED BY <1>2

LEMMA LaterItself ==
    ASSUME NEW a, Written(a, edits', copies') PROVE Later(a, a)
BY ContainedItself DEF Later

LEMMA LaterWritten ==
    ASSUME NEW a, NEW b, Later(a, b) PROVE Written(a, edits', copies') /\ Written(b, edits', copies')
BY DEF Later, Contained

(* What was a revision is contained in all that is written.                *)
LEMMA LaterRevision ==
    ASSUME Moves, NEW ws, NEW r, Known(ws, r, history'), NEW b, Written(b, edits', copies')
    PROVE  Later(ws, b)
<1>1. r + 1 \in DOMAIN history' /\ ws = history'[r + 1]
  BY DEF Moves, KnowledgeInv, Families, IsSequence, Known
<1> QED BY <1>1, RevisionContained DEF Moves, WordsKnown, Later

(* The words that are known, and the step that adds none.                  *)
LEMMA SameWords ==
    ASSUME StoreInv, KnowledgeInv, KnowledgeInv', UNCHANGED <<history, edits, copies, seen>>,
           late' \subseteq late, timer' \in [Tab -> BOOLEAN], DOMAIN status' = Tab
    PROVE  Moves
<1>1. Grows
  BY SyncAssumption DEF StoreInv, WordsKnown, Grows, Edit, SyncAssumption
<1>2. WordsKnown'
  BY DEF StoreInv, WordsKnown
<1>3. Extends(history', history)
  BY ExtendsItself DEF KnowledgeInv, Families
<1> QED BY <1>1, <1>2, <1>3 DEF Moves

LEMMA RecordIsThere ==
    ASSUME NullNone, NEW ws, NEW bs, NEW r, NEW pending PROVE Record(ws, bs, r, pending) # None
<1> DEFINE record == [ws |-> ws, base |-> bs, rev |-> r, pending |-> pending]
<1>1. IsFunction(record)
  BY DEF IsFunction
<1> HIDE DEF record
<1>2. record # None
  BY <1>1 DEF IsFunction, NullNone
<1> QED BY <1>2 DEF record, Record

(* The puts of v are those it had, but for the n oldest.                   *)
Shifted(v, n) ==
    /\ Len(writes'[v]) = Len(writes[v]) - n
    /\ \A i \in Live(v)' : i + n \in Live(v) /\ writes'[v][i] = writes[v][i + n]

LEMMA FitPuts ==
    ASSUME NEW v, NEW q, NEW ph, NEW ps, NEW bs, NEW h, Fit(v, q, ph, ps, bs, h)
    PROVE  /\ DOMAIN q = 1 .. Len(q) /\ Len(q) \in Nat /\ IsSequence(q)
           /\ \A i \in DOMAIN q : i \in Nat /\ i > 0 /\ i <= Len(q)
BY DEF Fit, IsSequence

LEMMA LivePuts ==
    ASSUME KnowledgeInv, NEW v \in Device
    PROVE  /\ DOMAIN writes[v] = 1 .. Len(writes[v]) /\ Len(writes[v]) \in Nat /\ IsSequence(writes[v])
           /\ Live(v) \subseteq 1 .. Len(writes[v])
           /\ \A i \in Live(v) :
                 /\ Awaited(v, writes[v][i], phase, push, base) /\ Remembers(writes[v][i].record, history)
                 /\ DeviceOf[writes[v][i].tab] = v /\ writes[v][i].then # "aborted" /\ writes[v][i].tab \in Tab
                 /\ \A j \in Live(v) : i # j => ~Rivals(writes[v][i], writes[v][j])
<1>1. Fit(v, writes[v], phase, push, base, history)
  BY DEF KnowledgeInv, PutsFit
<1>2. /\ DOMAIN writes[v] = 1 .. Len(writes[v]) /\ Len(writes[v]) \in Nat /\ IsSequence(writes[v])
      /\ Live(v) \subseteq 1 .. Len(writes[v])
  BY <1>1, FitPuts DEF Live
<1>3. ASSUME NEW i \in Live(v)
      PROVE  /\ Awaited(v, writes[v][i], phase, push, base) /\ Remembers(writes[v][i].record, history)
             /\ writes[v][i].then # "aborted"
             /\ \A j \in Live(v) : i # j => ~Rivals(writes[v][i], writes[v][j])
  BY <1>1 DEF Live, Fit
<1> QED BY <1>2, <1>3 DEF Awaited

(* After a step the puts that are live are numbered as they were before.   *)
LEMMA LiveLater ==
    ASSUME KnowledgeInv', NEW v \in Device
    PROVE  /\ DOMAIN writes'[v] = 1 .. Len(writes'[v]) /\ Len(writes'[v]) \in Nat
           /\ \A i \in Live(v)' : i \in Nat /\ i > 0 /\ i <= Len(writes'[v])
<1>1. Fit(v, writes'[v], phase', push', base', history')
  BY DEF KnowledgeInv, PutsFit
<1> QED BY <1>1, FitPuts DEF Live

(* The puts of a device with one tab are the tab's.                        *)
LEMMA OwnPuts ==
    ASSUME KnowledgeInv, OneTabEach, NEW t \in Tab, NEW i \in Live(DeviceOf[t])
    PROVE  LET put == writes[DeviceOf[t]][i] IN
           /\ put.tab = t /\ put.then \in {"load", "save", "saved", "merged"}
           /\ put.then = "load" => phase[t] = "store"
           /\ put.then = "save" => phase[t] = "open"
           /\ put.then \in {"saved", "merged"} => push[t] # None /\ push[t].at = "store" /\ phase[t] = "open"
           /\ put.then = "saved" => base[t] = push[t].candidate
<1>1. DeviceOf[t] \in Device
  BY SyncAssumption DEF SyncAssumption
<1> DEFINE put == writes[DeviceOf[t]][i]
<1>2. /\ Awaited(DeviceOf[t], put, phase, push, base) /\ DeviceOf[put.tab] = DeviceOf[t]
      /\ put.then # "aborted" /\ put.tab \in Tab
  BY <1>1, LivePuts
<1>3. put.tab = t
  BY <1>2 DEF OneTabEach
<1>4. push[t] # None => phase[t] = "open"
  BY DEF KnowledgeInv, TabKnows
<1> QED BY <1>2, <1>3, <1>4 DEF Awaited

LEMMA DeviceShifts ==
    ASSUME Moves, NEW v \in Device, NEW n \in {0, 1}, Shifted(v, n),
           \/ cache'[v] = cache[v]
           \/ n = 1 /\ 1 \in Live(v) /\ cache'[v] = writes[v][1].record
    PROVE  DeviceStores(v)' /\ Stock(v)' \subseteq Stock(v)
<1>1. DeviceStores(v) /\ \A a, b : Within(a, b) => Later(a, b)
  BY WithinStays DEF Moves, StoreInv
<1>2. Live(v) \subseteq Nat /\ \A i \in Live(v)' : i \in Nat /\ i > 0
  BY LivePuts, LiveLater DEF Moves
<1>3. Stock(v)' \subseteq Stock(v)
  BY DEF Stock, Shifted
<1>4. \A ws \in Stock(v)' : Later(ws, ws)
  BY <1>1, <1>3 DEF DeviceStores
<1>5. cache'[v] # None => Sound(cache'[v])
  BY <1>1 DEF DeviceStores
<1>6. ASSUME NEW j \in Live(v)'
      PROVE  /\ Sound(writes'[v][j].record)
             /\ cache'[v] # None => Later(cache'[v].ws, writes'[v][j].record.ws)
             /\ \A i \in Live(v)' : i < j => Later(writes'[v][i].record.ws, writes'[v][j].record.ws)
  <2>1. j + n \in Live(v) /\ writes'[v][j] = writes[v][j + n]
    BY DEF Shifted
  <2>2. \A i \in Live(v) : i < j + n => Later(writes[v][i].record.ws, writes[v][j + n].record.ws)
    BY <1>1, <2>1 DEF DeviceStores
  <2>3. \A i \in Live(v)' : i < j => i + n \in Live(v) /\ writes'[v][i] = writes[v][i + n] /\ i + n < j + n
    BY <1>2 DEF Shifted
  <2>4. \A i \in Live(v)' : i < j => Later(writes'[v][i].record.ws, writes'[v][j].record.ws)
    BY <2>1, <2>2, <2>3
  <2>5. cache'[v] # None => Later(cache'[v].ws, writes'[v][j].record.ws)
    <3>1. CASE cache'[v] = cache[v]
      BY <1>1, <2>1, <3>1 DEF DeviceStores
    <3>2. CASE n = 1 /\ 1 \in Live(v) /\ cache'[v] = writes[v][1].record
      <4>1. 1 < j + n
        BY <1>2, <3>2
      <4> QED BY <2>1, <2>2, <3>2, <4>1
    <3> QED BY <3>1, <3>2
  <2> QED BY <1>1, <2>1, <2>4, <2>5 DEF DeviceStores
<1> QED BY <1>3, <1>4, <1>5, <1>6 DEF DeviceStores, Within, Later

(* A put is issued that takes nothing from those before it.                *)
LEMMA DeviceIssues ==
    ASSUME Moves, NEW t \in Tab, NEW record, NEW then, then # "aborted", cache' = cache,
           writes' = Issue(t, writes, record, then), Sound(record), Later(record.ws, record.ws),
           \A ws \in Stock(DeviceOf[t]) : Later(ws, record.ws)
    PROVE  LET v == DeviceOf[t]
               last == Len(writes[v]) + 1
           IN  /\ DeviceStores(v)' /\ Stock(v)' \subseteq Stock(v) \cup {record.ws}
               /\ Len(writes'[v]) = last
               /\ \A i \in Live(v)' : (i \in Live(v) /\ i # last /\ writes'[v][i] = writes[v][i]) \/ i = last
               /\ writes'[v][last].record = record /\ writes'[v][last].then = then
<1> DEFINE v == DeviceOf[t]
           w == [tab |-> t, record |-> record, then |-> then]
           q == writes[v]
           last == Len(q) + 1
<1>1. v \in Device /\ writes'[v] = Append(q, w) /\ cache'[v] = cache[v]
  BY SyncAssumption DEF SyncAssumption, Issue, Moves, KnowledgeInv, Families
<1>2. /\ Len(Append(q, w)) = Len(q) + 1 /\ Len(q) \in Nat
      /\ DOMAIN q = 1 .. Len(q) /\ DOMAIN Append(q, w) = 1 .. Len(q) + 1
      /\ \A i \in DOMAIN q : Append(q, w)[i] = q[i]
      /\ Append(q, w)[Len(q) + 1] = w
  <2>1. IsSequence(q)
    BY <1>1, LivePuts DEF Moves
  <2> QED BY <2>1, AppendIsSequence
<1>3. w.record = record /\ w.then = then
  OBVIOUS
<1>4. DeviceStores(v) /\ \A a, b : Within(a, b) => Later(a, b)
  BY <1>1, WithinStays DEF Moves, StoreInv
<1> HIDE DEF v, w, q
<1>5. /\ last \in DOMAIN writes'[v] /\ writes'[v][last] = w /\ last \in Nat
      /\ \A i \in DOMAIN writes'[v] : i = last \/ (i \in DOMAIN q /\ i # last /\ i < last /\ writes'[v][i] = q[i])
  BY <1>1, <1>2
<1>6. q = writes[v]
  BY DEF q
<1>7. \A i \in Live(v)' : (i \in Live(v) /\ i # last /\ i < last /\ writes'[v][i] = writes[v][i]) \/ i = last
  BY <1>5, <1>6 DEF Live
<1>8. Stock(v)' \subseteq Stock(v) \cup {record.ws}
  <2>1. \A i \in Live(v)' : \/ i \in Live(v) /\ writes'[v][i].record.ws = writes[v][i].record.ws
                            \/ writes'[v][i].record.ws = record.ws
    BY <1>3, <1>5, <1>7
  <2>2. \A i \in Live(v)' : writes'[v][i].record.ws \in Stock(v) \cup {record.ws}
    BY <2>1 DEF Stock
  <2>3. cache'[v] # None => cache'[v].ws \in Stock(v)
    BY <1>1 DEF Stock
  <2> QED BY <2>2, <2>3 DEF Stock
<1>9. \A ws \in Stock(v)' : Later(ws, ws)
  BY <1>4, <1>8 DEF DeviceStores
<1>10. cache'[v] # None => Sound(cache'[v])
  BY <1>1, <1>4 DEF DeviceStores
<1>11. ASSUME NEW j \in Live(v)'
       PROVE  /\ Sound(writes'[v][j].record)
              /\ cache'[v] # None => Later(cache'[v].ws, writes'[v][j].record.ws)
              /\ \A i \in Live(v)' : i < j => Later(writes'[v][i].record.ws, writes'[v][j].record.ws)
  <2>1. CASE j = last
    <3>1. writes'[v][j].record = record
      BY <1>3, <1>5, <2>1
    <3>2. \A ws \in Stock(v) : Later(ws, record.ws)
      BY DEF v
    <3>3. cache'[v] # None => Later(cache'[v].ws, record.ws)
      BY <1>1, <3>2 DEF Stock
    <3>4. \A i \in Live(v)' : i < j => Later(writes'[v][i].record.ws, record.ws)
      BY <1>7, <2>1, <3>2 DEF Stock
    <3> QED BY <3>1, <3>3, <3>4
  <2>2. CASE j # last
    <3>1. j \in Live(v) /\ j < last /\ writes'[v][j] = writes[v][j]
      BY <1>7, <2>2
    <3>0. j \in Nat /\ last \in Nat
      BY <1>1, <1>5, LiveLater DEF Moves
    <3>2. \A i \in Live(v)' : i < j => i \in Live(v) /\ writes'[v][i] = writes[v][i]
      BY <1>7, <3>0, <3>1
    <3> QED BY <1>1, <1>4, <3>1, <3>2 DEF DeviceStores
  <2> QED BY <2>1, <2>2
<1>12. DeviceStores(v)'
  BY <1>9, <1>10, <1>11 DEF DeviceStores, Within, Later
<1>13. Len(writes'[v]) = last
  BY <1>1, <1>2
<1> QED BY <1>3, <1>5, <1>6, <1>7, <1>8, <1>12, <1>13 DEF v

-----------------------------------------------------------------------------
(* What a step leaves of a tab.                                            *)

(* The push of t goes on, with what it had and for the same save.          *)
PushGoesOn(t) ==
    push'[t] # None =>
       /\ push[t] # None
       /\ push'[t].ws = push[t].ws /\ (push'[t].newest <=> push[t].newest)
       /\ Later(push[t].candidate, push'[t].candidate) /\ Later(push'[t].candidate, push[t].candidate)
       /\ push'[t].at = "store" => push'[t].candidate = push[t].candidate

LEMMA PutsStayInOrder ==
    ASSUME Moves, OneTabEach, NEW t \in Tab, TabStores(t), NEW n \in {0, 1}, Shifted(DeviceOf[t], n),
           saves'[t] = saves[t], PushGoesOn(t)
    PROVE  PutsInOrder(t)'
<1> DEFINE v == DeviceOf[t]
<1>1. v \in Device
  BY SyncAssumption DEF SyncAssumption
<1>2. ASSUME NEW i \in Live(v)'
      PROVE  LET put == writes'[v][i] IN
             /\ put.then = "load" => put.record.ws = put.record.base
             /\ put.then = "save" => /\ put.record.pending /\ i = Len(writes'[v])
                                     /\ \E k \in DOMAIN saves[t] : Resumed(t, k) /\ put.record.ws = saves[t][k].ws
             /\ put.then = "merged" => put.record.pending /\ put.record.ws = push'[t].candidate
             /\ saves[t] # << >> => Uncached(saves[t]) # {}
  <2>1. i + n \in Live(v) /\ writes'[v][i] = writes[v][i + n] /\ Len(writes'[v]) = Len(writes[v]) - n
    BY DEF Shifted
  <2>2. i \in Nat /\ Len(writes'[v]) \in Nat /\ Len(writes[v]) \in Nat
    BY <1>1, LiveLater, LivePuts DEF Moves
  <2>3. i + n = Len(writes[v]) => i = Len(writes'[v])
    BY <2>1, <2>2
  <2>4. writes'[v][i].then = "merged" => push'[t] # None /\ push'[t].at = "store"
    <3>1. Awaited(v, writes'[v][i], phase', push', base') /\ writes'[v][i].then # "aborted"
      BY <1>1 DEF Moves, KnowledgeInv, PutsFit, Fit, Live
    <3>2. writes'[v][i].tab = t
      BY <3>1 DEF Awaited, OneTabEach
    <3> QED BY <3>1, <3>2 DEF Awaited
  <2>5. LET put == writes[v][i + n] IN
        /\ put.then = "load" => put.record.ws = put.record.base
        /\ put.then = "save" => /\ put.record.pending /\ i + n = Len(writes[v])
                                /\ \E k \in DOMAIN saves[t] : Resumed(t, k) /\ put.record.ws = saves[t][k].ws
        /\ put.then = "merged" => put.record.pending /\ put.record.ws = push[t].candidate
        /\ saves[t] # << >> => Uncached(saves[t]) # {}
    BY <2>1 DEF TabStores, PutsInOrder
  <2>6. writes'[v][i].then = "merged" => push'[t].candidate = push[t].candidate
    BY <2>4 DEF PushGoesOn
  <2> QED BY <2>1, <2>3, <2>5, <2>6
<1>3. \A k : Resumed(t, k)' <=> Resumed(t, k)
  BY DEF Resumed
<1> QED BY <1>2, <1>3 DEF PutsInOrder

LEMMA SavesStayInOrder ==
    ASSUME Moves, NEW t \in Tab, SavesInOrder(t), saves'[t] = saves[t], Later(view[t], view'[t])
    PROVE  SavesInOrder(t)'
<1>1. ASSUME NEW j \in DOMAIN saves[t]
      PROVE  /\ saves[t][j].newest <=> j = Len(saves[t])
             /\ Later(saves[t][j].ws, view'[t])
             /\ \A i \in 1 .. j : /\ Later(saves[t][i].ws, saves[t][j].ws)
                                  /\ saves[t][j].cached => saves[t][i].cached
  BY WithinStays, LaterThrough DEF SavesInOrder
<1> QED BY <1>1 DEF SavesInOrder, Within, Later

LEMMA PushStaysInOrder ==
    ASSUME Moves, NEW t \in Tab, PushInOrder(t), saves'[t] = saves[t], PushGoesOn(t), Later(view[t], view'[t])
    PROVE  PushInOrder(t)'
<1>1. ASSUME push'[t] # None
      PROVE  /\ Later(push'[t].ws, push'[t].candidate) /\ Later(push'[t].candidate, push'[t].ws)
             /\ Later(push'[t].candidate, view'[t])
             /\ push'[t].newest <=> saves'[t] = << >>
  <2>1. /\ Later(push[t].ws, push[t].candidate) /\ Later(push[t].candidate, push[t].ws)
        /\ Later(push[t].candidate, view[t]) /\ (push[t].newest <=> saves[t] = << >>)
    BY <1>1, WithinStays DEF PushInOrder, PushGoesOn
  <2>2. /\ push'[t].ws = push[t].ws /\ (push'[t].newest <=> push[t].newest)
        /\ Later(push[t].candidate, push'[t].candidate) /\ Later(push'[t].candidate, push[t].candidate)
    BY <1>1 DEF PushGoesOn
  <2>3. Later(push[t].ws, push'[t].candidate) /\ Later(push'[t].candidate, push[t].ws)
    BY <2>1, <2>2, LaterThrough
  <2>4. Later(push'[t].candidate, view'[t])
    BY <2>1, <2>2, LaterThrough
  <2> QED BY <2>1, <2>2, <2>3, <2>4
<1> QED BY <1>1 DEF PushInOrder, Within, Later

LEMMA ScreenStillHolds ==
    ASSUME Moves, NEW t \in Tab, ScreenHolds(t), Stock(DeviceOf[t])' \subseteq Stock(DeviceOf[t]),
           saves'[t] = saves[t], PushGoesOn(t), Later(view[t], view'[t])
    PROVE  ScreenHolds(t)'
<1>1. ASSUME NEW ws \in Stock(DeviceOf[t])
      PROVE  /\ Later(ws, view'[t])
             /\ saves[t] # << >> => Later(ws, LastSave(t).ws)
             /\ push'[t] # None /\ saves[t] = << >> => Later(ws, push'[t].candidate)
  BY WithinStays, LaterThrough DEF ScreenHolds, PushGoesOn
<1>2. LastSave(t)' = LastSave(t)
  BY DEF LastSave
<1> QED BY <1>1, <1>2 DEF ScreenHolds, Within, Later

(* The record keeps what it holds until another replaces it.               *)
LEMMA RecordStays ==
    ASSUME Moves, NEW t \in Tab, cache'[DeviceOf[t]] = cache[DeviceOf[t]], NEW a, NEW b,
           InRecord(t, a), Later(b, a)
    PROVE  /\ cache'[DeviceOf[t]] # None /\ cache'[DeviceOf[t]].pending
           /\ Later(b, cache'[DeviceOf[t]].ws) /\ Later(a, cache'[DeviceOf[t]].ws)
BY WithinStays, LaterThrough DEF InRecord

(* The same saves, and no new record: what is stored stays so.             *)
LEMMA WorkStaysStored ==
    ASSUME Moves, NEW t \in Tab, WorkStored(t), cache'[DeviceOf[t]] = cache[DeviceOf[t]],
           phase[t] = "open", SavesInOrder(t), saves'[t] = saves[t], PushGoesOn(t),
           push'[t] # None /\ push'[t].at # "store" => push[t].at # "store"
    PROVE  WorkStored(t)'
<1> DEFINE v == DeviceOf[t]
<1>1. ASSUME saves[t] # << >>, Uncached(saves[t]) = {}
      PROVE  cache'[v] # None /\ cache'[v].pending /\ Later(LastSave(t).ws, cache'[v].ws)
  BY <1>1, WithinStays DEF WorkStored, InRecord
<1>2. ASSUME push'[t] # None, saves[t] = << >>, push'[t].at # "store"
      PROVE  cache'[v] # None /\ cache'[v].pending /\ Later(push'[t].candidate, cache'[v].ws)
  <2>1. InRecord(t, push[t].candidate) /\ Later(push'[t].candidate, push[t].candidate)
    BY <1>2 DEF WorkStored, PushGoesOn
  <2> QED BY <2>1, RecordStays
<1>3. LastSave(t)' = LastSave(t)
  BY DEF LastSave
<1> QED BY <1>1, <1>2, <1>3 DEF WorkStored, InRecord, Within, Later

(* The tab goes on, with the saves it had and no put but those that wait.  *)
LEMMA TabGoesOn ==
    ASSUME Moves, OneTabEach, NEW t \in Tab, phase[t] = "open", phase'[t] = "open",
           NEW n \in {0, 1}, Shifted(DeviceOf[t], n), Stock(DeviceOf[t])' \subseteq Stock(DeviceOf[t]),
           saves'[t] = saves[t], PushGoesOn(t), Later(view[t], view'[t]), WorkStored(t)', ScreenSaved(t)'
    PROVE  TabStores(t)'
<1>1. TabStores(t) /\ SavesInOrder(t) /\ PushInOrder(t) /\ ScreenHolds(t)
  BY DEF Moves, StoreInv, TabStores
<1>2. PutsInOrder(t)' /\ SavesInOrder(t)' /\ PushInOrder(t)' /\ ScreenHolds(t)'
  BY <1>1, PutsStayInOrder, SavesStayInOrder, PushStaysInOrder, ScreenStillHolds
<1>3. Later(view'[t], view'[t])
  BY LaterWritten, LaterItself
<1> QED BY <1>2, <1>3 DEF TabStores, Within, Later

(* Nothing of the device changes but what its screen shows and what its    *)
(* push waits for.                                                         *)
StillPushed(t) ==
    /\ push'[t] = None <=> push[t] = None
    /\ push[t] # None =>
          /\ push'[t].ws = push[t].ws /\ push'[t].newest = push[t].newest
          /\ push'[t].candidate = push[t].candidate
          /\ push'[t].at # "store" => push[t].at # "store"

LEMMA DeviceQuiet ==
    ASSUME Moves, NEW v \in Device, cache'[v] = cache[v], writes'[v] = writes[v]
    PROVE  Shifted(v, 0) /\ Stock(v)' = Stock(v) /\ DeviceStores(v)'
<1>1. Live(v)' = Live(v)
  BY DEF Live
<1>2. \A i \in Live(v) : i + 0 = i
  BY LivePuts DEF Moves
<1>3. Len(writes[v]) \in Nat
  BY LivePuts DEF Moves
<1>4. Shifted(v, 0)
  BY <1>1, <1>2, <1>3 DEF Shifted
<1>5. Stock(v)' = Stock(v)
  BY <1>1 DEF Stock
<1> QED BY <1>4, <1>5, DeviceShifts

LEMMA TabQuiet ==
    ASSUME Moves, OneTabEach, NEW t \in Tab, cache'[DeviceOf[t]] = cache[DeviceOf[t]],
           NEW n \in {0, 1}, Shifted(DeviceOf[t], n), Stock(DeviceOf[t])' \subseteq Stock(DeviceOf[t]),
           phase'[t] = phase[t], phase[t] = "load" => fetched'[t].cached = fetched[t].cached,
           saves'[t] = saves[t], StillPushed(t),
           phase[t] = "open" => Later(view[t], view'[t]) /\ ScreenSaved(t)'
    PROVE  TabStores(t)'
<1>1. TabStores(t)
  BY DEF Moves, StoreInv
<1>2. CASE phase[t] = "open"
  <2>1. PushInOrder(t) /\ WorkStored(t) /\ SavesInOrder(t)
    BY <1>1, <1>2 DEF TabStores
  <2>2. push[t] # None => Later(push[t].candidate, push[t].candidate)
    BY <2>1, WithinStays, LaterWritten, LaterItself DEF PushInOrder
  <2>3. PushGoesOn(t)
    BY <2>2 DEF PushGoesOn, StillPushed
  <2>4. WorkStored(t)'
    BY <1>2, <2>1, <2>3, WorkStaysStored DEF StillPushed
  <2> QED BY <1>2, <2>3, <2>4, TabGoesOn
<1>3. CASE phase[t] # "open"
  <2>1. push[t] = None /\ push'[t] = None
    BY <1>3, LoadsAlone DEF Moves, StillPushed
  <2>2. PutsInOrder(t)'
    BY <1>1, <2>1, PutsStayInOrder DEF PushGoesOn
  <2> QED BY <1>1, <1>3, <2>2 DEF TabStores
<1> QED BY <1>2, <1>3

(* What is saved stays so while the screen and what waits stay the same.   *)
LEMMA ScreenStaysSaved ==
    ASSUME Moves, NEW t \in Tab, phase[t] = "open", cache'[DeviceOf[t]] = cache[DeviceOf[t]],
           view'[t] = view[t], timer'[t] = timer[t], status'[t] = status[t], saves'[t] = saves[t], StillPushed(t)
    PROVE  Later(view[t], view'[t]) /\ ScreenSaved(t)'
<1>1. Within(view[t], view[t]) /\ ScreenSaved(t)
  BY DEF Moves, StoreInv, TabStores
<1>2. LastSave(t)' = LastSave(t)
  BY DEF LastSave
<1>3. ScreenSaved(t)'
  BY <1>1, <1>2, WithinStays DEF ScreenSaved, InRecord, StillPushed, Within, Later
<1> QED BY <1>1, <1>3, WithinStays

(* A step of t on its own device keeps what the others store.              *)
LEMMA StoreStep ==
    ASSUME Moves, OneTabEach, NEW t \in Tab, StepOf(t), Elsewhere(t),
           \A u \in Tab \ {t} : timer'[u] = timer[u] /\ status'[u] = status[u],
           DeviceStores(DeviceOf[t])', TabStores(t)'
    PROVE  StoreInv'
<1>1. ASSUME NEW v \in Device PROVE DeviceStores(v)'
  <2>1. CASE v = DeviceOf[t]
    BY <2>1
  <2>2. CASE v # DeviceOf[t]
    BY <2>2, DeviceQuiet DEF Elsewhere
  <2> QED BY <2>1, <2>2
<1>2. ASSUME NEW u \in Tab \ {t} PROVE TabStores(u)'
  <2>1. Untouched(u) /\ DeviceOf[u] # DeviceOf[t] /\ DeviceOf[u] \in Device
    BY SyncAssumption DEF SyncAssumption, StepOf, OneTabEach
  <2>2. cache'[DeviceOf[u]] = cache[DeviceOf[u]] /\ writes'[DeviceOf[u]] = writes[DeviceOf[u]]
    BY <2>1 DEF Elsewhere
  <2>3. Shifted(DeviceOf[u], 0) /\ Stock(DeviceOf[u])' = Stock(DeviceOf[u])
    BY <2>1, <2>2, DeviceQuiet
  <2>4. StillPushed(u)
    BY <2>1 DEF StillPushed, Untouched
  <2>5. phase[u] = "open" => Later(view[u], view'[u]) /\ ScreenSaved(u)'
    BY <2>1, <2>2, <2>4, ScreenStaysSaved DEF Untouched
  <2> QED BY <2>1, <2>2, <2>3, <2>4, <2>5, TabQuiet DEF Untouched
<1> QED BY <1>1, <1>2 DEF StoreInv, Moves

-----------------------------------------------------------------------------
(* load, and the author.                                                   *)

(* A tab that has no work waiting has none out of order.                   *)
LEMMA NothingWaits ==
    ASSUME NEW t \in Tab, phase'[t] = "open", saves'[t] = << >>, push'[t] = None, timer'[t] = TRUE,
           Live(DeviceOf[t])' = {}, Later(view'[t], view'[t]),
           \A ws \in Stock(DeviceOf[t])' : Later(ws, view'[t])
    PROVE  TabStores(t)'
BY DEF TabStores, PutsInOrder, SavesInOrder, PushInOrder, ScreenHolds, WorkStored, ScreenSaved, Within, Later

LEMMA OpenStores ==
    ASSUME OneTabEach, KnowledgeInv, KnowledgeInv', StoreInv, NEW t \in Tab, Open(t) PROVE StoreInv'
<1>1. /\ phase[t] = "closed"
      /\ phase' = [phase EXCEPT ![t] = "load"]
      /\ fetched' = [fetched EXCEPT ![t] = [cached |-> cache[DeviceOf[t]], remote |-> None]]
      /\ UNCHANGED <<history, late, cache, writes, view, timer, status, base, rev, saves, push,
                     edits, seen, copies>>
  BY DEF Open, serverVars, cacheVars, screenVars, fieldVars, queueVars, countVars
<1>2. Moves
  BY <1>1, SameWords DEF StoreInv, WordsKnown
<1>3. StepOf(t)
  BY <1>1, ExtendsItself DEF KnowledgeInv, Families, StepOf, Untouched
<1>4. phase'[t] = "load" /\ fetched'[t].cached = cache[DeviceOf[t]] /\ push'[t] = None
  BY <1>1, LoadsAlone DEF KnowledgeInv, Families
<1>5. DeviceOf[t] \in Device
  BY SyncAssumption DEF SyncAssumption
<1>6. Shifted(DeviceOf[t], 0) /\ DeviceStores(DeviceOf[t])'
  BY <1>1, <1>2, <1>5, DeviceQuiet
<1>7. PutsInOrder(t)'
  BY <1>1, <1>2, <1>4, <1>6, PutsStayInOrder DEF PushGoesOn, StoreInv, TabStores
<1>8. TabStores(t)'
  BY <1>1, <1>4, <1>7 DEF TabStores
<1> QED BY <1>1, <1>2, <1>3, <1>6, <1>8, StoreStep DEF Elsewhere

LEMMA FetchStores ==
    ASSUME OneTabEach, KnowledgeInv, KnowledgeInv', StoreInv, NEW t \in Tab, Fetch(t) PROVE StoreInv'
<1> DEFINE remote == [ws |-> Latest, rev |-> Revision]
<1>1. /\ phase[t] = "load"
      /\ fetched' = [fetched EXCEPT ![t].remote = remote]
      /\ UNCHANGED <<history, late, cache, writes, phase, view, timer, status, base, rev, saves, push,
                     edits, seen, copies>>
  BY DEF Fetch, serverVars, cacheVars, screenVars, fieldVars, queueVars, countVars
<1> HIDE DEF remote
<1>2. Moves
  BY <1>1, SameWords DEF StoreInv, WordsKnown
<1>3. StepOf(t)
  BY <1>1, ExtendsItself DEF KnowledgeInv, Families, StepOf, Untouched
<1>4. fetched'[t].cached = fetched[t].cached
  BY <1>1 DEF KnowledgeInv, Families, TabKnows
<1>5. DeviceOf[t] \in Device
  BY SyncAssumption DEF SyncAssumption
<1>6. Shifted(DeviceOf[t], 0) /\ DeviceStores(DeviceOf[t])' /\ Stock(DeviceOf[t])' = Stock(DeviceOf[t])
  BY <1>1, <1>2, <1>5, DeviceQuiet
<1>7. TabStores(t)'
  BY <1>1, <1>2, <1>4, <1>6, TabQuiet DEF StillPushed
<1> QED BY <1>1, <1>2, <1>3, <1>6, <1>7, StoreStep DEF Elsewhere

(* A pending record is shown, and is in the record; any other record was   *)
(* the server's, and what replaces it takes no words of an author's.       *)
LEMMA LoadedStores ==
    ASSUME NullNone, OneTabEach, KnowledgeInv, KnowledgeInv', StoreInv, NEW t \in Tab, Loaded(t)
    PROVE  StoreInv'
<1> DEFINE cached == fetched[t].cached
           remote == fetched[t].remote
           v == DeviceOf[t]
<1>1. /\ phase[t] = "load" /\ remote # None
      /\ UNCHANGED <<history, late, cache, saves, push, edits, seen, copies>>
  BY DEF Loaded, serverVars, queueVars, countVars
<1>2. /\ cached = cache[v] /\ saves[t] = << >> /\ push[t] = None
      /\ Known(remote.ws, remote.rev, history) /\ v \in Device
  BY <1>1, SyncAssumption DEF StoreInv, TabStores, KnowledgeInv, TabKnows, SyncAssumption
<1>3. Live(v) = {}
  BY <1>1, <1>2, OwnPuts
<1>4. DeviceStores(v) /\ (cache[v] # None => cache[v].ws \in Stock(v))
  BY <1>2 DEF StoreInv, Stock
<1> HIDE DEF cached, remote
<1>5. CASE Resumes(t)
  <2>1. /\ phase' = [phase EXCEPT ![t] = "open"] /\ view' = [view EXCEPT ![t] = cached.ws]
        /\ fetched' = [fetched EXCEPT ![t] = None] /\ timer' = [timer EXCEPT ![t] = TRUE]
        /\ base' = [base EXCEPT ![t] = cached.base] /\ rev' = [rev EXCEPT ![t] = cached.rev]
        /\ status' = [status EXCEPT ![t] = "unsynced"] /\ writes' = writes
    BY <1>5 DEF Loaded, Adopts, Shows, cached
  <2>2. Moves
    BY <1>1, <2>1, SameWords DEF StoreInv, WordsKnown
  <2>3. StepOf(t)
    BY <1>1, <2>1, ExtendsItself DEF KnowledgeInv, Families, StepOf, Untouched
  <2>4. phase'[t] = "open" /\ view'[t] = cache[v].ws /\ timer'[t] = TRUE /\ cache[v] # None
    BY <1>2, <1>5, <2>1 DEF KnowledgeInv, Families, StoreInv, WordsKnown, Resumes, cached
  <2>5. DeviceStores(v)' /\ Stock(v)' = Stock(v)
    BY <1>1, <1>2, <2>1, <2>2, DeviceQuiet
  <2>6. Live(v)' = {} /\ Stock(v) = {cache[v].ws}
    BY <1>3, <2>1, <2>4 DEF Live, Stock
  <2>7. Later(view'[t], view'[t])
    BY <1>4, <2>2, <2>4, WithinStays DEF DeviceStores
  <2>8. TabStores(t)'
    BY <1>1, <1>2, <2>4, <2>5, <2>6, <2>7, NothingWaits
  <2>9. \A u \in Tab \ {t} : timer'[u] = timer[u] /\ status'[u] = status[u]
    BY <2>1
  <2> QED BY <1>1, <2>1, <2>2, <2>3, <2>5, <2>8, <2>9, StoreStep DEF Elsewhere
<1>6. CASE ~Resumes(t)
  <2> DEFINE record == Record(remote.ws, remote.ws, remote.rev, FALSE)
  <2>1. /\ base' = [base EXCEPT ![t] = remote.ws] /\ rev' = [rev EXCEPT ![t] = remote.rev]
        /\ status' = [status EXCEPT ![t] = status[t]]
        /\ phase' = [phase EXCEPT ![t] = "store"] /\ UNCHANGED <<view, timer, fetched>>
        /\ writes' = Issue(t, writes, record, "load")
    BY <1>6 DEF Loaded, Adopts, screenVars, remote
  <2>2. record.ws = remote.ws /\ record.base = remote.ws /\ Sound(record)
    <3>1. record # None
      BY RecordIsThere
    <3> QED BY <3>1 DEF Record, Sound
  <2> HIDE DEF record
  <2>3. Moves
    BY <1>1, <2>1, SameWords DEF StoreInv, WordsKnown
  <2>4. StepOf(t)
    BY <1>1, <2>1, ExtendsItself DEF KnowledgeInv, Families, StepOf, Untouched
  <2>5. Written(remote.ws, edits', copies')
    BY <1>1, <1>2 DEF Known, KnowledgeInv, Families, IsSequence, StoreInv, WordsKnown
  <2>6. ASSUME NEW ws \in Stock(v) PROVE Later(ws, remote.ws)
    <3>1. cache[v] # None /\ ws = cache[v].ws
      BY <1>3 DEF Stock
    <3>2. ~cache[v].pending
      BY <1>2, <1>6, <3>1 DEF Resumes, cached
    <3>3. Known(ws, cache[v].rev, history')
      BY <1>1, <1>2, <1>4, <3>1, <3>2 DEF DeviceStores, Sound, KnowledgeInv, StoredKnown, Remembers
    <3> QED BY <2>3, <2>5, <3>3, LaterRevision
  <2>7. /\ DeviceStores(v)' /\ Len(writes'[v]) = Len(writes[v]) + 1
        /\ \A i \in Live(v)' : i = Len(writes[v]) + 1
        /\ writes'[v][Len(writes[v]) + 1].record = record
        /\ writes'[v][Len(writes[v]) + 1].then = "load"
    BY <1>1, <1>3, <2>1, <2>2, <2>3, <2>5, <2>6, LaterItself, DeviceIssues
  <2>8. PutsInOrder(t)'
    BY <1>1, <1>2, <2>2, <2>7 DEF PutsInOrder
  <2>9. phase'[t] = "store"
    BY <2>1 DEF KnowledgeInv, Families
  <2>10. TabStores(t)'
    BY <2>8, <2>9 DEF TabStores
  <2>11. Elsewhere(t) /\ \A u \in Tab \ {t} : timer'[u] = timer[u] /\ status'[u] = status[u]
    BY <1>1, <2>1, IssuedHere
  <2> QED BY <2>3, <2>4, <2>7, <2>10, <2>11, StoreStep
<1> QED BY <1>5, <1>6

(* An edit shows what it is made over, or writing over it.                 *)
LEMMA EditStores ==
    ASSUME OneTabEach, Moves, NEW t \in Tab, phase[t] = "open",
           timer' = [timer EXCEPT ![t] = TRUE],
           UNCHANGED <<history, cache, writes, phase, fetched, base, rev, saves, push, status>>,
           \A u \in Tab \ {t} : view'[u] = view[u], Later(view[t], view'[t])
    PROVE  StoreInv'
<1>1. StepOf(t)
  BY ExtendsItself DEF Moves, KnowledgeInv, Families, StepOf, Untouched
<1>2. DeviceOf[t] \in Device /\ timer'[t] = TRUE
  BY SyncAssumption DEF SyncAssumption, Moves, StoreInv, WordsKnown
<1>3. Shifted(DeviceOf[t], 0) /\ DeviceStores(DeviceOf[t])' /\ Stock(DeviceOf[t])' = Stock(DeviceOf[t])
  BY <1>2, DeviceQuiet
<1>4. ScreenSaved(t)'
  BY <1>2 DEF ScreenSaved
<1>5. StillPushed(t)
  BY DEF StillPushed
<1>6. TabStores(t)'
  BY <1>3, <1>4, <1>5, TabQuiet
<1>7. Elsewhere(t) /\ \A u \in Tab \ {t} : timer'[u] = timer[u] /\ status'[u] = status[u]
  BY DEF Elsewhere
<1> QED BY <1>1, <1>3, <1>6, <1>7, StoreStep

LEMMA WriteStores ==
    ASSUME OneTabEach, KnowledgeInv, KnowledgeInv', StoreInv, NEW t \in Tab, NEW d \in Documents(view[t]),
           phase[t] = "open", Write(t, d)
    PROVE  StoreInv'
<1> DEFINE ws == view[t]
           e == edits + 1
           new == [view[t] EXCEPT ![d] = edits + 1]
<1>1. /\ edits < MaxEdits /\ edits' = edits + 1
      /\ view' = [view EXCEPT ![t] = new]
      /\ seen' = [seen EXCEPT ![edits + 1] = seen[ws[d]] \cup {ws[d]}]
      /\ timer' = [timer EXCEPT ![t] = TRUE]
      /\ UNCHANGED <<history, late, cache, writes, phase, fetched, base, rev, status, saves, push, copies>>
  BY DEF Write, MayEdit, serverVars, cacheVars, fieldVars, queueVars
<1>2. /\ edits \in Nat /\ copies \in Nat /\ e \in Edit /\ 0 .. edits \subseteq Edit /\ e \notin 0 .. edits
      /\ 0 .. e = 0 .. edits \cup {e} /\ seen \in [Edit -> SUBSET Edit]
  BY <1>1, SyncAssumption DEF StoreInv, WordsKnown, Edit, SyncAssumption
<1>3. Written(ws, edits, copies)
  BY DEF StoreInv, TabStores, Within, Contained
<1>4. ws[d] \in Words(ws) /\ ws[d] \in 0 .. edits
  BY <1>3 DEF Words, Written
<1>5. /\ \A x \in 0 .. edits : seen'[x] = seen[x]
      /\ \A x \in Edit : x # e => seen'[x] = seen[x]
      /\ seen'[e] = seen[ws[d]] \cup {ws[d]}
  BY <1>1, <1>2
<1>6. DOMAIN new = DOMAIN ws /\ new[d] = e /\ \A x \in DOMAIN ws \ {d} : new[x] = ws[x]
  BY DEF Documents
<1>7. view'[t] = new /\ \A u \in Tab \ {t} : view'[u] = view[u]
  BY <1>1 DEF KnowledgeInv, Families
<1>8. Grows
  BY <1>1, <1>2, <1>5 DEF Grows
<1>9. seen' \in [Edit -> SUBSET Edit]
  <2>1. seen[ws[d]] \cup {ws[d]} \in SUBSET Edit
    BY <1>2, <1>4
  <2> QED BY <1>1, <1>2, <2>1
<1> HIDE DEF ws, e, new
<1>10. Ordered(e, seen')
  <2>1. Ordered(edits, seen)
    BY DEF StoreInv, WordsKnown
  <2>2. seen'[0] = {}
    BY <1>2, <1>5, <2>1 DEF Ordered
  <2>3. ASSUME NEW x \in 0 .. edits
        PROVE  seen'[x] \subseteq 0 .. e /\ \A y \in seen'[x] : seen'[y] \subseteq seen'[x]
    <3>1. seen'[x] = seen[x] /\ seen[x] \subseteq 0 .. edits /\ \A y \in seen[x] : seen[y] \subseteq seen[x]
      BY <1>5, <2>1 DEF Ordered
    <3> QED BY <1>2, <1>5, <3>1
  <2>4. seen'[e] \subseteq 0 .. e /\ \A y \in seen'[e] : seen'[y] \subseteq seen'[e]
    <3>1. seen[ws[d]] \subseteq 0 .. edits /\ \A y \in seen[ws[d]] : seen[y] \subseteq seen[ws[d]]
      BY <1>4, <2>1 DEF Ordered
    <3> QED BY <1>2, <1>4, <1>5, <3>1
  <2> QED BY <1>2, <2>2, <2>3, <2>4 DEF Ordered
<1>11. WordsKnown'
  <2>1. /\ \A n \in DOMAIN history' : Written(history'[n], edits', copies')
        /\ \A r \in late' : Written(r.ws, edits', copies')
    BY <1>1, <1>8, WrittenStays DEF Grows, StoreInv, WordsKnown
  <2>2. timer' \in [Tab -> BOOLEAN] /\ DOMAIN status' = Tab
    BY <1>1 DEF StoreInv, WordsKnown
  <2>3. edits' = e /\ \A x \in Edit \ 0 .. e : seen'[x] = {}
    BY <1>1, <1>2, <1>5 DEF StoreInv, WordsKnown, e
  <2> QED BY <1>1, <1>2, <1>9, <1>10, <2>1, <2>2, <2>3 DEF WordsKnown
<1>12. Moves
  BY <1>1, <1>8, <1>11, ExtendsItself DEF Moves, KnowledgeInv, Families
<1>13. Written(new, edits', copies')
  <2>1. Written(ws, edits', copies')
    BY <1>3, <1>8, WrittenStays DEF Grows
  <2>2. e \in 0 .. edits'
    BY <1>1, <1>2 DEF e
  <2> QED BY <1>6, <2>1, <2>2 DEF Written, Documents
<1>14. Later(ws, new)
  <2>1. Written(ws, edits', copies')
    BY <1>3, <1>8, WrittenStays DEF Grows
  <2>2. ASSUME NEW x \in Documents(ws) PROVE Says(new, ws[x], seen')
    <3>1. d \in Documents(new) /\ x \in Documents(new)
      BY <1>6 DEF Documents, ws
    <3>2. CASE x = d
      BY <1>5, <1>6, <3>1, <3>2 DEF Says, Words
    <3>3. CASE x # d
      BY <1>6, <3>1, <3>3 DEF Says, Words, Documents
    <3> QED BY <3>2, <3>3
  <2>3. \A x \in Words(ws) : Says(new, x, seen')
    BY <2>2 DEF Words
  <2> QED BY <1>13, <2>1, <2>3 DEF Later, Contained
<1> QED BY <1>1, <1>7, <1>12, <1>14, EditStores DEF ws

(* A setting is not writing.                                               *)
LEMMA ToggleStores ==
    ASSUME OneTabEach, KnowledgeInv, KnowledgeInv', StoreInv, NEW t \in Tab, NEW f \in Setting, Toggle(t, f)
    PROVE  StoreInv'
<1> DEFINE ws == view[t]
           new == [view[t] EXCEPT ![f] = 1 - view[t][f]]
<1>1. /\ phase[t] = "open" /\ edits < MaxEdits /\ edits' = edits + 1
      /\ view' = [view EXCEPT ![t] = new] /\ timer' = [timer EXCEPT ![t] = TRUE]
      /\ UNCHANGED <<history, late, cache, writes, phase, fetched, base, rev, status, saves, push, copies, seen>>
  BY DEF Toggle, MayEdit, serverVars, cacheVars, fieldVars, queueVars
<1>2. DOMAIN new = DOMAIN ws /\ Documents(new) = Documents(ws) /\ \A x \in Documents(ws) : new[x] = ws[x]
  BY DEF Documents
<1>3. view'[t] = new /\ \A u \in Tab \ {t} : view'[u] = view[u]
  BY <1>1 DEF KnowledgeInv, Families
<1>4. Written(ws, edits, copies)
  BY <1>1 DEF StoreInv, TabStores, Within, Contained
<1> HIDE DEF new, ws
<1>5. /\ edits \in Nat /\ copies \in Nat /\ edits + 1 \in Edit \ 0 .. edits
      /\ 0 .. edits + 1 = 0 .. edits \cup {edits + 1} /\ 0 .. edits \subseteq 0 .. edits + 1
  BY <1>1, SyncAssumption DEF StoreInv, WordsKnown, Edit, SyncAssumption
<1>6. Grows
  BY <1>1, <1>5 DEF Grows
<1>7. Ordered(edits + 1, seen) /\ \A x \in Edit \ 0 .. edits + 1 : seen[x] = {}
  <2>1. Ordered(edits, seen) /\ \A x \in Edit \ 0 .. edits : seen[x] = {}
    BY DEF StoreInv, WordsKnown
  <2> QED BY <1>5, <2>1 DEF Ordered
<1>8. WordsKnown'
  <2>1. /\ \A n \in DOMAIN history' : Written(history'[n], edits', copies')
        /\ \A r \in late' : Written(r.ws, edits', copies')
    BY <1>1, <1>6, WrittenStays DEF Grows, StoreInv, WordsKnown
  <2>2. timer' \in [Tab -> BOOLEAN] /\ DOMAIN status' = Tab
    BY <1>1 DEF StoreInv, WordsKnown
  <2> QED BY <1>1, <1>5, <1>7, <2>1, <2>2 DEF WordsKnown, StoreInv
<1>9. Moves
  BY <1>1, <1>6, <1>8, ExtendsItself DEF Moves, KnowledgeInv, Families
<1>10. Words(new) = Words(ws)
  BY <1>2 DEF Words
<1>11. Written(ws, edits', copies') /\ Written(new, edits', copies')
  <2>1. Written(ws, edits', copies')
    BY <1>4, <1>6, WrittenStays DEF Grows
  <2> QED BY <1>2, <2>1 DEF Written
<1>12. Later(ws, new)
  BY <1>10, <1>11 DEF Later, Contained, Says
<1> QED BY <1>1, <1>3, <1>9, <1>12, EditStores DEF ws

-----------------------------------------------------------------------------
(* save and push.                                                          *)

(* The pieces of an open tab, after a step.                                *)
LEMMA TabStored ==
    ASSUME NEW t \in Tab, phase'[t] = "open", PutsInOrder(t)', Later(view'[t], view'[t]),
           SavesInOrder(t)', PushInOrder(t)', ScreenHolds(t)', WorkStored(t)', ScreenSaved(t)'
    PROVE  TabStores(t)'
BY DEF TabStores, Within, Later

(* A push goes on, or leaves what it was for to the saves behind it.       *)
LEMMA PushContinues ==
    ASSUME OneTabEach, Moves, NEW t \in Tab, StepOf(t), phase[t] = "open", push[t] # None, PushGoesOn(t),
           push'[t] # None \/ saves[t] # << >>,
           push'[t] # None /\ push'[t].at # "store" => push[t].at # "store",
           UNCHANGED <<cache, writes, phase, view, timer, saves>>, \A u \in Tab : status'[u] = status[u]
    PROVE  StoreInv'
<1> DEFINE v == DeviceOf[t]
<1>1. /\ v \in Device /\ Within(view[t], view[t]) /\ SavesInOrder(t) /\ PushInOrder(t)
      /\ WorkStored(t) /\ ScreenSaved(t)
  BY SyncAssumption DEF SyncAssumption, Moves, StoreInv, TabStores
<1>2. Shifted(v, 0) /\ DeviceStores(v)' /\ Stock(v)' = Stock(v)
  BY <1>1, DeviceQuiet
<1>3. WorkStored(t)'
  BY <1>1, WorkStaysStored
<1>4. LastSave(t)' = LastSave(t)
  BY DEF LastSave
<1>5. ScreenSaved(t)'
  <2>1. ASSUME ~timer[t], saves[t] # << >> PROVE Later(view[t], LastSave(t).ws)
    BY <1>1, <2>1, WithinStays DEF ScreenSaved
  <2>2. ASSUME ~timer[t], push'[t] # None, saves[t] = << >> PROVE Later(view[t], push'[t].candidate)
    <3>1. Later(view[t], push[t].candidate) /\ Later(push[t].candidate, push'[t].candidate)
      BY <1>1, <2>2, WithinStays DEF ScreenSaved, PushGoesOn
    <3> QED BY <3>1, LaterThrough
  <2> QED BY <1>4, <2>1, <2>2 DEF ScreenSaved, Within, Later
<1>6. TabStores(t)'
  BY <1>1, <1>2, <1>3, <1>5, WithinStays, TabGoesOn
<1> QED BY <1>2, <1>6, StoreStep DEF Elsewhere

(* What the screen shows of the server's needs no saving.                  *)
LEMMA UnchangedStores ==
    ASSUME NullNone, OneTabEach, Moves, NEW t \in Tab, StepOf(t), phase[t] = "open", Unchanged(t),
           UNCHANGED <<cache, writes, phase, view, status, base, saves, push>>,
           \A u \in Tab \ {t} : timer'[u] = timer[u]
    PROVE  StoreInv'
<1> DEFINE v == DeviceOf[t]
<1>1. /\ v \in Device /\ Within(view[t], view[t]) /\ SavesInOrder(t) /\ PushInOrder(t)
      /\ view[t] = base[t] /\ status[t] = "synchronized"
  BY SyncAssumption DEF SyncAssumption, Moves, StoreInv, TabStores, Unchanged
<1>2. Shifted(v, 0) /\ DeviceStores(v)' /\ Stock(v)' = Stock(v)
  BY <1>1, DeviceQuiet
<1>3. Known(view[t], rev[t], history')
  BY <1>1, BaseIsThere, KnownStays DEF Moves
<1>4. saves[t] # << >> => Later(view[t], LastSave(t).ws)
  <2> SUFFICES ASSUME saves[t] # << >> PROVE Later(view[t], LastSave(t).ws)
    OBVIOUS
  <2>1. Len(saves[t]) \in DOMAIN saves[t]
    BY TailIsSequence DEF Moves, KnowledgeInv, TabKnows
  <2>2. Within(LastSave(t).ws, view[t])
    BY <1>1, <2>1 DEF SavesInOrder, LastSave
  <2> QED BY <1>3, <2>2, WithinStays, LaterWritten, LaterRevision
<1>5. push[t] # None => Later(view[t], push[t].candidate)
  BY <1>1, <1>3, WithinStays, LaterWritten, LaterRevision DEF PushInOrder
<1>6. LastSave(t)' = LastSave(t)
  BY DEF LastSave
<1>7. ScreenSaved(t)'
  BY <1>1, <1>4, <1>5, <1>6 DEF ScreenSaved, Within, Later
<1>8. StillPushed(t)
  BY DEF StillPushed
<1>9. TabStores(t)'
  BY <1>1, <1>2, <1>7, <1>8, WithinStays, TabQuiet
<1> QED BY <1>2, <1>9, StoreStep DEF Elsewhere

(* A new save has what is on the screen, behind those that were before.    *)
Queued(r, q, save) ==
    /\ Len(r) = Len(q) + 1 /\ Len(q) \in Nat /\ DOMAIN q = 1 .. Len(q)
    /\ DOMAIN r = 1 .. Len(q) + 1 /\ r[Len(q) + 1] = save /\ r # << >>
    /\ \A j \in DOMAIN q : /\ j \in DOMAIN r
                           /\ r[j].ws = q[j].ws /\ r[j].cached = q[j].cached /\ r[j].newest = FALSE

LEMMA SavesAppended ==
    ASSUME NEW q, IsSequence(q), \A i \in DOMAIN q : IsSave(q[i]), NEW save
    PROVE  Queued(Append(Outdated(q), save), q, save)
<1> DEFINE r == Append(Outdated(q), save)
<1>1. /\ IsSequence(Outdated(q)) /\ DOMAIN Outdated(q) = DOMAIN q
  BY OutdatedSaves
<1>2. Len(Outdated(q)) = Len(q) /\ Len(q) \in Nat /\ DOMAIN q = 1 .. Len(q)
  BY <1>1 DEF IsSequence
<1>3. ASSUME NEW j \in DOMAIN q
      PROVE  /\ Outdated(q)[j].ws = q[j].ws /\ Outdated(q)[j].cached = q[j].cached
             /\ Outdated(q)[j].newest = FALSE
  <2>1. Outdated(q)[j] = [q[j] EXCEPT !.newest = FALSE]
    BY DEF Outdated
  <2>2. DOMAIN q[j] = SaveFields
    BY DEF IsSave
  <2> QED BY <2>1, <2>2 DEF SaveFields
<1>4. /\ Len(r) = Len(Outdated(q)) + 1
      /\ DOMAIN r = 1 .. Len(Outdated(q)) + 1
      /\ \A i \in DOMAIN Outdated(q) : r[i] = Outdated(q)[i]
      /\ r[Len(Outdated(q)) + 1] = save
  BY <1>1, AppendIsSequence
<1> HIDE DEF r
<1>5. /\ Len(r) = Len(q) + 1 /\ DOMAIN r = 1 .. Len(q) + 1 /\ r[Len(q) + 1] = save
      /\ \A i \in DOMAIN q : r[i] = Outdated(q)[i]
  BY <1>1, <1>2, <1>4
<1>6. r # << >>
  BY <1>2, <1>5
<1>7. \A j \in DOMAIN q : j \in DOMAIN r
  BY <1>2, <1>5
<1>8. \A j \in DOMAIN q : r[j].ws = q[j].ws /\ r[j].cached = q[j].cached /\ r[j].newest = FALSE
  BY <1>3, <1>5
<1> QED BY <1>2, <1>5, <1>6, <1>7, <1>8 DEF r, Queued

LEMMA SaveStores ==
    ASSUME NullNone, OneTabEach, Moves, NEW t \in Tab, phase[t] = "open", NEW apply, Save(t, apply),
           UNCHANGED <<history, phase, fetched, view, status, base, rev, seen, edits, copies>>,
           \A u \in Tab \ {t} : timer'[u] = timer[u]
    PROVE  StoreInv'
<1>1. CASE Unchanged(t)
  <2>1. UNCHANGED <<cache, writes, saves, push>>
    BY <1>1 DEF Save, cacheVars, queueVars
  <2>2. StepOf(t)
    BY <2>1, ExtendsItself DEF Moves, KnowledgeInv, Families, StepOf, Untouched
  <2> QED BY <1>1, <2>1, <2>2, UnchangedStores
<1>2. CASE ~Unchanged(t)
  <2> DEFINE v == DeviceOf[t]
             record == PendingRecord(t, view[t])
             save == NewSave(t, apply)
             older == [push[t] EXCEPT !.newest = FALSE]
             last == Len(saves[t]) + 1
             behind == Len(writes[v]) + 1
  <2>1. /\ saves' = [saves EXCEPT ![t] = Append(Outdated(saves[t]), save)]
        /\ push' = [push EXCEPT ![t] = IF push[t] = None THEN None ELSE older]
        /\ cache' = cache
        /\ writes' = IF Uncached(saves[t]) = {} THEN Issue(t, writes, record, "save") ELSE writes
    BY <1>2 DEF Save, Outdated, NewSave
  <2>2. /\ TabKnows(t) /\ PushKnows(t) /\ v \in Device /\ Within(view[t], view[t])
        /\ PutsInOrder(t) /\ SavesInOrder(t) /\ PushInOrder(t) /\ ScreenHolds(t)
    BY SyncAssumption DEF Moves, KnowledgeInv, StoreInv, TabStores, SyncAssumption
  <2>3. /\ save.ws = view[t] /\ save.newest = TRUE /\ save.cached = FALSE
        /\ record.ws = view[t] /\ record.pending = TRUE /\ record # None
    BY RecordIsThere DEF NewSave, PendingRecord, Record
  <2>4. push[t] # None => IsPush(older, history) /\ older.at = push[t].at /\ older.candidate = push[t].candidate
                          /\ older.ws = push[t].ws /\ older.newest = FALSE
    <3> SUFFICES ASSUME push[t] # None
                 PROVE  IsPush(older, history) /\ older.at = push[t].at /\ older.candidate = push[t].candidate
                        /\ older.ws = push[t].ws /\ older.newest = FALSE
      OBVIOUS
    <3>1. IsPush(push[t], history)
      BY <2>2 DEF PushKnows
    <3>2. older.ws = push[t].ws /\ older.newest = FALSE
      BY <3>1 DEF IsPush, IsRequest, PushFields
    <3> QED BY <3>1, <3>2, OutdatedPush
  <2> HIDE DEF save, record, older
  <2>5. saves'[t] = Append(Outdated(saves[t]), save) /\ push'[t] = IF push[t] = None THEN None ELSE older
    BY <2>1 DEF Moves, KnowledgeInv, Families
  <2>6. /\ Len(saves'[t]) = last /\ last \in Nat /\ DOMAIN saves[t] = 1 .. Len(saves[t])
        /\ DOMAIN saves'[t] = 1 .. last /\ saves'[t][last] = save /\ saves'[t] # << >>
        /\ \A j \in DOMAIN saves[t] : /\ j \in DOMAIN saves'[t] /\ j # last /\ j \in Nat
                                      /\ saves'[t][j].ws = saves[t][j].ws
                                      /\ saves'[t][j].cached = saves[t][j].cached
                                      /\ saves'[t][j].newest = FALSE
        /\ \A j \in 1 .. last : j \in DOMAIN saves[t] \/ j = last
    <3> DEFINE q == saves[t]
               r == saves'[t]
    <3>1. IsSequence(q) /\ \A i \in DOMAIN q : IsSave(q[i])
      BY <2>2 DEF TabKnows
    <3>2. r = Append(Outdated(q), save)
      BY <2>5
    <3> HIDE DEF q, r
    <3>3. /\ Len(r) = Len(q) + 1 /\ Len(q) \in Nat /\ DOMAIN q = 1 .. Len(q)
          /\ DOMAIN r = 1 .. Len(q) + 1 /\ r[Len(q) + 1] = save /\ r # << >>
          /\ \A j \in DOMAIN q : /\ j \in DOMAIN r
                                 /\ r[j].ws = q[j].ws /\ r[j].cached = q[j].cached /\ r[j].newest = FALSE
      <4>1. Queued(Append(Outdated(q), save), q, save)
        BY <3>1, SavesAppended
      <4> QED BY <3>2, <4>1 DEF Queued
    <3>4. \A j \in DOMAIN q : j # Len(q) + 1 /\ j \in Nat
      BY <3>3
    <3>5. \A j \in 1 .. Len(q) + 1 : j \in DOMAIN q \/ j = Len(q) + 1
      BY <3>3
    <3> QED BY <3>3, <3>4, <3>5 DEF q, r
  <2>7. last \in Uncached(saves[t])'
    BY <2>3, <2>6 DEF Uncached
  <2>8. \A a, b : Within(a, b) => Later(a, b)
    BY WithinStays
  <2>9. SavesInOrder(t)'
    <3>1. ASSUME NEW j \in DOMAIN saves'[t]
          PROVE  /\ saves'[t][j].newest <=> j = Len(saves'[t])
                 /\ Later(saves'[t][j].ws, view'[t])
                 /\ \A i \in 1 .. j : /\ Later(saves'[t][i].ws, saves'[t][j].ws)
                                      /\ saves'[t][j].cached => saves'[t][i].cached
      <4>1. CASE j = last
        <5>1. \A i \in 1 .. j : Later(saves'[t][i].ws, view[t])
          BY <2>2, <2>3, <2>6, <2>8, <4>1 DEF SavesInOrder
        <5> QED BY <2>2, <2>3, <2>6, <2>8, <4>1, <5>1
      <4>2. CASE j # last
        <5>1. j \in DOMAIN saves[t] /\ \A i \in 1 .. j : i \in DOMAIN saves[t]
          BY <2>6, <4>2
        <5>2. saves'[t][j].newest = FALSE /\ Later(saves'[t][j].ws, view'[t])
          BY <2>2, <2>6, <2>8, <5>1 DEF SavesInOrder
        <5>3. \A i \in 1 .. j : /\ Within(saves[t][i].ws, saves[t][j].ws)
                                /\ saves[t][j].cached => saves[t][i].cached
          BY <2>2, <5>1 DEF SavesInOrder
        <5>4. \A i \in 1 .. j : /\ Later(saves'[t][i].ws, saves'[t][j].ws)
                                /\ saves'[t][j].cached => saves'[t][i].cached
          BY <2>6, <2>8, <5>1, <5>3
        <5> QED BY <2>6, <4>2, <5>2, <5>4
      <4> QED BY <4>1, <4>2
    <3> QED BY <3>1 DEF SavesInOrder, Within, Later
  <2>10. PushInOrder(t)'
    BY <2>2, <2>4, <2>5, <2>6, <2>8 DEF PushInOrder, Within, Later
  <2>11. LastSave(t)' = save
    BY <2>6 DEF LastSave
  <2>12. WorkStored(t)' /\ ScreenSaved(t)'
    BY <2>2, <2>3, <2>6, <2>7, <2>8, <2>11 DEF WorkStored, ScreenSaved, Within, Later
  <2>13. \A k \in DOMAIN saves[t] : Resumed(t, k) => Resumed(t, k)' /\ saves'[t][k].ws = saves[t][k].ws
    <3> SUFFICES ASSUME NEW k \in DOMAIN saves[t], Resumed(t, k) PROVE Resumed(t, k)'
      BY <2>6
    <3>1. \A j \in 1 .. k - 1 : j \in DOMAIN saves[t]
      BY <2>6
    <3> QED BY <2>6, <3>1 DEF Resumed
  <2>14. DeviceStores(v)' /\ Stock(v)' \subseteq Stock(v) \cup {view[t]} /\ PutsInOrder(t)' /\ Elsewhere(t)
    <3>1. CASE Uncached(saves[t]) # {}
      <4>1. writes' = writes
        BY <2>1, <3>1
      <4>2. DeviceStores(v)' /\ Stock(v)' = Stock(v) /\ Live(v)' = Live(v)
        BY <2>1, <2>2, <4>1, DeviceQuiet DEF Live
      <4>3. ASSUME NEW i \in Live(v)
            PROVE  LET put == writes'[v][i] IN
                   /\ put.then = "load" => put.record.ws = put.record.base
                   /\ put.then = "save" => /\ put.record.pending /\ i = Len(writes'[v])
                                           /\ \E k \in DOMAIN saves'[t] : Resumed(t, k)' /\ put.record.ws = saves'[t][k].ws
                   /\ put.then = "merged" => put.record.pending /\ put.record.ws = push'[t].candidate
        <5> DEFINE put == writes[v][i]
        <5>1. /\ put.then = "load" => put.record.ws = put.record.base
              /\ put.then = "save" => /\ put.record.pending /\ i = Len(writes[v])
                                      /\ \E k \in DOMAIN saves[t] : Resumed(t, k) /\ put.record.ws = saves[t][k].ws
              /\ put.then = "merged" => put.record.pending /\ put.record.ws = push[t].candidate
          BY <2>2 DEF PutsInOrder
        <5>2. put.then = "merged" => push[t] # None
          BY OwnPuts DEF Moves
        <5> HIDE DEF put
        <5>3. writes'[v][i] = put /\ Len(writes'[v]) = Len(writes[v])
          BY <4>1 DEF put
        <5>4. put.then = "save" => \E k \in DOMAIN saves'[t] : Resumed(t, k)' /\ put.record.ws = saves'[t][k].ws
          BY <2>6, <2>13, <5>1
        <5> QED BY <2>4, <2>5, <5>1, <5>2, <5>3, <5>4
      <4>4. PutsInOrder(t)'
        BY <2>7, <4>2, <4>3 DEF PutsInOrder
      <4> QED BY <2>1, <4>1, <4>2, <4>4 DEF Elsewhere
    <3>2. CASE Uncached(saves[t]) = {}
      <4>1. writes' = Issue(t, writes, record, "save")
        BY <2>1, <3>2
      <4>2. Sound(record) /\ Later(record.ws, record.ws) /\ \A ws \in Stock(v) : Later(ws, record.ws)
        BY <2>2, <2>3, <2>8 DEF Sound, ScreenHolds
      <4>3. /\ DeviceStores(v)' /\ Stock(v)' \subseteq Stock(v) \cup {record.ws}
            /\ Len(writes'[v]) = behind
            /\ \A i \in Live(v)' : (i \in Live(v) /\ i # behind /\ writes'[v][i] = writes[v][i]) \/ i = behind
            /\ writes'[v][behind].record = record /\ writes'[v][behind].then = "save"
        BY <2>1, <4>1, <4>2, DeviceIssues
      <4>4. ASSUME NEW i \in Live(v)'
            PROVE  LET put == writes'[v][i] IN
                   /\ put.then = "load" => put.record.ws = put.record.base
                   /\ put.then = "save" => /\ put.record.pending /\ i = Len(writes'[v])
                                           /\ \E k \in DOMAIN saves'[t] : Resumed(t, k)' /\ put.record.ws = saves'[t][k].ws
                   /\ put.then = "merged" => put.record.pending /\ put.record.ws = push'[t].candidate
        <5>1. CASE i = behind
          <6> DEFINE q == saves'[t]
          <6>1. last \in DOMAIN q /\ ~q[last].cached /\ \A j \in 1 .. last - 1 : q[j].cached
            <7>1. \A j \in 1 .. last - 1 : j \in DOMAIN saves[t] /\ saves[t][j].cached
              BY <2>6, <3>2 DEF Uncached
            <7>2. \A j \in 1 .. last - 1 : saves'[t][j].cached
              BY <2>6, <7>1
            <7>3. last \in DOMAIN saves'[t] /\ ~saves'[t][last].cached
              BY <2>3, <2>6
            <7> QED BY <7>2, <7>3
          <6>2. record.ws = q[last].ws
            BY <2>3, <2>6
          <6>3. \E k \in DOMAIN saves'[t] : Resumed(t, k)' /\ record.ws = saves'[t][k].ws
            BY <6>1, <6>2 DEF Resumed
          <6> QED BY <2>3, <4>3, <5>1, <6>3
        <5>2. CASE i # behind
          <6> DEFINE put == writes[v][i]
          <6>1. i \in Live(v) /\ writes'[v][i] = put
            BY <4>3, <5>2
          <6>2. /\ put.then = "load" => put.record.ws = put.record.base
                /\ put.then = "save" => \E k \in DOMAIN saves[t] : Resumed(t, k)
                /\ put.then = "merged" => put.record.pending /\ put.record.ws = push[t].candidate
            BY <2>2, <6>1 DEF PutsInOrder
          <6>3. put.then = "merged" => push[t] # None
            BY <6>1, OwnPuts DEF Moves
          <6>4. put.then # "save"
            BY <3>2, <6>2 DEF Uncached, Resumed
          <6> HIDE DEF put
          <6> QED BY <2>4, <2>5, <6>1, <6>2, <6>3, <6>4
        <5> QED BY <5>1, <5>2
      <4>5. PutsInOrder(t)'
        BY <2>7, <4>4 DEF PutsInOrder
      <4>6. Elsewhere(t)
        BY <2>1, <4>1, IssuedHere DEF Moves
      <4> QED BY <2>3, <4>3, <4>5, <4>6
    <3> QED BY <3>1, <3>2
  <2>15. ScreenHolds(t)'
    <3>1. ASSUME NEW ws \in Stock(v)' PROVE Later(ws, view[t])
      BY <2>2, <2>8, <2>14 DEF ScreenHolds
    <3> QED BY <2>3, <2>6, <2>11, <3>1 DEF ScreenHolds, Within, Later
  <2>16. TabStores(t)'
    BY <2>2, <2>8, <2>9, <2>10, <2>12, <2>14, <2>15, TabStored
  <2>17. StepOf(t)
    BY <2>1, ExtendsItself DEF Moves, KnowledgeInv, Families, StepOf, Untouched
  <2> QED BY <2>14, <2>16, <2>17, StoreStep
<1> QED BY <1>1, <1>2

LEMMA SaversStore ==
    ASSUME NullNone, OneTabEach, KnowledgeInv, KnowledgeInv', StoreInv,
           NEW t \in Tab, Debounced(t) \/ Online(t) \/ SaveNow(t)
    PROVE  StoreInv'
<1>1. PICK apply \in BOOLEAN : Save(t, apply)
  BY DEF Debounced, Online, SaveNow
<1>2. /\ phase[t] = "open"
      /\ UNCHANGED <<history, late, phase, fetched, view, status, base, rev, seen, edits, copies>>
      /\ timer' = timer \/ timer' = [timer EXCEPT ![t] = FALSE]
  BY DEF Debounced, Online, SaveNow, serverVars, screenVars, fieldVars, countVars
<1>3. timer' \in [Tab -> BOOLEAN] /\ \A u \in Tab \ {t} : timer'[u] = timer[u]
  BY <1>2 DEF StoreInv, WordsKnown
<1>4. Moves
  BY <1>2, <1>3, SameWords DEF StoreInv, WordsKnown
<1> QED BY <1>1, <1>2, <1>3, <1>4, SaveStores

-----------------------------------------------------------------------------
(* push.                                                                   *)

(* A step that writes down ws, on the server or on its way there.          *)
LEMMA MoreWords ==
    ASSUME StoreInv, KnowledgeInv, KnowledgeInv', UNCHANGED <<edits, copies, seen>>,
           NEW ws, Written(ws, edits, copies),
           history' = history \/ history' = Append(history, ws),
           \A r \in late' : r \in late \/ r.ws = ws,
           timer' \in [Tab -> BOOLEAN], DOMAIN status' = Tab
    PROVE  Moves
<1>1. Grows
  BY SyncAssumption DEF StoreInv, WordsKnown, Grows, Edit, SyncAssumption
<1>2. IsSequence(history)
  BY DEF KnowledgeInv, Families
<1>3. Extends(history', history)
  BY <1>2, ExtendsItself, ExtendsByAppend
<1>4. \A n \in DOMAIN history' : Written(history'[n], edits, copies)
  <2>1. CASE history' = history
    BY <2>1 DEF StoreInv, WordsKnown
  <2>2. CASE history' = Append(history, ws)
    <3>1. /\ Len(history) \in Nat /\ DOMAIN history = 1 .. Len(history)
          /\ DOMAIN history' = 1 .. Len(history) + 1
          /\ \A n \in DOMAIN history : history'[n] = history[n]
          /\ history'[Len(history) + 1] = ws
      BY <1>2, <2>2, AppendIsSequence
    <3>2. \A n \in DOMAIN history' : n \in DOMAIN history \/ n = Len(history) + 1
      BY <3>1
    <3> QED BY <3>1, <3>2 DEF StoreInv, WordsKnown
  <2> QED BY <2>1, <2>2
<1>5. WordsKnown'
  BY <1>4 DEF StoreInv, WordsKnown
<1> QED BY <1>1, <1>3, <1>5 DEF Moves

(* The first save is pushed: what it had is what its push has.             *)
LEMMA StartPushStores ==
    ASSUME NullNone, OneTabEach, KnowledgeInv, KnowledgeInv', StoreInv, NEW t \in Tab, StartPush(t)
    PROVE  StoreInv'
<1> DEFINE v == DeviceOf[t]
           q == saves[t]
           r == Tail(saves[t])
           N == Len(saves[t])
           p == [ws |-> Head(saves[t]).ws, apply |-> Head(saves[t]).apply, newest |-> Head(saves[t]).newest,
                 candidate |-> Head(saves[t]).ws, base |-> Else(base[t], Head(saves[t]).ws), rev |-> rev[t],
                 tries |-> 1, at |-> "sent", answer |-> None]
<1>1. /\ push[t] = None /\ q # << >> /\ Head(saves[t]).cached
      /\ push' = [push EXCEPT ![t] = p] /\ saves' = [saves EXCEPT ![t] = r]
      /\ UNCHANGED <<history, late, cache, writes, phase, fetched, view, timer, status, base, rev, edits, seen, copies>>
  BY DEF StartPush, serverVars, cacheVars, screenVars, fieldVars, countVars
<1>2. p.ws = Head(saves[t]).ws /\ p.candidate = Head(saves[t]).ws /\ p.newest = Head(saves[t]).newest /\ p.at = "sent"
  OBVIOUS
<1> HIDE DEF p
<1>3. push'[t] = p /\ saves'[t] = r /\ phase[t] = "open" /\ v \in Device
  <2>1. push'[t] = p /\ saves'[t] = r
    BY <1>1 DEF KnowledgeInv, Families
  <2>2. phase[t] = "open"
    BY <1>1, LoadsAlone
  <2> QED BY <2>1, <2>2, SyncAssumption DEF SyncAssumption
<1>4. /\ N \in Nat \ {0} /\ DOMAIN q = 1 .. N /\ q[1] = Head(saves[t]) /\ 1 \in DOMAIN q /\ N \in DOMAIN q
      /\ DOMAIN r = 1 .. N - 1 /\ Len(r) = N - 1
      /\ \A i \in DOMAIN r : i + 1 \in DOMAIN q /\ i \in Nat /\ r[i] = q[i + 1]
      /\ \A k \in DOMAIN q : k \in Nat /\ (k # 1 => k - 1 \in DOMAIN r /\ r[k - 1] = q[k])
      /\ r = << >> <=> N = 1
  <2>1. IsSequence(q)
    BY DEF KnowledgeInv, TabKnows
  <2>2. /\ IsSequence(r) /\ N \in Nat \ {0} /\ DOMAIN q = 1 .. N /\ q[1] = Head(saves[t])
        /\ DOMAIN r = 1 .. N - 1 /\ \A i \in DOMAIN r : r[i] = q[i + 1]
    BY <1>1, <2>1, TailIsSequence
  <2> HIDE DEF q, N
  <2> HIDE DEF r
  <2>3. Len(r) \in Nat /\ DOMAIN r = 1 .. Len(r) /\ (Len(r) = 0 => r = << >>)
    <3> DEFINE S == {r[i] : i \in DOMAIN r}
    <3>1. r \in Seq(S)
      BY <2>2 DEF IsSequence
    <3> HIDE DEF S
    <3> QED BY <3>1
  <2>4. Len(r) = N - 1
    BY <2>2, <2>3
  <2>5. r = << >> <=> N = 1
    BY <2>2, <2>3, <2>4
  <2>6. \A i \in DOMAIN r : i + 1 \in DOMAIN q /\ i \in Nat
    BY <2>2
  <2>7. \A k \in DOMAIN q : k \in Nat /\ (k # 1 => k - 1 \in DOMAIN r /\ (k - 1) + 1 = k)
    BY <2>2
  <2>8. \A k \in DOMAIN q : k # 1 => r[k - 1] = q[k]
    BY <2>2, <2>7
  <2> QED BY <2>2, <2>4, <2>5, <2>6, <2>7, <2>8
<1>5. Moves
  BY <1>1, SameWords DEF StoreInv, WordsKnown
<1>6. StepOf(t)
  BY <1>1, ExtendsItself DEF KnowledgeInv, Families, StepOf, Untouched
<1>7. DeviceStores(v)' /\ Stock(v)' = Stock(v) /\ Live(v)' = Live(v)
  BY <1>1, <1>3, <1>5, DeviceQuiet DEF Live
<1>8. /\ Within(view[t], view[t]) /\ SavesInOrder(t) /\ ScreenHolds(t) /\ WorkStored(t) /\ ScreenSaved(t)
      /\ PutsInOrder(t)
  BY <1>3 DEF StoreInv, TabStores
<1>9. \A a, b : Within(a, b) => Later(a, b)
  BY <1>5, WithinStays
<1>10. LastSave(t) = q[N] /\ (r # << >> => LastSave(t)' = q[N]) /\ (r = << >> => p.candidate = q[N].ws /\ p.ws = q[N].ws)
  <2>1. r # << >> => Len(r) \in DOMAIN r /\ Len(r) + 1 = N
    BY <1>4
  <2>2. r # << >> => r[Len(r)] = q[N]
    BY <1>4, <2>1
  <2> QED BY <1>2, <1>3, <1>4, <2>2 DEF LastSave
<1> HIDE DEF r, q, N
<1>11. SavesInOrder(t)'
  <2>1. ASSUME NEW j \in DOMAIN r
        PROVE  /\ r[j].newest <=> j = Len(r)
               /\ Later(r[j].ws, view'[t])
               /\ \A i \in 1 .. j : Later(r[i].ws, r[j].ws) /\ (r[j].cached => r[i].cached)
    <3>1. j + 1 \in DOMAIN q /\ r[j] = q[j + 1] /\ (j = Len(r) <=> j + 1 = N)
      BY <1>4
    <3>2. \A i \in 1 .. j : i \in DOMAIN r /\ i + 1 \in 1 .. j + 1
      BY <1>4
    <3>3. \A i \in 1 .. j : r[i] = q[i + 1]
      BY <1>4, <3>2
    <3>4. /\ q[j + 1].newest <=> j + 1 = N
          /\ Within(q[j + 1].ws, view[t])
          /\ \A i \in 1 .. j + 1 : Within(q[i].ws, q[j + 1].ws) /\ (q[j + 1].cached => q[i].cached)
      BY <1>8, <3>1 DEF SavesInOrder, q, N
    <3>5. \A i \in 1 .. j : Within(r[i].ws, r[j].ws) /\ (r[j].cached => r[i].cached)
      BY <3>1, <3>2, <3>3, <3>4
    <3> QED BY <1>1, <1>9, <3>1, <3>4, <3>5
  <2> QED BY <1>3, <2>1 DEF SavesInOrder, Within, Later
<1>12. PushInOrder(t)'
  <2>1. /\ q[1].newest <=> 1 = N
        /\ Within(q[1].ws, view[t]) /\ Within(q[1].ws, q[1].ws)
    BY <1>4, <1>8 DEF SavesInOrder, q, N
  <2> QED BY <1>1, <1>2, <1>3, <1>4, <1>9, <2>1 DEF PushInOrder, Within, Later
<1>13. ScreenHolds(t)'
  <2>1. ASSUME NEW ws \in Stock(v) PROVE Later(ws, view'[t]) /\ Later(ws, q[N].ws)
    BY <1>1, <1>8, <1>9, <1>10 DEF ScreenHolds, q
  <2> QED BY <1>3, <1>7, <1>10, <2>1 DEF ScreenHolds, Within, Later
<1>14. \A k \in DOMAIN r : k + 1 \in Uncached(q) => k \in Uncached(r)
  BY <1>4 DEF Uncached
<1>15. Uncached(r) = {} => Uncached(q) = {}
  <2>1. ASSUME NEW k \in Uncached(q) PROVE k - 1 \in Uncached(r)
    <3>1. k \in DOMAIN q /\ k # 1
      BY <1>1, <1>4 DEF Uncached
    <3> QED BY <1>4, <3>1 DEF Uncached
  <2> QED BY <2>1
<1>16. WorkStored(t)'
  <2>1. ASSUME Uncached(r) = {} PROVE /\ cache'[v] # None /\ cache'[v].pending /\ Later(q[N].ws, cache'[v].ws)
    <3>1. InRecord(t, LastSave(t).ws)
      BY <1>1, <1>8, <1>15, <2>1 DEF WorkStored, q
    <3> QED BY <1>1, <1>9, <1>10, <3>1 DEF InRecord
  <2>2. r = << >> => Uncached(r) = {}
    BY DEF Uncached
  <2> QED BY <1>3, <1>10, <2>1, <2>2 DEF WorkStored, InRecord, Within, Later
<1>17. ScreenSaved(t)'
  <2>1. ~timer[t] => Later(view[t], q[N].ws)
    BY <1>1, <1>8, <1>9, <1>10 DEF ScreenSaved, q
  <2>2. push'[t] # None
    BY <1>3 DEF NullNone, p
  <2> QED BY <1>1, <1>3, <1>10, <2>1, <2>2 DEF ScreenSaved, Within, Later
<1>18. PutsInOrder(t)'
  <2>1. ASSUME NEW k \in DOMAIN q, Resumed(t, k)
        PROVE  k - 1 \in DOMAIN r /\ r[k - 1].ws = q[k].ws /\ Resumed(t, k - 1)'
    <3>1. k # 1 /\ k \in DOMAIN q /\ ~q[k].cached /\ \A j \in 1 .. k - 1 : q[j].cached
      BY <1>1, <1>4, <2>1 DEF Resumed, q
    <3>2. k - 1 \in DOMAIN r /\ r[k - 1] = q[k] /\ k \in Nat
      BY <1>4, <3>1
    <3>3. \A j \in 1 .. (k - 1) - 1 : j \in DOMAIN r /\ j + 1 \in 1 .. k - 1
      BY <1>4, <3>2
    <3>4. \A j \in 1 .. (k - 1) - 1 : r[j].cached
      BY <1>4, <3>1, <3>3
    <3> QED BY <1>3, <3>1, <3>2, <3>4 DEF Resumed
  <2>2. ASSUME NEW i \in Live(v)
        PROVE  LET put == writes[v][i] IN
               /\ put.then = "load" => put.record.ws = put.record.base
               /\ put.then = "save" => /\ put.record.pending /\ i = Len(writes[v])
                                       /\ \E k \in DOMAIN r : Resumed(t, k)' /\ put.record.ws = r[k].ws
               /\ put.then # "merged"
               /\ Uncached(r) # {}
    <3>1. LET put == writes[v][i] IN
          /\ put.then = "load" => put.record.ws = put.record.base
          /\ put.then = "save" => /\ put.record.pending /\ i = Len(writes[v])
                                  /\ \E k \in DOMAIN q : Resumed(t, k) /\ put.record.ws = q[k].ws
          /\ Uncached(q) # {}
      BY <1>1, <1>8 DEF PutsInOrder, q
    <3>2. writes[v][i].then # "merged"
      BY <1>1, OwnPuts
    <3> QED BY <1>15, <2>1, <3>1, <3>2
  <2> QED BY <1>1, <1>3, <1>7, <2>2 DEF PutsInOrder
<1>19. TabStores(t)'
  BY <1>1, <1>3, <1>8, <1>9, <1>11, <1>12, <1>13, <1>16, <1>17, <1>18, TabStored
<1>20. \A u \in Tab \ {t} : timer'[u] = timer[u] /\ status'[u] = status[u]
  BY <1>1
<1> QED BY <1>1, <1>5, <1>6, <1>7, <1>19, <1>20, StoreStep DEF Elsewhere

LEMMA ServeStores ==
    ASSUME NullNone, OneTabEach, KnowledgeInv, KnowledgeInv', StoreInv, NEW t \in Tab, Serve(t)
    PROVE  StoreInv'
<1> DEFINE p == push[t]
<1>0. PICK at \in {"saved", "conflict"} :
         /\ p # None /\ p.at = "sent" /\ \E answer : push' = [push EXCEPT ![t] = Answered(p, at, answer)]
         /\ history' = history \/ history' = Append(history, p.candidate)
         /\ UNCHANGED <<late, cache, writes, phase, fetched, view, timer, status, base, rev, saves, edits, seen, copies>>
  BY DEF Serve, Answered, cacheVars, screenVars, fieldVars, countVars
<1>1. PICK answer : push' = [push EXCEPT ![t] = Answered(p, at, answer)]
  BY <1>0
<1>2. /\ IsPush(p, history) /\ phase[t] = "open" /\ PushInOrder(t)
  BY <1>0 DEF KnowledgeInv, TabKnows, PushKnows, StoreInv, TabStores
<1> DEFINE q == Answered(p, at, answer)
<1>3. q.at = at /\ q.candidate = p.candidate /\ q.ws = p.ws /\ q.newest = p.newest /\ IsRequest(q, history)
  BY <1>2, AnsweredPush DEF IsPush, SameCall
<1> HIDE DEF q
<1>4. push'[t] = q /\ q # None /\ \A u \in Tab \ {t} : push'[u] = push[u]
  BY <1>0, <1>1, <1>3 DEF q, KnowledgeInv, Families, IsRequest, NullNone, IsFunction
<1>5. Moves
  <2>1. Written(p.candidate, edits, copies)
    BY <1>0, <1>1, <1>2 DEF PushInOrder, Within, Contained
  <2>2. timer' \in [Tab -> BOOLEAN] /\ DOMAIN status' = Tab
    BY <1>0 DEF StoreInv, WordsKnown
  <2> QED BY <1>0, <1>1, <2>1, <2>2, MoreWords
<1>6. Later(p.candidate, p.candidate)
  BY <1>0, <1>1, <1>2, <1>5, WithinStays, LaterWritten, LaterItself DEF PushInOrder
<1>7. PushGoesOn(t)
  BY <1>0, <1>1, <1>3, <1>4, <1>6 DEF PushGoesOn
<1>8. StepOf(t)
  BY <1>0, <1>1, <1>4, <1>5 DEF Moves, StepOf, Untouched
<1> QED BY <1>0, <1>1, <1>2, <1>4, <1>5, <1>7, <1>8, PushContinues

(* The puts are as they were, or shift, and nothing else changes.          *)
LEMMA AllQuiet ==
    ASSUME OneTabEach, Moves, UNCHANGED <<cache, phase, fetched, view, timer, status, saves, push>>,
           NEW n \in [Device -> {0, 1}], \A v \in Device : Shifted(v, n[v])
    PROVE  StoreInv'
<1>1. \A v \in Device : DeviceStores(v)' /\ Stock(v)' \subseteq Stock(v)
  BY DeviceShifts
<1>2. ASSUME NEW t \in Tab PROVE TabStores(t)'
  <2>1. DeviceOf[t] \in Device
    BY SyncAssumption DEF SyncAssumption
  <2>2. StillPushed(t)
    BY DEF StillPushed
  <2>3. phase[t] = "open" => Later(view[t], view'[t]) /\ ScreenSaved(t)'
    BY <2>2, ScreenStaysSaved
  <2> QED BY <1>1, <2>1, <2>2, <2>3, TabQuiet
<1> QED BY <1>1, <1>2 DEF StoreInv, Moves

LEMMA LateStores ==
    ASSUME OneTabEach, KnowledgeInv, KnowledgeInv', StoreInv, Late PROVE StoreInv'
<1>1. PICK r \in late :
         /\ late' = late \ {r} /\ (history' = history \/ history' = Append(history, r.ws))
         /\ UNCHANGED <<cache, writes, phase, fetched, view, timer, status, base, rev, saves, push, edits, seen, copies>>
  BY DEF Late, cacheVars, screenVars, fieldVars, queueVars, countVars
<1>2. Moves
  BY <1>1, MoreWords DEF StoreInv, WordsKnown
<1> DEFINE n == [v \in Device |-> 0]
<1>3. n \in [Device -> {0, 1}] /\ \A v \in Device : n[v] = 0
  OBVIOUS
<1> HIDE DEF n
<1>4. \A v \in Device : Shifted(v, n[v])
  BY <1>1, <1>2, <1>3, DeviceQuiet
<1> QED BY <1>1, <1>2, <1>3, <1>4, AllQuiet

-----------------------------------------------------------------------------
(* The newest push stores what came of it, and ends.                       *)

(* A result, or a merge, is stored behind what it takes no words from.     *)
LEMMA PushStoring ==
    ASSUME OneTabEach, Moves, NEW t \in Tab, StepOf(t), phase[t] = "open",
           push[t] # None, push[t].at # "store", saves[t] = << >>,
           NEW record, NEW then \in {"saved", "merged"}, Sound(record), then = "merged" => record.pending,
           Later(push[t].candidate, record.ws), Later(record.ws, push[t].candidate),
           push'[t] # None, push'[t].at = "store", push'[t].candidate = record.ws,
           push'[t].ws = push[t].ws, push'[t].newest = push[t].newest,
           writes' = Issue(t, writes, record, then),
           UNCHANGED <<cache, phase, view, timer, saves>>, \A u \in Tab : status'[u] = status[u]
    PROVE  StoreInv'
<1> DEFINE v == DeviceOf[t]
           behind == Len(writes[v]) + 1
<1>1. /\ v \in Device /\ Within(view[t], view[t]) /\ PutsInOrder(t) /\ PushInOrder(t)
      /\ ScreenHolds(t) /\ ScreenSaved(t)
  BY SyncAssumption DEF SyncAssumption, Moves, StoreInv, TabStores
<1>2. \A a, b : Within(a, b) => Later(a, b)
  BY WithinStays
<1>3. \A a, b, d : Later(a, b) /\ Later(b, d) => Later(a, d)
  BY LaterThrough
<1>4. Live(v) = {}
  <2>1. ASSUME NEW i \in Live(v) PROVE FALSE
    <3>1. writes[v][i].then \in {"load", "save"}
      BY OwnPuts DEF Moves
    <3>2. writes[v][i].then # "load"
      BY OwnPuts DEF Moves
    <3>3. \E k \in DOMAIN saves[t] : TRUE
      BY <1>1, <3>1, <3>2 DEF PutsInOrder
    <3> QED BY <3>3
  <2> QED BY <2>1
<1>5. Later(record.ws, record.ws) /\ \A ws \in Stock(v) : Later(ws, record.ws)
  <2>1. \A ws \in Stock(v) : Later(ws, push[t].candidate)
    BY <1>1, <1>2 DEF ScreenHolds
  <2> QED BY <1>3, <2>1
<1>6. /\ DeviceStores(v)' /\ Stock(v)' \subseteq Stock(v) \cup {record.ws}
      /\ \A i \in Live(v)' : i = behind
      /\ writes'[v][behind].record = record /\ writes'[v][behind].then = then
  <2>1. then # "aborted" /\ cache' = cache
    OBVIOUS
  <2>2. /\ DeviceStores(v)' /\ Stock(v)' \subseteq Stock(v) \cup {record.ws}
        /\ \A i \in Live(v)' : i \in Live(v) \/ i = behind
        /\ writes'[v][behind].record = record /\ writes'[v][behind].then = then
    BY <1>5, <2>1, DeviceIssues
  <2> QED BY <1>4, <2>2
<1>7. PutsInOrder(t)'
  BY <1>6 DEF PutsInOrder
<1>8. SavesInOrder(t)' /\ WorkStored(t)'
  BY DEF SavesInOrder, WorkStored
<1>9. PushInOrder(t)'
  <2>1. /\ Later(push[t].ws, push[t].candidate) /\ Later(push[t].candidate, push[t].ws)
        /\ Later(push[t].candidate, view[t]) /\ push[t].newest
    BY <1>1, <1>2 DEF PushInOrder
  <2>2. Later(push[t].ws, record.ws) /\ Later(record.ws, push[t].ws) /\ Later(record.ws, view[t])
    BY <1>3, <2>1
  <2> QED BY <2>1, <2>2 DEF PushInOrder, Within, Later
<1>10. ScreenHolds(t)'
  <2>1. Later(record.ws, view[t])
    BY <1>1, <1>2, <1>3 DEF PushInOrder
  <2>2. \A ws \in Stock(v)' : Later(ws, view[t]) /\ Later(ws, record.ws)
    BY <1>1, <1>2, <1>5, <1>6, <2>1 DEF ScreenHolds
  <2> QED BY <2>2 DEF ScreenHolds, Within, Later
<1>11. ScreenSaved(t)'
  <2>1. ~timer[t] => Later(view[t], push[t].candidate)
    BY <1>1, <1>2 DEF ScreenSaved
  <2>2. ~timer[t] => Later(view[t], record.ws)
    BY <1>3, <2>1
  <2> QED BY <2>2 DEF ScreenSaved, Within, Later
<1>12. TabStores(t)'
  BY <1>1, <1>2, <1>7, <1>8, <1>9, <1>10, <1>11, TabStored
<1>13. Elsewhere(t)
  BY IssuedHere DEF Moves
<1> QED BY <1>6, <1>12, <1>13, StoreStep

LEMMA SavedAnswerStores ==
    ASSUME NullNone, OneTabEach, KnowledgeInv, KnowledgeInv', StoreInv, NEW t \in Tab, SavedAnswer(t)
    PROVE  StoreInv'
<1> DEFINE p == push[t]
           p2 == [p EXCEPT !.at = "store"]
           record == Record(p.candidate, p.candidate, p.answer.rev, FALSE)
<1>1. /\ p # None /\ p.at = "saved"
      /\ base' = [base EXCEPT ![t] = p.candidate] /\ rev' = [rev EXCEPT ![t] = p.answer.rev]
      /\ status' = [status EXCEPT ![t] = status[t]]
      /\ UNCHANGED <<history, late, cache, phase, fetched, view, timer, saves, edits, seen, copies>>
      /\ IF p.newest
         THEN writes' = Issue(t, writes, record, "saved") /\ push' = [push EXCEPT ![t] = p2]
         ELSE writes' = writes /\ push' = [push EXCEPT ![t] = None]
  BY DEF SavedAnswer, Adopts, serverVars, screenVars, countVars
<1>2. IsRequest(p, history) /\ phase[t] = "open" /\ PushInOrder(t)
  BY <1>1 DEF KnowledgeInv, TabKnows, PushKnows, IsPush, StoreInv, TabStores
<1>3. Moves
  BY <1>1, SameWords DEF StoreInv, WordsKnown
<1>4. StepOf(t)
  BY <1>1, ExtendsItself DEF KnowledgeInv, Families, StepOf, Untouched
<1>5. Later(p.candidate, p.candidate)
  BY <1>1, <1>2, <1>3, WithinStays, LaterWritten, LaterItself DEF PushInOrder
<1>6. \A u \in Tab : status'[u] = status[u]
  BY <1>1
<1>7. CASE p.newest
  <2>1. /\ IsPush(p2, history) /\ p2.at = "store" /\ SameCall(p2, p) /\ p2.candidate = p.candidate
    BY <1>2, StoringPush
  <2> HIDE DEF p2
  <2>2. push'[t] = p2 /\ p2 # None
    BY <1>1, <1>7, <2>1 DEF KnowledgeInv, Families, IsPush, IsRequest, NullNone, IsFunction
  <2>3. record.ws = p.candidate /\ Sound(record)
    <3>1. record # None
      BY RecordIsThere
    <3> QED BY <3>1 DEF Record, Sound
  <2> HIDE DEF record
  <2>4. saves[t] = << >> /\ writes' = Issue(t, writes, record, "saved")
    BY <1>1, <1>2, <1>7 DEF PushInOrder
  <2>5. p2.ws = p.ws /\ p2.newest = p.newest
    BY <2>1 DEF SameCall
  <2>6. UNCHANGED <<cache, phase, view, timer, saves>>
    BY <1>1
  <2> HIDE DEF p
  <2>7. p = push[t]
    BY DEF p
  <2> QED BY <1>1, <1>2, <1>3, <1>4, <1>5, <1>6, <2>1, <2>2, <2>3, <2>4, <2>5, <2>6, <2>7, PushStoring
<1>8. CASE ~p.newest
  <2>1. push'[t] = None /\ writes' = writes
    BY <1>1, <1>8 DEF KnowledgeInv, Families
  <2>2. saves[t] # << >>
    BY <1>1, <1>2, <1>8 DEF PushInOrder
  <2> QED BY <1>1, <1>2, <1>3, <1>4, <1>6, <2>1, <2>2, PushContinues DEF PushGoesOn
<1> QED BY <1>7, <1>8

(* The screen shows what came of a push, or what it did.                   *)
LEMMA Resolved ==
    ASSUME KnowledgeInv, StoreInv, NEW t \in Tab, NEW ws, Resolve(t, ws)
    PROVE  /\ push'[t] = None /\ timer' \in [Tab -> BOOLEAN]
           /\ \A u \in Tab \ {t} : view'[u] = view[u] /\ push'[u] = push[u] /\ timer'[u] = timer[u]
           /\ \/ view'[t] = view[t] /\ timer'[t] = timer[t]
              \/ view'[t] = ws /\ view[t] = push[t].ws /\ timer'[t] = TRUE
<1> DEFINE shown == push[t].apply /\ view[t] = push[t].ws /\ ws # view[t]
<1>1. /\ view' = [view EXCEPT ![t] = IF shown THEN ws ELSE view[t]]
      /\ timer' = [timer EXCEPT ![t] = timer[t] \/ shown]
      /\ push' = [push EXCEPT ![t] = None]
      /\ shown => view[t] = push[t].ws
  BY DEF Resolve
<1>2. timer \in [Tab -> BOOLEAN] /\ DOMAIN view = Tab /\ DOMAIN push = Tab
  BY DEF StoreInv, WordsKnown, KnowledgeInv, Families
<1> HIDE DEF shown
<1>3. (timer[t] \/ shown) \in BOOLEAN
  OBVIOUS
<1>4. /\ push'[t] = None /\ timer' \in [Tab -> BOOLEAN]
      /\ \A u \in Tab \ {t} : view'[u] = view[u] /\ push'[u] = push[u] /\ timer'[u] = timer[u]
      /\ timer'[t] = (timer[t] \/ shown) /\ view'[t] = IF shown THEN ws ELSE view[t]
  BY <1>1, <1>2, <1>3
<1>5. CASE shown
  <2>1. timer'[t] = TRUE
    BY <1>4, <1>5
  <2> QED BY <1>1, <1>4, <1>5, <2>1
<1>6. CASE ~shown
  <2>1. timer[t] \in BOOLEAN
    BY <1>2
  <2>2. timer'[t] = timer[t]
    BY <1>4, <1>6, <2>1
  <2> QED BY <1>4, <1>6, <2>2
<1> QED BY <1>5, <1>6

(* The push is over; what it had is on the screen, or is where it says.    *)
LEMMA PushEnds ==
    ASSUME OneTabEach, Moves, NEW t \in Tab, StepOf(t), Elsewhere(t), phase[t] = "open", phase' = phase,
           push[t] # None, push'[t] = None, saves' = saves,
           NEW n \in {0, 1}, Shifted(DeviceOf[t], n), Stock(DeviceOf[t])' \subseteq Stock(DeviceOf[t]),
           DeviceStores(DeviceOf[t])', \A u \in Tab \ {t} : timer'[u] = timer[u] /\ status'[u] = status[u],
           \/ view'[t] = view[t] /\ timer'[t] = timer[t]
           \/ view'[t] = push[t].candidate /\ view[t] = push[t].ws /\ timer'[t] = TRUE,
           saves[t] # << >> => Uncached(saves[t]) # {},
           saves[t] = << >> /\ status'[t] = "unsynced" =>
               /\ cache'[DeviceOf[t]] # None /\ cache'[DeviceOf[t]].pending
               /\ Later(push[t].candidate, cache'[DeviceOf[t]].ws)
    PROVE  StoreInv'
<1>1. Within(view[t], view[t]) /\ PushInOrder(t) /\ ScreenSaved(t)
  BY DEF Moves, StoreInv, TabStores
<1>2. Later(view[t], view'[t])
  BY <1>1, WithinStays DEF PushInOrder
<1>3. PushGoesOn(t) /\ WorkStored(t)'
  BY DEF PushGoesOn, WorkStored
<1>4. LastSave(t)' = LastSave(t)
  BY DEF LastSave
<1>5. ScreenSaved(t)'
  <2>1. ASSUME ~timer'[t]
        PROVE  /\ saves[t] # << >> => Later(view'[t], LastSave(t).ws)
               /\ saves[t] = << >> /\ status'[t] = "unsynced" =>
                     /\ cache'[DeviceOf[t]] # None /\ cache'[DeviceOf[t]].pending
                     /\ Later(view'[t], cache'[DeviceOf[t]].ws)
    <3>1. view'[t] = view[t] /\ ~timer[t]
      BY <2>1
    <3>2. /\ saves[t] # << >> => Later(view[t], LastSave(t).ws)
          /\ saves[t] = << >> => Later(view[t], push[t].candidate)
      BY <1>1, <3>1, WithinStays DEF ScreenSaved
    <3> QED BY <3>1, <3>2, LaterThrough
  <2> QED BY <1>4, <2>1 DEF ScreenSaved, InRecord, Within, Later
<1>6. TabStores(t)'
  BY <1>2, <1>3, <1>5, TabGoesOn
<1> QED BY <1>6, StoreStep

LEMMA FailsStores ==
    ASSUME OneTabEach, KnowledgeInv, KnowledgeInv', StoreInv, NEW t \in Tab, Fails(t)
    PROVE  StoreInv'
<1> DEFINE p == push[t]
           v == DeviceOf[t]
<1>1. /\ p # None /\ p.at # "store"
      /\ \A r \in late' : r \in late \/ r.ws = p.candidate
      /\ UNCHANGED <<history, cache, writes, phase, fetched, base, rev, saves, edits, seen, copies>>
      /\ IF p.newest
         THEN Resolve(t, p.candidate) /\ status' = [status EXCEPT ![t] = "unsynced"]
         ELSE push' = [push EXCEPT ![t] = None] /\ UNCHANGED <<status, view, timer>>
  BY DEF Fails, screenVars, cacheVars
<1>2. /\ phase[t] = "open" /\ PushInOrder(t) /\ WorkStored(t) /\ v \in Device
      /\ Written(p.candidate, edits, copies)
  BY <1>1, SyncAssumption DEF KnowledgeInv, TabKnows, StoreInv, TabStores, PushInOrder, Within, Contained, SyncAssumption
<1>3. CASE p.newest
  <2>1. /\ push'[t] = None /\ timer' \in [Tab -> BOOLEAN]
        /\ \A u \in Tab \ {t} : view'[u] = view[u] /\ push'[u] = push[u] /\ timer'[u] = timer[u]
        /\ \/ view'[t] = view[t] /\ timer'[t] = timer[t]
           \/ view'[t] = p.candidate /\ view[t] = push[t].ws /\ timer'[t] = TRUE
    BY <1>1, <1>3, Resolved
  <2>2. DOMAIN status' = Tab /\ \A u \in Tab \ {t} : status'[u] = status[u]
    BY <1>1, <1>3 DEF StoreInv, WordsKnown
  <2>3. Moves
    BY <1>1, <1>2, <2>1, <2>2, MoreWords
  <2>4. StepOf(t)
    BY <1>1, <2>1, <2>3 DEF Moves, StepOf, Untouched
  <2>5. Shifted(v, 0) /\ DeviceStores(v)' /\ Stock(v)' = Stock(v) /\ Elsewhere(t)
    BY <1>1, <1>2, <2>3, DeviceQuiet DEF Elsewhere
  <2>6. saves[t] = << >>
    BY <1>1, <1>2, <1>3 DEF PushInOrder
  <2>7. cache'[v] # None /\ cache'[v].pending /\ Later(p.candidate, cache'[v].ws)
    BY <1>1, <1>2, <2>3, <2>6, WithinStays DEF WorkStored, InRecord
  <2> QED BY <1>1, <1>2, <2>1, <2>2, <2>3, <2>4, <2>5, <2>6, <2>7, PushEnds
<1>4. CASE ~p.newest
  <2>1. push'[t] = None /\ \A u \in Tab \ {t} : push'[u] = push[u]
    BY <1>1, <1>4 DEF KnowledgeInv, Families
  <2>2. saves[t] # << >>
    BY <1>1, <1>2, <1>4 DEF PushInOrder
  <2>3. Moves
    BY <1>1, <1>2, <1>4, MoreWords DEF StoreInv, WordsKnown
  <2>4. StepOf(t)
    BY <1>1, <1>4, <2>1, <2>3 DEF Moves, StepOf, Untouched
  <2> QED BY <1>1, <1>2, <1>4, <2>1, <2>2, <2>3, <2>4, PushContinues DEF PushGoesOn
<1> QED BY <1>3, <1>4

(* A merge has what the push had, or what the server has; the push goes on  *)
(* with it, or ends.                                                       *)
LEMMA ConflictAnswerStores ==
    ASSUME NullNone, CopiesAreNew, OneTabEach, KnowledgeInv, KnowledgeInv', StoreInv,
           NEW t \in Tab, ConflictAnswer(t)
    PROVE  StoreInv'
<1> DEFINE p == push[t]
           server == p.answer.ws
           clashes == Conflicts(server, p.candidate, p.base)
           merged == Reconciled(server, p.candidate, p.base, copies + 1)
           q == Rebased(p, merged)
           p2 == [q EXCEPT !.at = "store"]
           record == Record(merged, server, p.answer.rev, TRUE)
<1>1. /\ p # None /\ p.at = "conflict"
      /\ base' = [base EXCEPT ![t] = server] /\ rev' = [rev EXCEPT ![t] = p.answer.rev]
      /\ copies' = IF clashes \subseteq Setting THEN copies ELSE copies + 1
      /\ UNCHANGED <<history, late, cache, phase, fetched, saves, edits, seen>>
      /\ IF p.newest
         THEN /\ writes' = Issue(t, writes, record, "merged") /\ push' = [push EXCEPT ![t] = p2]
              /\ UNCHANGED <<status, view, timer>>
         ELSE NextTry(t, q) /\ writes' = writes
  BY DEF ConflictAnswer, serverVars, screenVars
<1>2. /\ IsRequest(p, history) /\ phase[t] = "open" /\ PushInOrder(t)
      /\ Known(server, p.answer.rev, history) /\ Known(p.base, p.rev, history)
  BY <1>1 DEF KnowledgeInv, TabKnows, PushKnows, IsPush, IsRequest, StoreInv, TabStores
<1>3. edits \in Nat /\ copies \in Nat /\ copies' \in Nat /\ copies <= copies'
  <2>1. edits \in Nat /\ copies \in Nat
    BY SyncAssumption DEF StoreInv, WordsKnown, Edit, SyncAssumption
  <2> QED BY <1>1, <2>1
<1>4. /\ Written(server, edits, copies) /\ Written(p.base, edits, copies) /\ Written(p.candidate, edits, copies)
      /\ \E n \in DOMAIN history : history[n] = server
      /\ \E n \in DOMAIN history : history[n] = p.base
  <2>1. p.answer.rev + 1 \in DOMAIN history /\ p.rev + 1 \in DOMAIN history
    BY <1>2 DEF Known, KnowledgeInv, Families, IsSequence
  <2>2. history[p.answer.rev + 1] = server /\ history[p.rev + 1] = p.base
    BY <1>2 DEF Known
  <2>3. Written(p.candidate, edits, copies)
    BY <1>1, <1>2 DEF PushInOrder, Within, Contained
  <2> QED BY <2>1, <2>2, <2>3 DEF StoreInv, WordsKnown
<1>5. Written(merged, edits, copies')
  <2>1. /\ Written(merged, edits, copies + 1)
        /\ clashes \subseteq Setting => Written(merged, edits, copies)
    BY <1>3, <1>4, MergeIsWritten
  <2> QED BY <1>1, <2>1
<1>6. Later(p.candidate, merged) /\ Later(merged, p.candidate)
  <2>1. /\ Contained(p.candidate, merged, edits, copies', seen, history)
        /\ Contained(merged, p.candidate, edits, copies', seen, history)
    <3> HIDE DEF server
    <3> QED BY <1>3, <1>4, <1>5, MergeContains
  <2> QED BY <1>1, <2>1 DEF Later
<1>7. IsFunction(merged)
  BY DEF Reconciled, With, IsFunction
<1> HIDE DEF merged
<1>8. IsRequest(q, history) /\ q.candidate = merged /\ q.ws = p.ws /\ q.newest = p.newest
  BY <1>2, <1>7, RebasedPush
<1> HIDE DEF q
<1>9. ASSUME timer' \in [Tab -> BOOLEAN], DOMAIN status' = Tab PROVE Moves
  <2>1. Grows
    BY <1>1, <1>3 DEF Grows
  <2>2. /\ \A n \in DOMAIN history' : Written(history'[n], edits', copies')
        /\ \A r \in late' : Written(r.ws, edits', copies')
    BY <1>1, <1>3, WrittenStays DEF StoreInv, WordsKnown
  <2>3. WordsKnown'
    BY <1>1, <1>3, <1>9, <2>2 DEF StoreInv, WordsKnown
  <2> QED BY <1>1, <2>1, <2>3, ExtendsItself DEF Moves, KnowledgeInv, Families
<1>10. CASE p.newest
  <2>1. IsPush(p2, history) /\ p2.at = "store" /\ SameCall(p2, q) /\ p2.candidate = q.candidate
    BY <1>8, StoringPush
  <2> HIDE DEF p2
  <2>2. /\ push'[t] = p2 /\ p2 # None /\ \A u \in Tab \ {t} : push'[u] = push[u]
        /\ writes' = Issue(t, writes, record, "merged") /\ UNCHANGED <<status, view, timer>>
    BY <1>1, <1>10, <2>1 DEF KnowledgeInv, Families, IsPush, IsRequest, NullNone, IsFunction
  <2>3. record.ws = merged /\ Sound(record) /\ record.pending
    <3>1. record # None
      BY RecordIsThere
    <3> QED BY <3>1 DEF Record, Sound
  <2> HIDE DEF record
  <2>4. Moves
    BY <1>9, <2>2 DEF StoreInv, WordsKnown
  <2>5. StepOf(t)
    BY <1>1, <2>2, <2>4 DEF Moves, StepOf, Untouched
  <2>6. saves[t] = << >>
    BY <1>1, <1>2, <1>10 DEF PushInOrder
  <2>7. p2.ws = p.ws /\ p2.newest = p.newest /\ p2.candidate = merged
    BY <1>8, <2>1 DEF SameCall
  <2>8. UNCHANGED <<cache, phase, view, timer, saves>> /\ \A u \in Tab : status'[u] = status[u]
    BY <1>1, <2>2
  <2> QED BY <1>1, <1>2, <1>6, <2>1, <2>2, <2>3, <2>4, <2>5, <2>6, <2>7, <2>8, PushStoring
<1>11. CASE ~p.newest
  <2>1. ~q.newest /\ saves[t] # << >>
    BY <1>1, <1>2, <1>8, <1>11 DEF PushInOrder
  <2>2. /\ \/ push' = [push EXCEPT ![t] = Resent(q)]
           \/ push' = [push EXCEPT ![t] = None]
        /\ UNCHANGED <<status, view, timer, writes>>
    BY <1>1, <1>11, <2>1 DEF NextTry, Resent, screenVars
  <2>3. Resent(q).at = "sent" /\ Resent(q).candidate = merged /\ Resent(q).newest = p.newest /\ Resent(q).ws = p.ws
    BY <1>8, ResentPush
  <2>4. (push'[t] = Resent(q) \/ push'[t] = None) /\ \A u \in Tab \ {t} : push'[u] = push[u]
    BY <2>2 DEF KnowledgeInv, Families
  <2>5. Moves
    BY <1>9, <2>2 DEF StoreInv, WordsKnown
  <2>6. PushGoesOn(t)
    BY <1>1, <1>6, <2>3, <2>4 DEF PushGoesOn
  <2>7. StepOf(t)
    BY <1>1, <2>2, <2>4, <2>5 DEF Moves, StepOf, Untouched
  <2> QED BY <1>1, <1>2, <2>1, <2>2, <2>5, <2>6, <2>7, PushContinues
<1> QED BY <1>10, <1>11

-----------------------------------------------------------------------------
(* A put completes, or is aborted.                                         *)

(* The oldest put leaves the device's queue.                               *)
LEMMA RestShifts ==
    ASSUME KnowledgeInv, NEW v \in Device, writes[v] # << >>, writes' = Rest(v)
    PROVE  /\ Shifted(v, 1) /\ Head(writes[v]) = writes[v][1]
           /\ Head(writes[v]).then # "aborted" => 1 \in Live(v)
           /\ \A x \in Device \ {v} : writes'[x] = writes[x]
<1> DEFINE q == writes[v]
           r == Tail(writes[v])
<1>1. writes'[v] = r /\ \A x \in Device \ {v} : writes'[x] = writes[x]
  BY DEF Rest, KnowledgeInv, Families
<1>2. IsSequence(q)
  BY LivePuts
<1>3. /\ IsSequence(r) /\ Len(q) \in Nat \ {0} /\ DOMAIN q = 1 .. Len(q)
      /\ DOMAIN r = 1 .. Len(q) - 1 /\ Head(q) = q[1]
      /\ \A i \in DOMAIN r : r[i] = q[i + 1]
  BY <1>2, TailIsSequence
<1> HIDE DEF r
<1>4. Len(r) = Len(q) - 1
  BY <1>3 DEF IsSequence
<1>5. 1 \in DOMAIN q /\ \A i \in DOMAIN r : i + 1 \in DOMAIN q
  BY <1>3
<1>6. \A i \in Live(v)' : i \in DOMAIN r /\ r[i].then # "aborted"
  BY <1>1 DEF Live
<1>7. Shifted(v, 1)
  BY <1>1, <1>3, <1>4, <1>5, <1>6 DEF Shifted, Live
<1> QED BY <1>1, <1>3, <1>5, <1>7 DEF Live

(* What a put that completes stores, and the tab that waits for it.        *)
LEMMA PutStored ==
    ASSUME KnowledgeInv, StoreInv, OneTabEach, NEW v \in Device, NEW t \in Tab, Completes(v, t),
           Head(writes[v]).then # "aborted"
    PROVE  /\ DeviceOf[t] = v /\ 1 \in Live(v) /\ Head(writes[v]) = writes[v][1]
           /\ cache'[v] = writes[v][1].record /\ Remembers(writes[v][1].record, history) /\ cache'[v] # None
           /\ PutsInOrder(t) /\ \A x \in Device \ {v} : cache'[x] = cache[x]
<1> DEFINE put == writes[v][1]
<1>1. Head(writes[v]) = put /\ 1 \in DOMAIN writes[v]
  BY TailIsSequence DEF Completes, KnowledgeInv, PutsFit, Fit
<1>2. 1 \in Live(v)
  BY <1>1 DEF Live
<1>3. Remembers(put.record, history) /\ DeviceOf[put.tab] = v
  BY <1>2, LivePuts
<1>4. cache'[v] = put.record /\ \A x \in Device \ {v} : cache'[x] = cache[x]
  BY <1>1 DEF Completes, KnowledgeInv, Families
<1>5. PutsInOrder(t) /\ put.record # None
  BY <1>2 DEF StoreInv, TabStores, DeviceStores, Sound
<1> QED BY <1>1, <1>2, <1>3, <1>4, <1>5 DEF Completes

(* A tab opens with what the server has, which takes nothing from others.  *)
LEMMA LoadStoredStores ==
    ASSUME OneTabEach, KnowledgeInv, KnowledgeInv', StoreInv, NEW v \in Device, NEW t \in Tab,
           Completes(v, t), Head(writes[v]).then = "load", LoadStored(t, Rest(v)),
           UNCHANGED <<edits, seen, copies>>
    PROVE  StoreInv'
<1>1. /\ phase' = [phase EXCEPT ![t] = "open"] /\ view' = [view EXCEPT ![t] = base[t]]
      /\ timer' = [timer EXCEPT ![t] = TRUE] /\ fetched' = [fetched EXCEPT ![t] = None]
      /\ status' = [status EXCEPT ![t] = "synchronized"] /\ writes' = Rest(v) /\ writes[v] # << >>
      /\ UNCHANGED <<saves, push, history, late, base, rev>>
  BY DEF LoadStored, Shows, queueVars, Completes
<1>2. /\ DeviceOf[t] = v /\ 1 \in Live(v) /\ Head(writes[v]) = writes[v][1]
      /\ cache'[v] = writes[v][1].record /\ Remembers(writes[v][1].record, history) /\ cache'[v] # None
      /\ PutsInOrder(t) /\ \A x \in Device \ {v} : cache'[x] = cache[x]
  BY PutStored
<1>3. Shifted(v, 1) /\ \A x \in Device \ {v} : writes'[x] = writes[x]
  BY <1>1, RestShifts
<1>4. /\ phase[t] = "store" /\ saves[t] = << >> /\ push[t] = None
      /\ Known(base[t], rev[t], history) /\ cache'[v].ws = writes[v][1].record.base
  <2>1. phase[t] = "store"
    BY <1>2, OwnPuts
  <2> QED BY <1>2, <2>1, LoadsAlone DEF KnowledgeInv, TabKnows, PutsInOrder
<1>5. Moves
  BY <1>1, SameWords DEF StoreInv, WordsKnown
<1>6. StepOf(t)
  BY <1>1, ExtendsItself DEF KnowledgeInv, Families, StepOf, Untouched
<1>7. phase'[t] = "open" /\ view'[t] = base[t] /\ timer'[t] = TRUE
  BY <1>1 DEF KnowledgeInv, Families, StoreInv, WordsKnown
<1>8. DeviceStores(v)'
  BY <1>2, <1>3, <1>5, DeviceShifts
<1>9. Live(v)' = {}
  <2>1. ASSUME NEW i \in Live(v)' PROVE FALSE
    <3>1. i + 1 \in Live(v) /\ i + 1 # 1
      BY <1>3, <2>1, LiveLater DEF Shifted
    <3>2. writes[v][i + 1].then = "load" /\ writes[v][i + 1].tab = t
      BY <1>2, <1>4, <3>1, OwnPuts
    <3>3. writes[v][1].tab = t
      BY <1>2, OwnPuts
    <3> QED BY <1>2, <3>1, <3>2, <3>3, LivePuts DEF Rivals
  <2> QED BY <2>1
<1>10. Written(base[t], edits', copies')
  BY <1>1, <1>4, <1>5 DEF Known, KnowledgeInv, Families, IsSequence, StoreInv, WordsKnown
<1>11. \A ws \in Stock(v)' : Later(ws, base[t])
  <2>1. Known(cache'[v].ws, writes[v][1].record.rev, history')
    BY <1>1, <1>2, <1>4 DEF Remembers
  <2>2. Later(cache'[v].ws, base[t])
    BY <1>5, <1>10, <2>1, LaterRevision
  <2>3. \A ws \in Stock(v)' : ws = cache'[v].ws
    BY <1>2, <1>9 DEF Stock
  <2> QED BY <2>2, <2>3
<1>12. TabStores(t)'
  BY <1>1, <1>2, <1>4, <1>7, <1>9, <1>10, <1>11, LaterItself, NothingWaits
<1>13. \A u \in Tab \ {t} : timer'[u] = timer[u] /\ status'[u] = status[u]
  BY <1>1
<1> QED BY <1>2, <1>3, <1>5, <1>6, <1>8, <1>12, <1>13, StoreStep DEF Elsewhere

(* What a push brought is stored: the work it was for is on the server.    *)
LEMMA ResultStoredStores ==
    ASSUME OneTabEach, KnowledgeInv, KnowledgeInv', StoreInv, NEW v \in Device, NEW t \in Tab,
           Completes(v, t), Head(writes[v]).then = "saved", ResultStored(t, Rest(v)),
           UNCHANGED <<edits, seen, copies>>
    PROVE  StoreInv'
<1> DEFINE p == push[t]
<1>1. /\ Resolve(t, p.candidate) /\ status' = [status EXCEPT ![t] = "synchronized"]
      /\ writes' = Rest(v) /\ writes[v] # << >>
      /\ UNCHANGED <<phase, fetched, saves, history, late, base, rev>>
  BY DEF ResultStored, Completes
<1>2. /\ DeviceOf[t] = v /\ 1 \in Live(v) /\ Head(writes[v]) = writes[v][1]
      /\ cache'[v] = writes[v][1].record /\ cache'[v] # None
      /\ PutsInOrder(t) /\ \A x \in Device \ {v} : cache'[x] = cache[x]
  BY PutStored
<1>3. Shifted(v, 1) /\ \A x \in Device \ {v} : writes'[x] = writes[x]
  BY <1>1, RestShifts
<1>4. p # None /\ phase[t] = "open" /\ (saves[t] # << >> => Uncached(saves[t]) # {})
  BY <1>2, OwnPuts DEF PutsInOrder
<1>5. /\ push'[t] = None /\ timer' \in [Tab -> BOOLEAN]
      /\ \A u \in Tab \ {t} : view'[u] = view[u] /\ push'[u] = push[u] /\ timer'[u] = timer[u]
      /\ \/ view'[t] = view[t] /\ timer'[t] = timer[t]
         \/ view'[t] = p.candidate /\ view[t] = push[t].ws /\ timer'[t] = TRUE
  BY <1>1, Resolved
<1>6. /\ DOMAIN status' = Tab /\ status'[t] # "unsynced"
      /\ \A u \in Tab \ {t} : status'[u] = status[u]
  BY <1>1 DEF StoreInv, WordsKnown
<1>7. Moves
  BY <1>1, <1>5, <1>6, SameWords
<1>8. StepOf(t)
  BY <1>1, <1>5, <1>7 DEF Moves, StepOf, Untouched
<1>9. DeviceStores(v)' /\ Stock(v)' \subseteq Stock(v)
  BY <1>2, <1>3, <1>7, DeviceShifts
<1>10. Elsewhere(t)
  BY <1>2, <1>3 DEF Elsewhere
<1>11. /\ phase' = phase /\ saves' = saves /\ \A u \in Tab \ {t} : timer'[u] = timer[u] /\ status'[u] = status[u]
       /\ Shifted(DeviceOf[t], 1) /\ DeviceStores(DeviceOf[t])' /\ Stock(DeviceOf[t])' \subseteq Stock(DeviceOf[t])
  <2>1. phase' = phase /\ saves' = saves /\ \A u \in Tab \ {t} : timer'[u] = timer[u] /\ status'[u] = status[u]
    BY <1>1, <1>5, <1>6
  <2> QED BY <1>2, <1>3, <1>9, <2>1
<1> HIDE DEF p
<1>12. p = push[t]
  BY DEF p
<1> QED BY <1>4, <1>5, <1>6, <1>7, <1>8, <1>10, <1>11, <1>12, PushEnds

(* A merge is stored: it is in the record until its push says it is saved. *)
LEMMA MergeStoredStores ==
    ASSUME NullNone, OneTabEach, KnowledgeInv, KnowledgeInv', StoreInv, NEW v \in Device, NEW t \in Tab,
           Completes(v, t), Head(writes[v]).then = "merged", MergeStored(t, Rest(v)),
           UNCHANGED <<edits, seen, copies>>
    PROVE  StoreInv'
<1> DEFINE p == push[t]
<1>1. /\ writes' = Rest(v) /\ writes[v] # << >>
      /\ UNCHANGED <<phase, fetched, saves, history, late, base, rev>>
      /\ \/ push' = [push EXCEPT ![t] = Resent(p)] /\ UNCHANGED <<status, view, timer>>
         \/ Resolve(t, p.candidate) /\ status' = [status EXCEPT ![t] = "unsynced"]
         \/ ~p.newest /\ push' = [push EXCEPT ![t] = None] /\ UNCHANGED <<status, view, timer>>
  BY DEF MergeStored, NextTry, Resent, screenVars, Completes
<1>2. /\ DeviceOf[t] = v /\ 1 \in Live(v) /\ Head(writes[v]) = writes[v][1]
      /\ cache'[v] = writes[v][1].record /\ cache'[v] # None
      /\ PutsInOrder(t) /\ \A x \in Device \ {v} : cache'[x] = cache[x]
  BY PutStored
<1>3. Shifted(v, 1) /\ \A x \in Device \ {v} : writes'[x] = writes[x]
  BY <1>1, RestShifts
<1>4. /\ p # None /\ phase[t] = "open" /\ (saves[t] # << >> => Uncached(saves[t]) # {})
      /\ cache'[v].pending /\ cache'[v].ws = p.candidate
  BY <1>2, OwnPuts DEF PutsInOrder
<1>5. /\ IsRequest(p, history) /\ Within(view[t], view[t]) /\ PushInOrder(t) /\ ScreenSaved(t)
      /\ v \in Device
  BY <1>4 DEF KnowledgeInv, PushKnows, IsPush, StoreInv, TabStores
<1>6. ASSUME timer' \in [Tab -> BOOLEAN], DOMAIN status' = Tab,
             \A u \in Tab \ {t} : view'[u] = view[u] /\ push'[u] = push[u]
      PROVE  /\ Moves /\ StepOf(t) /\ DeviceStores(v)' /\ Stock(v)' \subseteq Stock(v)
             /\ Later(p.candidate, cache'[v].ws)
  <2>1. Moves
    BY <1>1, <1>6, SameWords
  <2>2. StepOf(t)
    BY <1>1, <1>6, <2>1 DEF Moves, StepOf, Untouched
  <2>3. Later(p.candidate, p.candidate)
    BY <1>4, <1>5, <2>1, WithinStays, LaterWritten, LaterItself DEF PushInOrder
  <2> QED BY <1>2, <1>3, <1>4, <2>1, <2>2, <2>3, DeviceShifts
<1>7. Elsewhere(t)
  BY <1>2, <1>3 DEF Elsewhere
<1>8. CASE push' = [push EXCEPT ![t] = Resent(p)] /\ UNCHANGED <<status, view, timer>>
  <2>1. /\ push'[t] = Resent(p) /\ \A u \in Tab \ {t} : push'[u] = push[u]
        /\ timer' \in [Tab -> BOOLEAN] /\ DOMAIN status' = Tab
    BY <1>8 DEF KnowledgeInv, Families, StoreInv, WordsKnown
  <2>2. Resent(p).candidate = p.candidate /\ Resent(p).ws = p.ws /\ Resent(p).newest = p.newest
        /\ Resent(p).at = "sent" /\ IsPush(Resent(p), history)
    BY <1>5, ResentPush
  <2>3. /\ Moves /\ StepOf(t) /\ DeviceStores(v)' /\ Stock(v)' \subseteq Stock(v)
        /\ Later(p.candidate, cache'[v].ws)
    BY <1>6, <1>8, <2>1
  <2>4. Resent(p) # None
    BY <2>2 DEF IsPush, IsRequest, IsFunction, NullNone
  <2>5. PushGoesOn(t)
    BY <1>4, <2>1, <2>2, <2>3 DEF PushGoesOn
  <2>6. WorkStored(t)'
    BY <1>1, <1>2, <1>4, <2>1, <2>2, <2>3 DEF WorkStored, InRecord, Within, Later
  <2>7. LastSave(t)' = LastSave(t)
    BY <1>1 DEF LastSave
  <2>8. ScreenSaved(t)'
    BY <1>1, <1>4, <1>5, <1>8, <2>1, <2>2, <2>3, <2>4, <2>7, WithinStays DEF ScreenSaved, Within, Later
  <2>9. TabStores(t)'
    BY <1>1, <1>2, <1>3, <1>4, <1>5, <1>8, <2>3, <2>5, <2>6, <2>8, WithinStays, TabGoesOn
  <2> QED BY <1>2, <1>7, <1>8, <2>3, <2>9, StoreStep
<1>9. CASE Resolve(t, p.candidate) /\ status' = [status EXCEPT ![t] = "unsynced"]
  <2>1. /\ push'[t] = None /\ timer' \in [Tab -> BOOLEAN]
        /\ \A u \in Tab \ {t} : view'[u] = view[u] /\ push'[u] = push[u] /\ timer'[u] = timer[u]
        /\ \/ view'[t] = view[t] /\ timer'[t] = timer[t]
           \/ view'[t] = p.candidate /\ view[t] = push[t].ws /\ timer'[t] = TRUE
    BY <1>9, Resolved
  <2>2. DOMAIN status' = Tab /\ \A u \in Tab \ {t} : status'[u] = status[u]
    BY <1>9 DEF StoreInv, WordsKnown
  <2>3. /\ Moves /\ StepOf(t) /\ DeviceStores(v)' /\ Stock(v)' \subseteq Stock(v)
        /\ Later(p.candidate, cache'[v].ws)
    BY <1>6, <2>1, <2>2
  <2> QED BY <1>1, <1>2, <1>3, <1>4, <1>7, <2>1, <2>2, <2>3, PushEnds
<1>10. CASE ~p.newest /\ push' = [push EXCEPT ![t] = None] /\ UNCHANGED <<status, view, timer>>
  <2>1. /\ push'[t] = None /\ timer' \in [Tab -> BOOLEAN] /\ DOMAIN status' = Tab
        /\ \A u \in Tab \ {t} : push'[u] = push[u]
    BY <1>10 DEF KnowledgeInv, Families, StoreInv, WordsKnown
  <2>2. /\ Moves /\ StepOf(t) /\ DeviceStores(v)' /\ Stock(v)' \subseteq Stock(v)
        /\ Later(p.candidate, cache'[v].ws)
    BY <1>6, <1>10, <2>1
  <2> QED BY <1>1, <1>2, <1>3, <1>4, <1>7, <1>10, <2>1, <2>2, PushEnds
<1> QED BY <1>1, <1>8, <1>9, <1>10

(* A save is stored; the one behind it is issued, if there is one.         *)
LEMMA SaveStoredStores ==
    ASSUME NullNone, OneTabEach, KnowledgeInv, KnowledgeInv', StoreInv, NEW v \in Device, NEW t \in Tab,
           Completes(v, t), Head(writes[v]).then = "save", SaveStored(t, Rest(v)),
           UNCHANGED <<edits, seen, copies>>
    PROVE  StoreInv'
<1> DEFINE q == saves[t]
           N == Len(saves[t])
           U == Uncached(saves[t])
           first == CHOOSE i \in U : \A j \in U : i <= j
           left == U \ {first}
           record == PendingRecord(t, saves[t][first + 1].ws)
           r == saves'[t]
<1>1. /\ saves' = [saves EXCEPT ![t][first].cached = TRUE] /\ writes[v] # << >>
      /\ writes' = IF left = {} THEN Rest(v) ELSE Issue(t, Rest(v), record, "save")
      /\ status' = [status EXCEPT ![t] = "synchronizing"]
      /\ UNCHANGED <<phase, fetched, view, timer, push, history, late, base, rev>>
  BY DEF SaveStored, screenVars, Completes
<1>2. /\ DeviceOf[t] = v /\ 1 \in Live(v) /\ Head(writes[v]) = writes[v][1]
      /\ cache'[v] = writes[v][1].record /\ cache'[v] # None
      /\ PutsInOrder(t) /\ \A x \in Device \ {v} : cache'[x] = cache[x]
  BY PutStored
<1>3. /\ phase[t] = "open" /\ Within(view[t], view[t]) /\ SavesInOrder(t) /\ PushInOrder(t) /\ ScreenSaved(t)
      /\ DeviceStores(v) /\ IsSequence(q) /\ \A i \in DOMAIN q : IsSave(q[i])
  <2>1. phase[t] = "open"
    BY <1>2, OwnPuts
  <2> QED BY <2>1 DEF StoreInv, TabStores, KnowledgeInv, TabKnows
<1>4. /\ cache'[v].pending /\ 1 = Len(writes[v])
      /\ \E k \in DOMAIN q : Resumed(t, k) /\ cache'[v].ws = q[k].ws
  BY <1>2 DEF PutsInOrder
<1>5. PICK k \in DOMAIN q : Resumed(t, k) /\ cache'[v].ws = q[k].ws
  BY <1>4
<1>6. /\ N \in Nat \ {0} /\ DOMAIN q = 1 .. N /\ k \in 1 .. N /\ N \in DOMAIN q /\ k \in Nat
      /\ ~q[k].cached /\ \A j \in 1 .. k - 1 : q[j].cached
  BY <1>3, <1>5 DEF IsSequence, Resumed
<1>7. first = k
  <2>1. k \in U /\ U \subseteq 1 .. N
    BY <1>5, <1>6 DEF Uncached
  <2>2. ASSUME NEW j \in U PROVE k <= j
    <3>1. j \in 1 .. N /\ ~q[j].cached
      BY <2>1 DEF Uncached
    <3> QED BY <1>6, <3>1
  <2>3. first \in U /\ \A j \in U : first <= j
    BY <2>1, <2>2
  <2> HIDE DEF first, U
  <2>4. first <= k /\ k <= first /\ first \in Nat /\ k \in Nat
    BY <1>6, <2>1, <2>2, <2>3
  <2> QED BY <2>4
<1> HIDE DEF first
<1>8. /\ DOMAIN r = 1 .. N /\ Len(r) = N /\ r[k].cached = TRUE
      /\ \A j \in 1 .. N : r[j].ws = q[j].ws /\ r[j].newest = q[j].newest /\ (j # k => r[j] = q[j])
  <2> DEFINE s == [q[k] EXCEPT !.cached = TRUE]
             m == [q EXCEPT ![k] = s]
  <2>1. r = m
    BY <1>1, <1>7 DEF KnowledgeInv, Families
  <2>2. s.cached = TRUE /\ s.ws = q[k].ws /\ s.newest = q[k].newest
    BY <1>3, <1>5 DEF IsSave, SaveFields
  <2> HIDE DEF s, q, N
  <2>3. IsFunction(m) /\ DOMAIN m = DOMAIN q /\ m[k] = s /\ \A j \in DOMAIN q : j # k => m[j] = q[j]
    BY <1>5 DEF IsFunction
  <2> HIDE DEF m
  <2>4. Len(m) = N
    BY <1>3, <2>3, MappedIsSequence DEF N, q
  <2> HIDE DEF r
  <2> QED BY <1>6, <2>1, <2>2, <2>3, <2>4
<1>9. \A j \in 1 .. N : j > k => ~q[j].cached
  <2>1. ASSUME NEW j \in 1 .. N, j > k PROVE q[j].cached => q[k].cached
    <3>1. k \in 1 .. j
      BY <1>6, <2>1
    <3> QED BY <1>3, <1>6, <2>1, <3>1 DEF SavesInOrder
  <2> QED BY <1>6, <2>1
<1>10. (left = {} <=> k = N) /\ (k # N => k + 1 \in 1 .. N /\ ~r[k + 1].cached) /\ (k = N => Uncached(r) = {})
  <2>1. k # N => k + 1 \in 1 .. N /\ k + 1 > k /\ k + 1 # k
    BY <1>6
  <2>2. k # N => k + 1 \in left /\ ~r[k + 1].cached
    BY <1>6, <1>7, <1>8, <1>9, <2>1 DEF Uncached
  <2>3. ASSUME k = N, NEW j \in 1 .. N PROVE r[j].cached /\ (j # k => q[j].cached)
    <3>1. j # k => j \in 1 .. k - 1
      BY <1>6, <2>3
    <3> QED BY <1>6, <1>8, <3>1
  <2>4. k = N => left = {} /\ Uncached(r) = {}
    BY <1>6, <1>7, <1>8, <2>3 DEF Uncached
  <2> QED BY <2>1, <2>2, <2>4
<1>11. Moves
  BY <1>1, SameWords DEF StoreInv, WordsKnown, Completes
<1>12. \A a, b : Within(a, b) => Later(a, b)
  BY <1>11, WithinStays
<1>13. StepOf(t)
  BY <1>1, ExtendsItself DEF KnowledgeInv, Families, StepOf, Untouched
<1>14. /\ record.ws = saves[t][first + 1].ws /\ record.pending = TRUE /\ record # None
  BY RecordIsThere DEF PendingRecord, Record
<1> HIDE DEF record, left, U
<1>15. /\ \A x \in Device \ {v} : writes'[x] = writes[x]
       /\ \A i \in Live(v)' : /\ k # N /\ i = 1 /\ Len(writes'[v]) = 1
                              /\ writes'[v][i].record = record /\ writes'[v][i].then = "save"
  <2>1. Len(writes[v]) = 1
    BY <1>4
  <2>2. CASE left = {}
    <3>1. Shifted(v, 1) /\ \A x \in Device \ {v} : writes'[x] = writes[x]
      BY <1>1, <2>2, RestShifts
    <3>2. ASSUME NEW i \in Live(v)' PROVE FALSE
      <4>1. i + 1 \in 1 .. Len(writes[v]) /\ i \in Nat /\ i > 0
        BY <3>1, LivePuts, LiveLater DEF Shifted
      <4>2. i + 1 \in 1 .. 1
        BY <2>1, <4>1
      <4> QED BY <4>1, <4>2
    <3> QED BY <3>1, <3>2
  <2>3. CASE left # {}
    <3> DEFINE w == [tab |-> t, record |-> record, then |-> "save"]
               p == Tail(writes[v])
    <3>1. /\ writes'[v] = Append(p, w) /\ \A x \in Device \ {v} : writes'[x] = writes[x]
      BY <1>1, <1>2, <2>3 DEF Issue, Rest, KnowledgeInv, Families
    <3>2. IsSequence(p) /\ DOMAIN p = {}
      <4>1. IsSequence(p) /\ DOMAIN p = 1 .. Len(writes[v]) - 1
        BY <1>1, LivePuts, TailIsSequence
      <4>2. 1 .. Len(writes[v]) - 1 = 1 .. 0 /\ 1 .. 0 = {}
        BY <2>1
      <4> QED BY <4>1, <4>2
    <3>3. w.record = record /\ w.then = "save"
      OBVIOUS
    <3> HIDE DEF w, p
    <3>4. /\ DOMAIN p = 1 .. Len(p) /\ Len(p) \in Nat
          /\ DOMAIN writes'[v] = 1 .. Len(p) + 1 /\ Len(writes'[v]) = Len(p) + 1 /\ writes'[v][Len(p) + 1] = w
      BY <3>1, <3>2, AppendIsSequence
    <3>5. Len(p) = 0
      BY <3>2, <3>4
    <3>6. \A i \in DOMAIN writes'[v] : i = 1
      BY <3>4, <3>5
    <3>7. writes'[v][1] = w /\ Len(writes'[v]) = 1
      BY <3>4, <3>5
    <3> QED BY <1>10, <2>3, <3>1, <3>3, <3>6, <3>7 DEF Live
  <2> QED BY <2>2, <2>3
<1>16. record.ws = q[k + 1].ws
  BY <1>7, <1>14
<1> HIDE DEF q, N, r
<1>17. \A j \in 1 .. N : /\ q[j].newest <=> j = N
                         /\ Later(q[j].ws, view[t]) /\ Later(q[j].ws, q[N].ws)
                         /\ \A i \in 1 .. j : Later(q[i].ws, q[j].ws)
  <2>1. \A j \in 1 .. N : /\ q[j].newest <=> j = N
                          /\ Within(q[j].ws, view[t])
                          /\ \A i \in 1 .. j : Within(q[i].ws, q[j].ws)
    BY <1>3, <1>6 DEF SavesInOrder, q, N
  <2>2. \A j \in 1 .. N : j \in 1 .. N /\ N \in 1 .. N
    BY <1>6
  <2> QED BY <1>12, <2>1, <2>2
<1>18. \A ws \in Stock(v)' : \E j \in 1 .. N : ws = q[j].ws
  <2>1. \A i \in Live(v)' : writes'[v][i].record.ws = q[k + 1].ws /\ k + 1 \in 1 .. N
    BY <1>10, <1>15, <1>16
  <2> QED BY <1>2, <1>5, <1>6, <2>1 DEF Stock
<1>19. DeviceStores(v)'
  <2>1. Sound(cache'[v])
    BY <1>2, <1>3 DEF DeviceStores
  <2>2. \A ws \in Stock(v)' : Later(ws, ws)
    <3>1. \A j \in 1 .. N : j \in 1 .. j
      BY <1>6
    <3> QED BY <1>17, <1>18, <3>1
  <2>3. ASSUME NEW j \in Live(v)'
        PROVE  /\ Sound(writes'[v][j].record)
               /\ Later(cache'[v].ws, writes'[v][j].record.ws)
               /\ \A i \in Live(v)' : ~(i < j)
    <3>1. k + 1 \in 1 .. N /\ k \in 1 .. k + 1
      BY <1>6, <1>10, <1>15
    <3>2. Later(q[k].ws, q[k + 1].ws)
      BY <1>17, <3>1
    <3>3. \A i \in Live(v)' : ~(i < j)
      BY <1>15
    <3> QED BY <1>5, <1>14, <1>15, <1>16, <3>2, <3>3 DEF Sound
  <2> QED BY <2>1, <2>2, <2>3 DEF DeviceStores, Within, Later
<1>20. r = saves'[t] /\ q = saves[t] /\ N = Len(saves[t]) /\ push'[t] = push[t] /\ q # << >> /\ r # << >>
  <2>1. q # << >> /\ r # << >>
    BY <1>6, <1>8
  <2> QED BY <1>1, <2>1 DEF q, r, N
<1>21. PutsInOrder(t)'
  <2>1. ASSUME NEW i \in Live(v)'
        PROVE  /\ writes'[v][i].then = "save" /\ writes'[v][i].record.pending /\ i = Len(writes'[v])
               /\ \E j \in DOMAIN r : /\ ~r[j].cached /\ \A n \in 1 .. j - 1 : r[n].cached
                                      /\ writes'[v][i].record.ws = r[j].ws
    <3>1. k + 1 \in 1 .. N /\ ~r[k + 1].cached
      BY <1>10, <1>15
    <3>2. \A n \in 1 .. (k + 1) - 1 : n \in 1 .. N /\ (n = k \/ n \in 1 .. k - 1)
      BY <1>6
    <3>3. \A n \in 1 .. (k + 1) - 1 : r[n].cached
      BY <1>6, <1>8, <3>2
    <3>4. writes'[v][i].record.ws = r[k + 1].ws
      BY <1>8, <1>15, <1>16, <3>1
    <3> QED BY <1>8, <1>14, <1>15, <3>1, <3>3, <3>4
  <2>2. \A i \in Live(v)' : Uncached(r) # {}
    BY <2>1 DEF Uncached
  <2> QED BY <1>2, <1>20, <2>1, <2>2 DEF PutsInOrder, Resumed
<1>22. SavesInOrder(t)'
  <2>1. ASSUME NEW j \in DOMAIN r, r[j].cached, NEW i \in 1 .. j PROVE r[i].cached
    <3>1. j \in 1 .. N /\ i \in 1 .. N
      BY <1>6, <1>8
    <3>2. ~(j > k)
      BY <1>6, <1>8, <1>9, <2>1, <3>1
    <3>3. i = k \/ i \in 1 .. k - 1
      BY <1>6, <3>1, <3>2
    <3> QED BY <1>6, <1>8, <3>1, <3>3
  <2>2. ASSUME NEW j \in DOMAIN r
        PROVE  /\ r[j].newest <=> j = Len(r)
               /\ Later(r[j].ws, view[t]) /\ \A i \in 1 .. j : Later(r[i].ws, r[j].ws)
    <3>1. j \in 1 .. N /\ \A i \in 1 .. j : i \in 1 .. N
      BY <1>6, <1>8
    <3> QED BY <1>8, <1>17, <3>1
  <2> QED BY <1>1, <1>20, <2>1, <2>2 DEF SavesInOrder, Within, Later
<1>23. LastSave(t)'.ws = q[N].ws /\ LastSave(t) = q[N]
  BY <1>6, <1>8, <1>20 DEF LastSave
<1>24. PushInOrder(t)'
  BY <1>1, <1>3, <1>12, <1>20 DEF PushInOrder, Within, Later
<1>25. ScreenHolds(t)'
  <2>1. \A ws \in Stock(v)' : Later(ws, view[t]) /\ Later(ws, q[N].ws)
    BY <1>17, <1>18
  <2> QED BY <1>1, <1>2, <1>20, <1>23, <2>1 DEF ScreenHolds, Within, Later
<1>26. WorkStored(t)'
  <2>1. Uncached(r) = {} => Later(q[N].ws, cache'[v].ws)
    <3>1. Uncached(r) = {} => k = N
      BY <1>8, <1>10 DEF Uncached
    <3> QED BY <1>5, <1>6, <1>17, <3>1
  <2> QED BY <1>2, <1>4, <1>20, <1>23, <2>1 DEF WorkStored, InRecord, Within, Later
<1>27. ScreenSaved(t)'
  BY <1>1, <1>3, <1>12, <1>20, <1>23 DEF ScreenSaved, Within, Later
<1>28. TabStores(t)'
  BY <1>1, <1>3, <1>12, <1>21, <1>22, <1>24, <1>25, <1>26, <1>27, TabStored
<1>29. Elsewhere(t) /\ \A u \in Tab \ {t} : timer'[u] = timer[u] /\ status'[u] = status[u]
  BY <1>1, <1>2, <1>15 DEF Elsewhere
<1> QED BY <1>2, <1>11, <1>13, <1>19, <1>28, <1>29, StoreStep

(* What a closed tab had issued completes, and resumes nothing.            *)
LEMMA AbortedStores ==
    ASSUME OneTabEach, KnowledgeInv, KnowledgeInv', StoreInv, NEW v \in Device,
           writes[v] # << >>, writes' = Rest(v),
           UNCHANGED <<history, late, cache, phase, fetched, view, timer, status, saves, push, edits, seen, copies>>
    PROVE  StoreInv'
<1>1. Moves
  BY SameWords DEF StoreInv, WordsKnown
<1> DEFINE n == [x \in Device |-> IF x = v THEN 1 ELSE 0]
<1>2. n \in [Device -> {0, 1}] /\ n[v] = 1 /\ \A x \in Device \ {v} : n[x] = 0
  OBVIOUS
<1> HIDE DEF n
<1>3. Shifted(v, 1) /\ \A x \in Device \ {v} : writes'[x] = writes[x]
  BY RestShifts
<1>4. \A x \in Device \ {v} : Shifted(x, 0)
  BY <1>1, <1>3, DeviceQuiet
<1>5. \A x \in Device : Shifted(x, n[x])
  BY <1>2, <1>3, <1>4
<1> QED BY <1>1, <1>2, <1>5, AllQuiet

LEMMA StoredStores ==
    ASSUME NullNone, OneTabEach, KnowledgeInv, KnowledgeInv', StoreInv, NEW v \in Device, Stored(v)
    PROVE  StoreInv'
<1> DEFINE put == Head(writes[v])
<1>1. writes[v] # << >> /\ UNCHANGED <<history, late, base, rev, edits, seen, copies>>
  BY DEF Stored, serverVars, countVars
<1>2. \/ /\ \/ put.then = "load" /\ LoadStored(put.tab, Rest(v))
            \/ put.then = "save" /\ SaveStored(put.tab, Rest(v))
            \/ put.then = "saved" /\ ResultStored(put.tab, Rest(v))
            \/ put.then = "merged" /\ MergeStored(put.tab, Rest(v))
         /\ cache' = [cache EXCEPT ![v] = put.record]
      \/ /\ writes' = Rest(v)
         /\ UNCHANGED <<cache, phase, fetched, view, timer, status, saves, push>>
  BY DEF Stored, Rest, screenVars, queueVars
<1>3. put.tab \in Tab
  BY <1>1, FitTail DEF KnowledgeInv, PutsFit, Awaited
<1>4. CASE writes' = Rest(v) /\ UNCHANGED <<cache, phase, fetched, view, timer, status, saves, push>>
  BY <1>1, <1>4, AbortedStores
<1>5. CASE cache' = [cache EXCEPT ![v] = put.record]
           /\ \/ put.then = "load" /\ LoadStored(put.tab, Rest(v))
              \/ put.then = "save" /\ SaveStored(put.tab, Rest(v))
              \/ put.then = "saved" /\ ResultStored(put.tab, Rest(v))
              \/ put.then = "merged" /\ MergeStored(put.tab, Rest(v))
  <2> DEFINE t == put.tab
  <2>1. Completes(v, t)
    BY <1>1, <1>5 DEF Completes
  <2>2. t \in Tab
    BY <1>3
  <2> HIDE DEF t
  <2>3. \/ put.then = "load" /\ LoadStored(t, Rest(v))
        \/ put.then = "save" /\ SaveStored(t, Rest(v))
        \/ put.then = "saved" /\ ResultStored(t, Rest(v))
        \/ put.then = "merged" /\ MergeStored(t, Rest(v))
    BY <1>5 DEF t
  <2> QED
    BY <1>1, <2>1, <2>2, <2>3, LoadStoredStores, SaveStoredStores, ResultStoredStores, MergeStoredStores
<1> QED BY <1>2, <1>4, <1>5

(* A tab that closes leaves the record, and no put that will complete.     *)
LEMMA CloseStores ==
    ASSUME OneTabEach, KnowledgeInv, KnowledgeInv', StoreInv, NEW t \in Tab, Close(t) PROVE StoreInv'
<1> DEFINE v == DeviceOf[t]
           q == writes[v]
           r == [i \in DOMAIN q |-> IF q[i].tab = t THEN [q[i] EXCEPT !.then = "aborted"] ELSE q[i]]
<1>1. /\ writes' = [writes EXCEPT ![v] = r]
      /\ late' = late \/ (/\ push[t] # None
                          /\ late' = late \cup {[ws |-> push[t].candidate, rev |-> push[t].rev]})
      /\ phase' = [phase EXCEPT ![t] = "closed"] /\ fetched' = [fetched EXCEPT ![t] = None]
      /\ view' = [view EXCEPT ![t] = None] /\ timer' = [timer EXCEPT ![t] = FALSE]
      /\ base' = [base EXCEPT ![t] = None] /\ rev' = [rev EXCEPT ![t] = 0]
      /\ status' = [status EXCEPT ![t] = "synchronizing"]
      /\ saves' = [saves EXCEPT ![t] = << >>] /\ push' = [push EXCEPT ![t] = None]
      /\ UNCHANGED <<history, cache, edits, seen, copies>>
  BY DEF Close, Adopts
<1>2. v \in Device /\ writes'[v] = r /\ \A x \in Device \ {v} : writes'[x] = writes[x]
  BY <1>1, SyncAssumption DEF SyncAssumption, KnowledgeInv, Families
<1>3. Fit(v, q, phase, push, base, history)
  BY <1>2 DEF KnowledgeInv, PutsFit
<1>4. Len(writes'[v]) = Len(writes[v]) /\ Len(writes[v]) \in Nat
  <2>1. IsSequence(q) /\ IsFunction(r) /\ DOMAIN r = DOMAIN q
    BY <1>3 DEF Fit, IsFunction
  <2> HIDE DEF r
  <2> QED BY <1>2, <2>1, MappedIsSequence
<1>5. Live(v)' = {}
  <2>1. ASSUME NEW i \in DOMAIN q PROVE r[i].then = "aborted"
    <3>1. IsFunction(q[i]) /\ DOMAIN q[i] = PutFields
      BY <1>3 DEF Fit, Awaited
    <3>2. CASE q[i].tab = t
      BY <3>1, <3>2 DEF PutFields
    <3>3. CASE q[i].tab # t
      <4>1. i \notin Live(v)
        BY <3>3, OwnPuts
      <4> QED BY <3>3, <4>1 DEF Live
    <3> QED BY <3>2, <3>3
  <2>2. DOMAIN r = DOMAIN q
    OBVIOUS
  <2> HIDE DEF r, q
  <2> QED BY <1>2, <2>1, <2>2 DEF Live
<1>6. Shifted(v, 0)
  BY <1>4, <1>5 DEF Shifted
<1>7. timer' \in [Tab -> BOOLEAN] /\ DOMAIN status' = Tab
  BY <1>1 DEF StoreInv, WordsKnown
<1>8. Moves
  <2>1. CASE late' = late
    BY <1>1, <1>7, <2>1, SameWords
  <2>2. CASE push[t] # None /\ late' = late \cup {[ws |-> push[t].candidate, rev |-> push[t].rev]}
    <3>1. Written(push[t].candidate, edits, copies)
      BY <2>2 DEF KnowledgeInv, TabKnows, StoreInv, TabStores, PushInOrder, Within, Contained
    <3>2. \A x \in late' : x \in late \/ x.ws = push[t].candidate
      BY <2>2
    <3> QED BY <1>1, <1>7, <3>1, <3>2, MoreWords
  <2> QED BY <1>1, <2>1, <2>2
<1>9. DeviceStores(v)'
  BY <1>1, <1>2, <1>6, <1>8, DeviceShifts
<1>10. TabStores(t)'
  <2>1. phase'[t] = "closed"
    BY <1>1 DEF KnowledgeInv, Families
  <2> QED BY <1>5, <2>1 DEF TabStores, PutsInOrder
<1>11. StepOf(t)
  BY <1>1, ExtendsItself DEF KnowledgeInv, Families, StepOf, Untouched
<1>12. Elsewhere(t) /\ \A u \in Tab \ {t} : timer'[u] = timer[u] /\ status'[u] = status[u]
  BY <1>1, <1>2 DEF Elsewhere
<1> QED BY <1>8, <1>9, <1>10, <1>11, <1>12, StoreStep

-----------------------------------------------------------------------------
(* The specification, until a first load fails.                            *)

LEMMA StoreAtFirst ==
    ASSUME Init PROVE StoreInv
<1> USE DEF Init
<1>1. edits = 0 /\ copies = 0 /\ DOMAIN history = {1} /\ history[1] = [x \in Doc \cup Setting |-> 0]
  OBVIOUS
<1>2. Written(history[1], 0, 0)
  BY <1>1 DEF Written, Documents
<1>3. 0 \in Edit
  BY SyncAssumption DEF SyncAssumption, Edit
<1>4. seen \in [Edit -> SUBSET Edit] /\ Ordered(0, seen)
  BY <1>3 DEF Ordered
<1>5. WordsKnown
  BY <1>1, <1>2, <1>3, <1>4 DEF WordsKnown
<1>6. \A v \in Device : cache[v] = None /\ Live(v) = {}
  BY DEF Live
<1>7. \A v \in Device : DeviceStores(v)
  BY <1>6 DEF DeviceStores, Stock
<1>8. ASSUME NEW t \in Tab PROVE TabStores(t)
  <2>1. Live(DeviceOf[t]) = {} /\ phase[t] = "closed"
    BY <1>6, SyncAssumption DEF SyncAssumption
  <2> QED BY <2>1 DEF TabStores, PutsInOrder
<1> QED BY <1>5, <1>7, <1>8 DEF StoreInv

LEMMA StoreNext ==
    ASSUME NullNone, CopiesAreNew, OneTabEach, KnowledgeInv, StoreInv, Next, \A t \in Tab : ~LoadFails(t)
    PROVE  KnowledgeInv' /\ StoreInv'
<1>1. KnowledgeInv'
  BY NextKeeps
<1>2. ASSUME NEW t \in Tab, Protocol(t) PROVE StoreInv'
  BY <1>1, <1>2, FetchStores, LoadedStores, SaversStore, StartPushStores, ServeStores, SavedAnswerStores,
     ConflictAnswerStores DEF Protocol
<1>3. ASSUME NEW t \in Tab, Open(t) \/ Online(t) \/ SaveNow(t) \/ Fails(t) \/ Close(t) PROVE StoreInv'
  BY <1>1, <1>3, OpenStores, SaversStore, FailsStores, CloseStores
<1>4. ASSUME NEW t \in Tab,
             \/ phase[t] = "open" /\ \E d \in Documents(view[t]) : Write(t, d)
             \/ \E f \in Setting : Toggle(t, f)
      PROVE  StoreInv'
  BY <1>1, <1>4, WriteStores, ToggleStores
<1>5. (\E v \in Device : Stored(v)) \/ Late => StoreInv'
  BY <1>1, StoredStores, LateStores
<1> QED BY <1>1, <1>2, <1>3, <1>4, <1>5 DEF Next

LEMMA StoreStutter ==
    ASSUME OneTabEach, KnowledgeInv, StoreInv, UNCHANGED vars PROVE KnowledgeInv' /\ StoreInv'
<1>1. KnowledgeInv'
  BY StutterKeeps
<1>2. UNCHANGED <<history, late, cache, writes, phase, fetched, view, timer, status, saves, push, edits, seen, copies>>
  BY DEF vars, serverVars, cacheVars, screenVars, fieldVars, queueVars, countVars
<1>3. Moves
  BY <1>1, <1>2, SameWords DEF StoreInv, WordsKnown
<1> DEFINE n == [v \in Device |-> 0]
<1>4. n \in [Device -> {0, 1}] /\ \A v \in Device : n[v] = 0
  OBVIOUS
<1> HIDE DEF n
<1>5. \A v \in Device : Shifted(v, n[v])
  BY <1>2, <1>3, <1>4, DeviceQuiet
<1> QED BY <1>1, <1>2, <1>3, <1>4, <1>5, AllQuiet

StoredInv == IsSequence(faults) /\ ("load" \notin Suffered => KnowledgeInv /\ StoreInv)

(* What an idle screen shows as saved on this device is in its record.     *)
LEMMA ScreenIsStored ==
    ASSUME StoreInv PROVE UnsyncedIsStored
<1>1. ASSUME NEW t \in Tab, Idle(t), status[t] = "unsynced" PROVE InRecord(t, view[t])
  BY <1>1 DEF StoreInv, TabStores, ScreenSaved, Idle
<1> QED BY <1>1 DEF UnsyncedIsStored, InRecord, Within, Contained, Says, Surfaced, Covers, OnServer

(* A record changes when a put completes, which has what it replaces.      *)
LEMMA WritingStays ==
    ASSUME KnowledgeInv, StoreInv, Next PROVE RecordsKeep
<1>1. UNCHANGED cache \/ \E v \in Device : Stored(v)
  BY DEF Next, Protocol, Open, Fetch, Loaded, Debounced, StartPush, Serve, SavedAnswer, ConflictAnswer, LoadFails,
         Online, SaveNow, Save, Fails, Close, Write, Toggle, Late, cacheVars
<1>2. ASSUME NEW v \in Device, cache[v] # None, NEW e \in Words(cache[v].ws) \ {0}, cache'[v] = cache[v]
      PROVE  Covers(cache'[v].ws, e)
  BY <1>2 DEF Covers
<1>3. ASSUME NEW x \in Device, Stored(x), NEW v \in Device, cache[v] # None, cache'[v] # cache[v]
      PROVE  history' = history /\ Within(cache[v].ws, cache'[v].ws)
  <2>1. /\ history' = history /\ writes[x] # << >>
        /\ cache' = cache \/ (cache' = [cache EXCEPT ![x] = Head(writes[x]).record]
                              /\ Head(writes[x]).then # "aborted")
    BY <1>3 DEF Stored, serverVars
  <2>2. v = x /\ cache'[v] = Head(writes[v]).record /\ Head(writes[v]).then # "aborted"
    BY <1>3, <2>1 DEF KnowledgeInv, Families
  <2>3. Head(writes[v]) = writes[v][1] /\ 1 \in DOMAIN writes[v]
    BY <2>1, <2>2, LivePuts, TailIsSequence
  <2>4. 1 \in Live(v)
    BY <2>2, <2>3 DEF Live
  <2> QED BY <1>3, <2>1, <2>2, <2>3, <2>4 DEF StoreInv, DeviceStores
<1>4. ASSUME NEW v \in Device, cache[v] # None, NEW e \in Words(cache[v].ws) \ {0},
             history' = history, Within(cache[v].ws, cache'[v].ws)
      PROVE  Covers(cache'[v].ws, e) \/ \E n \in DOMAIN history' : Covers(history'[n], e)
  BY <1>4 DEF Within, Contained, Says, Surfaced, Covers
<1> QED BY <1>1, <1>2, <1>3, <1>4 DEF RecordsKeep

(* Closing the browser loses no writing.  With a tab on each device, of    *)
(* authors who edit, save at any moment and close or crash at any, whose   *)
(* requests and answers are lost or late, what an idle screen calls saved  *)
(* on this device is in a record that the next load resumes, or the server *)
(* has held it; and save, push, the merges and load (185-283) never put in *)
(* a record less than they take from it, unless a first load has failed.   *)
THEOREM DevicesKeepWriting ==
    ASSUME NullNone, CopiesAreNew, OneTabEach PROVE Spec => DeviceKeepsWriting
<1>1. Init => StoredInv
  BY KnowledgeAtFirst, StoreAtFirst DEF StoredInv, Init, IsSequence
<1>2. StoredInv /\ [Next]_vars => StoredInv'
  <2>1. CASE UNCHANGED vars
    BY <2>1, StoreStutter DEF StoredInv, vars, countVars, Suffered
  <2>2. CASE Next
    BY <2>2, FaultsStay, StoreNext DEF StoredInv
  <2> QED BY <2>1, <2>2
<1>3. StoredInv => UnsyncedIsStored
  BY ScreenIsStored DEF StoredInv, UnsyncedIsStored
<1>4. StoredInv /\ [Next]_vars => [RecordsKeep]_vars
  BY WritingStays DEF StoredInv, RecordsKeep
<1> QED BY <1>1, <1>2, <1>3, <1>4, PTL DEF Spec, DeviceKeepsWriting
=============================================================================
