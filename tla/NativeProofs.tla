---------------------------- MODULE NativeProofs ----------------------------
(* Theorems about the three modules around the conversation on a device    *)
(* that share nothing with one another.                                    *)
(*                                                                         *)
(* LocalDatabase, for any number of pages and any bounds: only the current *)
(* run of a page owns a connection, recovery pauses writing, and no        *)
(* telemetry event outlives its consent.  The first two are inductive once *)
(* the runs of a page are known to be numbered without gaps, with only the *)
(* last active or open (RunsInv), and a page to be initialized only while  *)
(* no wanted run is under way (ViewFits); the third once switching         *)
(* telemetry on is known to have counted a consent (PreferencesInv).       *)
(*                                                                         *)
(* LegacyServer, for any requests and addresses: the limiter keeps its     *)
(* bound and an address's allowance (LimiterInd), it forgets at most the   *)
(* oldest window, since its Map is in the order in which windows end       *)
(* (OrderInd), and an answer says what happened (RequestsInd).             *)
(*                                                                         *)
(* RealtimeVoice, for any conversation, threads and sessions: an inactive  *)
(* hook is silent (ActiveInv), and events in any order pair an answer with *)
(* the item it follows (PairsInv).                                         *)
EXTENDS LocalDatabase, LegacyServer, RealtimeVoice, FiniteSetTheorems, SequenceTheorems,
        NaturalsInduction, WellFoundedInduction, TLAPS

(***************************************************************************)
(* The local database.                                                     *)
(***************************************************************************)

Run == [stage : {"none", "opening", "reading", "done"}, active : BOOLEAN, open : BOOLEAN]
LatestOf(runs) == Cardinality({g \in 1..MaxRuns : runs[g].stage # "none"})

(* The runs of one page.                                                   *)
RunsInv(runs) ==
    /\ runs \in [1..MaxRuns -> Run]
    /\ LatestOf(runs) \in 0..MaxRuns
    /\ \A g \in 1..MaxRuns : runs[g].stage # "none" <=> g <= LatestOf(runs)
    /\ \A g \in 1..MaxRuns : runs[g].active \/ runs[g].open => g = LatestOf(runs)

(* What a page shows fits its runs, the repositories it uses and what it    *)
(* remembers: it is initialized only once no wanted run is under way.      *)
View == [initialized : BOOLEAN, recovery : BOOLEAN, error : BOOLEAN]
Wanted(r) == r.active /\ r.stage \in {"opening", "reading"}
ViewFits(runs, d, v, f) ==
    /\ v \in View
    /\ v.initialized => /\ \A g \in 1..MaxRuns : ~Wanted(runs[g])
                        /\ v.recovery \/ v.error => d = 0
                        /\ v.recovery /\ ~v.error => f

PagesInv ==
    /\ DOMAIN run = Page /\ DOMAIN deps = Page /\ DOMAIN view = Page /\ DOMAIN failed = Page
    /\ \A p \in Page : /\ RunsInv(run[p])
                       /\ deps[p] \in {0, LatestOf(run[p])}
                       /\ ViewFits(run[p], deps[p], view[p], failed[p])

EventLists == UNION {[1..n -> 1..MaxConsents] : n \in 0..MaxEvents}
Pair == [on : BOOLEAN, events : EventLists]
PreferencesInv ==
    /\ disk \in {None} \cup Pair
    /\ consent \in 0..MaxConsents
    /\ disk # None /\ disk.on => consent > 0
    /\ OptOutIsFinal

DatabaseInd == PagesInv /\ PreferencesInv

-----------------------------------------------------------------------------
(* Runs are numbered from 1: how many there are is the last one's number.  *)
LEMMA CountedRuns ==
    ASSUME NEW runs, NEW n \in 0..MaxRuns,
           \A g \in 1..MaxRuns : runs[g].stage # "none" <=> g <= n
    PROVE  LatestOf(runs) = n
<1>0. MaxRuns \in Nat
  BY LocalDatabaseAssumption
<1>1. {g \in 1..MaxRuns : runs[g].stage # "none"} = 1..n
  BY <1>0
<1>2. Cardinality(1..n) = n
  BY <1>0, FS_Interval
<1> QED
  BY <1>1, <1>2 DEF LatestOf

(* The effect runs again: the last run is cleaned up and a new one begins. *)
LEMMA RunStarts ==
    ASSUME NEW runs, RunsInv(runs), LatestOf(runs) < MaxRuns,
           NEW r \in Run, r.stage # "none",
           NEW new, new = [CleanedUp(runs, LatestOf(runs)) EXCEPT ![LatestOf(runs) + 1] = r]
    PROVE  RunsInv(new) /\ LatestOf(new) = LatestOf(runs) + 1
<1>0. MaxRuns \in Nat
  BY LocalDatabaseAssumption
<1> DEFINE n == LatestOf(runs)
           cleaned == CleanedUp(runs, n)
<1>1. /\ n \in 0..MaxRuns /\ n < MaxRuns /\ runs \in [1..MaxRuns -> Run]
      /\ \A g \in 1..MaxRuns : runs[g].stage # "none" <=> g <= n
      /\ \A g \in 1..MaxRuns : runs[g].active \/ runs[g].open => g = n
  BY DEF RunsInv
<1>2. new = [cleaned EXCEPT ![n + 1] = r]
  OBVIOUS
<1> HIDE DEF n
<1>3. /\ cleaned \in [1..MaxRuns -> Run]
      /\ \A g \in 1..MaxRuns : cleaned[g].stage = runs[g].stage
      /\ \A g \in 1..MaxRuns : ~cleaned[g].active /\ ~cleaned[g].open
  <2>1. CASE n = 0
    BY <1>0, <1>1, <2>1 DEF CleanedUp, Run
  <2>2. CASE n # 0
    <3> DEFINE s == [[runs[n] EXCEPT !.active = FALSE] EXCEPT !.open = FALSE]
    <3>1. n \in 1..MaxRuns
      BY <1>0, <1>1, <2>2
    <3>2. s \in Run /\ s.stage = runs[n].stage /\ ~s.active /\ ~s.open
      BY <1>1, <3>1 DEF Run
    <3>3. cleaned = [runs EXCEPT ![n] = s]
      BY <1>1, <2>2, <3>1 DEF CleanedUp
    <3> HIDE DEF s, cleaned
    <3> QED
      BY <1>1, <3>1, <3>2, <3>3
  <2> QED
    BY <2>1, <2>2
<1> HIDE DEF cleaned
<1>4. n + 1 \in 0..MaxRuns /\ n + 1 \in 1..MaxRuns
  BY <1>0, <1>1
<1>5. new \in [1..MaxRuns -> Run] /\ new[n + 1] = r /\ \A g \in 1..MaxRuns : g # n + 1 => new[g] = cleaned[g]
  BY <1>2, <1>3, <1>4
<1>6. ASSUME NEW g \in 1..MaxRuns PROVE new[g].stage # "none" <=> g <= n + 1
  <2>1. CASE g = n + 1
    BY <1>0, <1>1, <1>5, <2>1
  <2>2. CASE g # n + 1
    <3>1. new[g].stage # "none" <=> g <= n
      BY <1>1, <1>3, <1>5, <2>2
    <3> QED
      BY <1>0, <1>1, <2>2, <3>1
  <2> QED
    BY <2>1, <2>2
<1>7. LatestOf(new) = n + 1
  BY <1>4, <1>6, CountedRuns
<1>8. \A g \in 1..MaxRuns : new[g].active \/ new[g].open => g = n + 1
  BY <1>3, <1>5
<1> QED
  BY <1>4, <1>5, <1>6, <1>7, <1>8 DEF RunsInv, n

(* A run goes on: it does not become active, and opens only while active.  *)
LEMMA RunGoesOn ==
    ASSUME NEW runs, RunsInv(runs), NEW g \in 1..MaxRuns, runs[g].stage # "none",
           NEW r \in Run, r.stage # "none",
           r.active => runs[g].active, r.open => runs[g].active \/ runs[g].open
    PROVE  RunsInv([runs EXCEPT ![g] = r]) /\ LatestOf([runs EXCEPT ![g] = r]) = LatestOf(runs)
<1>0. MaxRuns \in Nat
  BY LocalDatabaseAssumption
<1> DEFINE n == LatestOf(runs)
           new == [runs EXCEPT ![g] = r]
<1>1. /\ n \in 0..MaxRuns /\ runs \in [1..MaxRuns -> Run]
      /\ \A h \in 1..MaxRuns : runs[h].stage # "none" <=> h <= n
      /\ \A h \in 1..MaxRuns : runs[h].active \/ runs[h].open => h = n
  BY DEF RunsInv
<1>2. new \in [1..MaxRuns -> Run] /\ new[g] = r /\ \A h \in 1..MaxRuns : h # g => new[h] = runs[h]
  BY <1>1
<1> HIDE DEF new, n
<1>3. \A h \in 1..MaxRuns : new[h].stage # "none" <=> h <= n
  BY <1>1, <1>2
<1>4. LatestOf(new) = n
  BY <1>1, <1>3, CountedRuns
<1>5. \A h \in 1..MaxRuns : new[h].active \/ new[h].open => h = n
  BY <1>1, <1>2
<1> QED
  BY <1>1, <1>2, <1>3, <1>4, <1>5 DEF RunsInv, n, new

LEMMA PageMoves ==
    ASSUME PagesInv, NEW p \in Page, NEW runs, RunsInv(runs), run' = [run EXCEPT ![p] = runs],
           DOMAIN deps' = Page, DOMAIN view' = Page, DOMAIN failed' = Page,
           \A q \in Page \ {p} : deps'[q] = deps[q] /\ view'[q] = view[q] /\ failed'[q] = failed[q],
           deps'[p] \in {0, LatestOf(runs)},
           ViewFits(runs, deps'[p], view'[p], failed'[p])
    PROVE  PagesInv'
<1>1. DOMAIN run' = Page /\ run'[p] = runs /\ \A q \in Page \ {p} : run'[q] = run[q]
  BY DEF PagesInv
<1>2. ASSUME NEW q \in Page
      PROVE  /\ RunsInv(run'[q])
             /\ deps'[q] \in {0, LatestOf(run'[q])}
             /\ ViewFits(run'[q], deps'[q], view'[q], failed'[q])
  <2>1. CASE q = p
    BY <1>1, <2>1
  <2>2. CASE q # p
    <3>1. q \in Page \ {p}
      BY <2>2
    <3> QED
      BY <1>1, <3>1 DEF PagesInv
  <2> QED
    BY <2>1, <2>2
<1> QED
  BY <1>1, <1>2 DEF PagesInv

LEMMA PagesRest == ASSUME PagesInv, UNCHANGED <<run, deps, view, failed>> PROVE PagesInv'
  BY DEF PagesInv

LEMMA PageStarts ==
    ASSUME PagesInv, NEW p \in Page, NEW stage \in {"opening", "done"}, NEW shown \in View,
           Started(p, stage, shown),
           DOMAIN failed' = Page, \A q \in Page \ {p} : failed'[q] = failed[q],
           shown.initialized => stage = "done" /\ (shown.recovery /\ ~shown.error => failed'[p])
    PROVE  PagesInv'
<1>0. MaxRuns \in Nat
  BY LocalDatabaseAssumption
<1> DEFINE n == LatestOf(run[p])
           r == [stage |-> stage, active |-> TRUE, open |-> FALSE]
           new == [CleanedUp(run[p], n) EXCEPT ![n + 1] = r]
<1>1. Latest(p) = n
  BY DEF Latest, Runs, LatestOf
<1>2. n < MaxRuns /\ run' = [run EXCEPT ![p] = new]
  BY <1>1 DEF Started
<1>3. RunsInv(run[p])
  BY DEF PagesInv
<1>4. r \in Run /\ r.stage = stage /\ r.stage # "none"
  BY DEF Run
<1> HIDE DEF r
<1>5. RunsInv(new) /\ LatestOf(new) = n + 1
  BY <1>2, <1>3, <1>4, RunStarts
<1>6. /\ DOMAIN deps' = Page /\ deps'[p] = 0 /\ \A q \in Page \ {p} : deps'[q] = deps[q]
      /\ DOMAIN view' = Page /\ \A q \in Page \ {p} : view'[q] = view[q]
      /\ view'[p] = shown
  BY DEF Started, PagesInv
<1>7. ASSUME stage = "done", NEW g \in 1..MaxRuns PROVE ~Wanted(new[g])
  <2>1. CASE g = n + 1
    <3>1. /\ CleanedUp(run[p], n) \in [1..MaxRuns -> Run]
      BY <1>0, <1>3 DEF CleanedUp, RunsInv, Run
    <3>2. new[g] = r
      BY <2>1, <3>1
    <3> QED
      BY <1>4, <1>7, <3>2 DEF Wanted
  <2>2. CASE g # n + 1
    BY <1>5, <2>2 DEF RunsInv, Wanted
  <2> QED
    BY <2>1, <2>2
<1>8. ViewFits(new, deps'[p], view'[p], failed'[p])
  BY <1>6, <1>7 DEF ViewFits
<1> HIDE DEF new, n
<1> QED
  BY <1>2, <1>5, <1>6, <1>8, PageMoves

(* A run of a page goes on, and what the page shows fits it.               *)
LEMMA PageGoesOn ==
    ASSUME PagesInv, NEW p \in Page, NEW g \in 1..MaxRuns, run[p][g].stage # "none",
           NEW r \in Run, r.stage # "none", run' = [run EXCEPT ![p][g] = r],
           r.active => run[p][g].active, r.open => run[p][g].active \/ run[p][g].open,
           DOMAIN deps' = Page, DOMAIN view' = Page, DOMAIN failed' = Page,
           \A q \in Page \ {p} : deps'[q] = deps[q] /\ view'[q] = view[q] /\ failed'[q] = failed[q],
           deps'[p] \in {0, deps[p]} \/ (run[p][g].active /\ deps'[p] = g),
           view'[p] \in View,
           view'[p].initialized =>
               \/ /\ Wanted(r) => Wanted(run[p][g])
                  /\ deps'[p] = deps[p] /\ view'[p] = view[p] /\ (failed[p] => failed'[p])
               \/ /\ run[p][g].active /\ ~Wanted(r)
                  /\ view'[p].recovery \/ view'[p].error => deps'[p] = 0
                  /\ view'[p].recovery /\ ~view'[p].error => failed'[p]
    PROVE  PagesInv'
<1> DEFINE new == [run[p] EXCEPT ![g] = r]
<1>1. RunsInv(run[p]) /\ deps[p] \in {0, LatestOf(run[p])} /\ ViewFits(run[p], deps[p], view[p], failed[p])
  BY DEF PagesInv
<1>2. run' = [run EXCEPT ![p] = new]
  BY DEF PagesInv
<1>3. RunsInv(new) /\ LatestOf(new) = LatestOf(run[p])
  BY <1>1, RunGoesOn
<1>4. run[p][g].active => g = LatestOf(run[p])
  BY <1>1 DEF RunsInv
<1>5. deps'[p] \in {0, LatestOf(new)}
  BY <1>1, <1>3, <1>4
<1>6. new[g] = r /\ \A h \in 1..MaxRuns : h # g => new[h] = run[p][h]
  BY <1>1 DEF RunsInv
<1> HIDE DEF new
<1>7. ViewFits(new, deps'[p], view'[p], failed'[p])
  <2>1. CASE ~view'[p].initialized
    BY <2>1 DEF ViewFits
  <2>2. CASE /\ view'[p].initialized /\ (Wanted(r) => Wanted(run[p][g]))
             /\ deps'[p] = deps[p] /\ view'[p] = view[p] /\ (failed[p] => failed'[p])
    <3>1. \A h \in 1..MaxRuns : ~Wanted(run[p][h])
      BY <1>1, <2>2 DEF ViewFits
    <3>2. \A h \in 1..MaxRuns : ~Wanted(new[h])
      BY <1>6, <2>2, <3>1
    <3> QED
      BY <1>1, <2>2, <3>2 DEF ViewFits
  <2>3. CASE /\ view'[p].initialized /\ run[p][g].active /\ ~Wanted(r)
             /\ view'[p].recovery \/ view'[p].error => deps'[p] = 0
             /\ view'[p].recovery /\ ~view'[p].error => failed'[p]
    <3>1. \A h \in 1..MaxRuns : h # g => ~run[p][h].active
      BY <1>1, <1>4, <2>3 DEF RunsInv
    <3>2. \A h \in 1..MaxRuns : ~Wanted(new[h])
      BY <1>6, <2>3, <3>1 DEF Wanted
    <3> QED
      BY <2>3, <3>2 DEF ViewFits
  <2> QED
    BY <2>1, <2>2, <2>3
<1> QED
  BY <1>2, <1>3, <1>5, <1>7, PageMoves

-----------------------------------------------------------------------------
(* Every step leaves the pages so.                                         *)
LEMMA RunTypes == PagesInv => \A p \in Page : \A g \in 1..MaxRuns : run[p][g] \in Run
  BY DEF PagesInv, RunsInv

(* A page with a wanted run under way is not initialized.                  *)
LEMMA WantedWaits ==
    ASSUME PagesInv, NEW p \in Page, NEW g \in 1..MaxRuns, Wanted(run[p][g])
    PROVE  ~view[p].initialized
  BY DEF PagesInv, ViewFits

LEMMA OpenedPages ==
    ASSUME PagesInv, NEW p \in Page, NEW g \in 1..MaxRuns, Opened(p, g) PROVE PagesInv'
<1> DEFINE s == run[p][g]
           r == [[s EXCEPT !.stage = IF s.active THEN "reading" ELSE "done"] EXCEPT !.open = s.active]
<1>1. s \in Run /\ s.stage = "opening"
  BY RunTypes DEF Opened, Opening
<1>2. r \in Run /\ r.stage # "none"
  BY <1>1 DEF Run
<1>3. (r.active => s.active) /\ (r.open => s.active \/ s.open)
  BY <1>1 DEF Run
<1>4. run' = [run EXCEPT ![p][g] = r]
  BY <1>1 DEF Opened, PagesInv, RunsInv
<1>5. DOMAIN deps' = Page /\ \A q \in Page \ {p} : deps'[q] = deps[q]
  BY DEF Opened, PagesInv
<1>6. deps'[p] = deps[p] \/ (s.active /\ deps'[p] = g)
  BY DEF Opened, PagesInv
<1>7. view' = view /\ failed' = failed
  BY DEF Opened
<1>8. /\ run[p][g].stage # "none" /\ (r.active => run[p][g].active)
      /\ (r.open => run[p][g].active \/ run[p][g].open)
      /\ deps'[p] = deps[p] \/ (run[p][g].active /\ deps'[p] = g)
  BY <1>1, <1>3, <1>6
<1>9. /\ DOMAIN view' = Page /\ DOMAIN failed' = Page
      /\ \A q \in Page \ {p} : deps'[q] = deps[q] /\ view'[q] = view[q] /\ failed'[q] = failed[q]
      /\ view'[p] \in View
  BY <1>5, <1>7 DEF PagesInv, ViewFits
<1>10. /\ Wanted(r) => Wanted(run[p][g])
       /\ view'[p].initialized => deps'[p] = deps[p] /\ view'[p] = view[p] /\ (failed[p] => failed'[p])
  <2>1. CASE s.active
    <3>1. ~view[p].initialized /\ Wanted(run[p][g])
      BY <1>1, <2>1, WantedWaits DEF Wanted
    <3> QED
      BY <1>7, <3>1
  <2>2. CASE ~s.active
    <3>1. deps'[p] = deps[p] /\ ~Wanted(r)
      BY <1>3, <1>6, <2>2 DEF Wanted
    <3> QED
      BY <1>7, <3>1
  <2> QED
    BY <2>1, <2>2
<1> HIDE DEF r, s
<1> QED
  BY <1>2, <1>4, <1>5, <1>8, <1>9, <1>10, PageGoesOn

(* A run that ends by showing why: recovery without an error only of a     *)
(* failure that the page remembers.                                        *)
LEMMA CaughtPages ==
    ASSUME PagesInv, NEW p \in Page, NEW g \in 1..MaxRuns, NEW shown \in View, Caught(p, g, shown),
           run[p][g].stage \in {"opening", "reading"},
           DOMAIN failed' = Page, \A q \in Page \ {p} : failed'[q] = failed[q],
           failed[p] => failed'[p], shown.recovery /\ ~shown.error => failed'[p]
    PROVE  PagesInv'
<1> DEFINE s == run[p][g]
           r == [s EXCEPT !.stage = "done"]
<1>1. s \in Run
  BY RunTypes
<1>2. r \in Run /\ r.stage # "none" /\ (r.active => s.active) /\ (r.open => s.active \/ s.open) /\ ~Wanted(r)
  BY <1>1 DEF Run, Wanted
<1>3. run' = [run EXCEPT ![p][g] = r]
  BY <1>1 DEF Caught, PagesInv, RunsInv
<1>4. /\ DOMAIN deps' = Page /\ \A q \in Page \ {p} : deps'[q] = deps[q]
      /\ DOMAIN view' = Page /\ \A q \in Page \ {p} : view'[q] = view[q]
      /\ IF s.active THEN deps'[p] = 0 /\ view'[p] = shown ELSE deps'[p] = deps[p] /\ view'[p] = view[p]
  BY DEF Caught, PagesInv
<1>5. view[p] \in View
  BY DEF PagesInv, ViewFits
<1>6. /\ run[p][g].stage # "none" /\ (r.active => run[p][g].active)
      /\ (r.open => run[p][g].active \/ run[p][g].open)
      /\ deps'[p] \in {0, deps[p]} /\ view'[p] \in View
  BY <1>2, <1>4, <1>5
<1>7. \/ /\ Wanted(r) => Wanted(run[p][g])
         /\ deps'[p] = deps[p] /\ view'[p] = view[p] /\ (failed[p] => failed'[p])
      \/ /\ run[p][g].active /\ ~Wanted(r)
         /\ view'[p].recovery \/ view'[p].error => deps'[p] = 0
         /\ view'[p].recovery /\ ~view'[p].error => failed'[p]
  <2>1. CASE s.active
    BY <1>2, <1>4, <2>1
  <2>2. CASE ~s.active
    BY <1>2, <1>4, <2>2
  <2> QED
    BY <2>1, <2>2
<1> HIDE DEF r, s
<1> QED
  BY <1>2, <1>3, <1>4, <1>6, <1>7, PageGoesOn

LEMMA ErringView == ASSUME PagesInv, NEW p \in Page PROVE Erring(p) \in View /\ Erring(p).error
<1>1. view[p] \in View
  BY DEF PagesInv, ViewFits
<1> QED
  BY <1>1 DEF Erring, View

LEMMA FailingPages ==
    ASSUME PagesInv, NEW p \in Page, NEW g \in 1..MaxRuns,
           MigrationFails(p, g) \/ OpenFails(p, g) \/ ReadFails(p, g)
    PROVE  PagesInv'
<1>1. DOMAIN failed = Page
  BY DEF PagesInv
<1>2. CASE MigrationFails(p, g)
  <2>1. /\ run[p][g].stage \in {"opening", "reading"} /\ Caught(p, g, Recovering)
        /\ failed' = [failed EXCEPT ![p] = TRUE]
    BY <1>2 DEF MigrationFails, Opening
  <2>2. Recovering \in View
    BY DEF Recovering, View
  <2> QED
    BY <1>1, <2>1, <2>2, CaughtPages
<1>3. CASE OpenFails(p, g) \/ ReadFails(p, g)
  <2>1. /\ run[p][g].stage \in {"opening", "reading"} /\ Caught(p, g, Erring(p))
        /\ failed' = failed
    BY <1>3 DEF OpenFails, ReadFails, Opening
  <2> QED
    BY <1>1, <2>1, ErringView, CaughtPages
<1> QED
  BY <1>2, <1>3

LEMMA ReadPages ==
    ASSUME PagesInv, NEW p \in Page, NEW g \in 1..MaxRuns, Read(p, g) PROVE PagesInv'
<1> DEFINE s == run[p][g]
           r == [s EXCEPT !.stage = "done"]
           shown == [InitialView EXCEPT !.initialized = TRUE]
<1>1. s \in Run /\ s.stage = "reading"
  BY RunTypes DEF Read
<1>2. r \in Run /\ r.stage # "none" /\ (r.active => s.active) /\ (r.open => s.active \/ s.open) /\ ~Wanted(r)
  BY <1>1 DEF Run, Wanted
<1>3. run' = [run EXCEPT ![p][g] = r]
  BY <1>1 DEF Read, PagesInv, RunsInv
<1>4. /\ deps' = deps /\ failed' = failed /\ DOMAIN deps = Page /\ DOMAIN failed = Page
      /\ DOMAIN view' = Page /\ \A q \in Page \ {p} : view'[q] = view[q]
      /\ view'[p] = IF s.active THEN shown ELSE view[p]
  BY DEF Read, PagesInv
<1>5. view[p] \in View /\ shown \in View /\ ~shown.recovery /\ ~shown.error
  BY DEF PagesInv, ViewFits, InitialView, View
<1>6. /\ run[p][g].stage # "none" /\ (r.active => run[p][g].active)
      /\ (r.open => run[p][g].active \/ run[p][g].open)
      /\ view'[p] \in View
  BY <1>1, <1>2, <1>4, <1>5
<1> HIDE DEF shown
<1>7. \/ /\ Wanted(r) => Wanted(run[p][g])
         /\ deps'[p] = deps[p] /\ view'[p] = view[p] /\ (failed[p] => failed'[p])
      \/ /\ run[p][g].active /\ ~Wanted(r)
         /\ view'[p].recovery \/ view'[p].error => deps'[p] = 0
         /\ view'[p].recovery /\ ~view'[p].error => failed'[p]
  BY <1>2, <1>4, <1>5
<1> HIDE DEF r, s
<1> QED
  BY <1>2, <1>3, <1>4, <1>6, <1>7, PageGoesOn

LEMMA VersionChangePages ==
    ASSUME PagesInv, NEW p \in Page, NEW g \in 1..MaxRuns, run[p][g].stage # "none", VersionChange(p, g)
    PROVE  PagesInv'
<1> DEFINE s == run[p][g]
           r == [s EXCEPT !.open = FALSE]
<1>1. s \in Run
  BY RunTypes
<1>2. /\ r \in Run /\ r.stage # "none" /\ (r.active => s.active) /\ (r.open => s.active \/ s.open)
      /\ Wanted(r) => Wanted(s)
  BY <1>1 DEF Run, Wanted
<1>3. run' = [run EXCEPT ![p][g] = r]
  BY <1>1 DEF VersionChange, PagesInv, RunsInv
<1>4. deps' = deps /\ view' = view /\ failed' = failed
  BY DEF VersionChange
<1>8. (r.active => run[p][g].active) /\ (r.open => run[p][g].active \/ run[p][g].open)
  BY <1>2
<1>9. /\ DOMAIN deps' = Page /\ DOMAIN view' = Page /\ DOMAIN failed' = Page
      /\ \A q \in Page \ {p} : deps'[q] = deps[q] /\ view'[q] = view[q] /\ failed'[q] = failed[q]
      /\ view'[p] \in View /\ view'[p] = view[p] /\ deps'[p] = deps[p]
      /\ Wanted(r) => Wanted(run[p][g])
      /\ failed[p] => failed'[p]
  BY <1>2, <1>4 DEF PagesInv, ViewFits
<1> HIDE DEF r, s
<1> QED
  BY <1>2, <1>3, <1>8, <1>9, PageGoesOn

LEMMA PagesStep == ASSUME PagesInv, [Next]_vars PROVE PagesInv'
<1>0. /\ InitialView \in View /\ ~InitialView.initialized /\ Recovering \in View
      /\ [InitialView EXCEPT !.recovery = TRUE] \in View
      /\ ~[InitialView EXCEPT !.recovery = TRUE].initialized
  BY DEF InitialView, Recovering, View
<1>1. ASSUME NEW p \in Page, Mount(p) PROVE PagesInv'
  <2>1. failed' = failed /\ DOMAIN failed = Page
    BY <1>1 DEF Mount, PagesInv
  <2>2. CASE failed[p]
    <3>1. Started(p, "done", Recovering)
      BY <1>1, <2>2 DEF Mount
    <3> QED
      BY <1>0, <2>1, <2>2, <3>1, PageStarts
  <2>3. CASE ~failed[p]
    <3>1. Started(p, "opening", InitialView)
      BY <1>1, <2>3 DEF Mount
    <3> QED
      BY <1>0, <2>1, <3>1, PageStarts
  <2> QED
    BY <2>2, <2>3
<1>2. ASSUME NEW p \in Page, DatabaseDeleted(p) PROVE PagesInv'
  <2> DEFINE shown == [InitialView EXCEPT !.recovery = TRUE]
  <2>1. Started(p, "opening", shown) /\ failed' = [failed EXCEPT ![p] = FALSE] /\ DOMAIN failed = Page
    BY <1>2 DEF DatabaseDeleted, PagesInv
  <2>2. shown \in View /\ ~shown.initialized
    BY <1>0
  <2> HIDE DEF shown
  <2> QED
    BY <2>1, <2>2, PageStarts
<1>3. ASSUME NEW p \in Page, DownloadRecovery(p) \/ ResetLocalData(p) \/ ResetFails(p) PROVE PagesInv'
  BY <1>3, PagesRest DEF DownloadRecovery, ResetLocalData, ResetFails
<1>4. ASSUME NEW p \in Page, IsEnabled(p) \/ Record(p) \/ \E enabled \in BOOLEAN : SetEnabled(p, enabled)
      PROVE  PagesInv'
  BY <1>4, PagesRest DEF IsEnabled, Record, SetEnabled, MutatePair
<1>5. ASSUME NEW p \in Page, NEW g \in Runs(p), BrowserAnswers(p, g) PROVE PagesInv'
  <2>1. g \in 1..MaxRuns /\ run[p][g].stage # "none"
    BY DEF Runs
  <2> QED
    BY <1>5, <2>1, OpenedPages, FailingPages, ReadPages, VersionChangePages DEF BrowserAnswers
<1>6. CASE UNCHANGED vars
  BY <1>6, PagesRest DEF vars
<1> QED
  BY <1>1, <1>2, <1>3, <1>4, <1>5, <1>6 DEF Next

-----------------------------------------------------------------------------
(* A list of events, as a sequence.                                        *)
LEMMA EventListsAre ==
    \A events : events \in EventLists <=> events \in Seq(1..MaxConsents) /\ Len(events) <= MaxEvents
<1>0. MaxEvents \in Nat
  BY LocalDatabaseAssumption
<1>1. ASSUME NEW events, events \in EventLists
      PROVE  events \in Seq(1..MaxConsents) /\ Len(events) <= MaxEvents
  <2>1. PICK n \in 0..MaxEvents : events \in [1..n -> 1..MaxConsents]
    BY <1>1 DEF EventLists
  <2>2. n \in Nat /\ n <= MaxEvents
    BY <1>0
  <2>3. events \in Seq(1..MaxConsents)
    BY <2>1, <2>2, SeqDef
  <2>4. DOMAIN events = 1..n /\ DOMAIN events = 1..Len(events) /\ Len(events) \in Nat
    BY <2>1, <2>3, LenProperties
  <2> QED
    BY <2>2, <2>3, <2>4
<1>2. ASSUME NEW events, events \in Seq(1..MaxConsents), Len(events) <= MaxEvents
      PROVE  events \in EventLists
  <2>1. Len(events) \in Nat /\ events \in [1..Len(events) -> 1..MaxConsents]
    BY <1>2, LenProperties
  <2>2. Len(events) \in 0..MaxEvents
    BY <1>0, <1>2, <2>1
  <2> QED
    BY <2>1, <2>2 DEF EventLists
<1> QED
  BY <1>1, <1>2

LEMMA QueuedEvents ==
    ASSUME NEW events \in EventLists, NEW c \in 1..MaxConsents, \A i \in DOMAIN events : events[i] = c
    PROVE  Queued(events, c) \in EventLists /\ \A i \in DOMAIN Queued(events, c) : Queued(events, c)[i] = c
<1>0. MaxEvents \in Nat /\ MaxEvents > 0 /\ MaxConsents \in Nat
  BY LocalDatabaseAssumption
<1> DEFINE all == Append(events, c)
           kept == SubSeq(all, Len(all) - MaxEvents + 1, Len(all))
<1>1. events \in Seq(1..MaxConsents) /\ Len(events) <= MaxEvents
  BY EventListsAre
<1>2. /\ all \in Seq(1..MaxConsents) /\ Len(all) = Len(events) + 1
      /\ \A i \in DOMAIN all : all[i] = c
  BY <1>1
<1>3. CASE Len(all) > MaxEvents
  <2>1. /\ kept \in Seq(1..MaxConsents) /\ Len(kept) = MaxEvents
        /\ \A i \in DOMAIN kept : kept[i] = all[i + Len(all) - MaxEvents] /\ i + Len(all) - MaxEvents \in DOMAIN all
    <3>1. Len(all) \in Nat /\ Len(all) - MaxEvents + 1 \in 1..Len(all)
      BY <1>0, <1>1, <1>2, <1>3
    <3> HIDE DEF all
    <3>2. /\ Len(all) - MaxEvents + 1 \in Int /\ Len(all) \in Int
          /\ \A i \in Len(all) - MaxEvents + 1 .. Len(all) : i \in DOMAIN all /\ all[i] \in 1..MaxConsents
      BY <1>2, <3>1
    <3>3. /\ kept \in Seq(1..MaxConsents) /\ Len(kept) = MaxEvents
          /\ \A i \in 1 .. MaxEvents : kept[i] = all[(Len(all) - MaxEvents + 1) + i - 1]
      BY <1>0, <3>1, <3>2, SubSeqProperties, SMTT(30)
    <3> HIDE DEF kept
    <3>4. ASSUME NEW i \in 1 .. MaxEvents
          PROVE  kept[i] = all[i + Len(all) - MaxEvents] /\ i + Len(all) - MaxEvents \in DOMAIN all
      <4>1. /\ (Len(all) - MaxEvents + 1) + i - 1 = i + Len(all) - MaxEvents
            /\ i + Len(all) - MaxEvents \in Len(all) - MaxEvents + 1 .. Len(all)
        BY <1>0, <3>1
      <4> QED
        BY <3>2, <3>3, <4>1
    <3> QED
      BY <3>3, <3>4
  <2>2. Queued(events, c) = kept
    BY <1>3 DEF Queued
  <2> HIDE DEF all, kept
  <2>3. kept \in EventLists
    BY <1>0, <2>1, EventListsAre
  <2> QED
    BY <1>2, <2>1, <2>2, <2>3
<1>4. CASE ~(Len(all) > MaxEvents)
  <2>1. Queued(events, c) = all
    BY <1>4 DEF Queued
  <2>2. all \in Seq(1..MaxConsents) /\ Len(all) <= MaxEvents
    BY <1>0, <1>1, <1>2, <1>4
  <2> HIDE DEF all
  <2>3. all \in EventLists
    BY <2>2, EventListsAre
  <2> QED
    BY <1>2, <2>1, <2>3
<1> QED
  BY <1>3, <1>4

LEMMA FreshIsPair == Fresh \in Pair /\ ~Fresh.on /\ Fresh.events = <<>>
<1>0. MaxEvents \in Nat
  BY LocalDatabaseAssumption
<1>1. <<>> \in Seq(1..MaxConsents) /\ Len(<<>>) <= MaxEvents
  BY <1>0
<1>2. <<>> \in EventLists
  BY <1>1, EventListsAre
<1> QED
  BY <1>2 DEF Fresh, Pair

(* The preferences after a transaction that leaves a pair.                 *)
LEMMA PreferencesThen ==
    ASSUME disk' \in {None} \cup Pair, consent' \in 0..MaxConsents,
           disk' # None => /\ ~disk'.on => disk'.events = <<>>
                           /\ disk'.on => consent' > 0
                           /\ \A i \in DOMAIN disk'.events : disk'.events[i] = consent'
    PROVE  PreferencesInv'
  BY DEF PreferencesInv, OptOutIsFinal

LEMMA PreferencesFresh ==
    ASSUME PreferencesInv, disk' \in {None, Fresh}, consent' = consent PROVE PreferencesInv'
<1>1. disk' # None => disk' = Fresh
  OBVIOUS
<1>2. consent' \in 0..MaxConsents
  BY DEF PreferencesInv
<1> QED
  BY <1>1, <1>2, FreshIsPair, PreferencesThen

LEMMA PreferencesRest == ASSUME PreferencesInv, UNCHANGED <<disk, consent>> PROVE PreferencesInv'
  BY DEF PreferencesInv, OptOutIsFinal

LEMMA PreferencesStep == ASSUME PreferencesInv, [Next]_vars PROVE PreferencesInv'
<1>0. MaxConsents \in Nat
  BY LocalDatabaseAssumption
<1>1. ASSUME NEW p \in Page, NEW g, BrowserAnswers(p, g) PROVE PreferencesInv'
  <2>1. CASE Opened(p, g)
    BY <2>1, PreferencesFresh, PreferencesRest DEF Opened
  <2>2. CASE MigrationFails(p, g) \/ OpenFails(p, g) \/ Read(p, g) \/ ReadFails(p, g) \/ VersionChange(p, g)
    BY <2>2, PreferencesRest DEF MigrationFails, OpenFails, Read, ReadFails, Caught, VersionChange
  <2> QED
    BY <1>1, <2>1, <2>2 DEF BrowserAnswers
<1>2. ASSUME NEW p \in Page, DatabaseDeleted(p) PROVE PreferencesInv'
  BY <1>2, PreferencesFresh DEF DatabaseDeleted
<1>3. ASSUME NEW p \in Page, Mount(p) \/ DownloadRecovery(p) \/ ResetLocalData(p) \/ ResetFails(p)
      PROVE  PreferencesInv'
  BY <1>3, PreferencesRest DEF Mount, DownloadRecovery, ResetLocalData, ResetFails
<1>4. ASSUME NEW p \in Page, IsEnabled(p) PROVE PreferencesInv'
  <2>1. disk' \in {disk, Fresh} /\ consent' = consent
    BY <1>4 DEF IsEnabled, MutatePair, Normalized
  <2> QED
    BY <2>1, PreferencesFresh, PreferencesRest
<1>5. ASSUME NEW p \in Page, NEW enabled \in BOOLEAN, SetEnabled(p, enabled) PROVE PreferencesInv'
  <2>1. disk # None /\ disk \in Pair
    BY <1>5 DEF SetEnabled, PreferencesInv
  <2>2. CASE ~enabled
    BY <1>5, <2>2, PreferencesFresh DEF SetEnabled, MutatePair
  <2>3. CASE enabled /\ disk.on
    <3>1. disk' = disk /\ consent' = consent
      BY <1>5, <2>1, <2>3 DEF SetEnabled, MutatePair, Normalized, Pair
    <3> QED
      BY <3>1, PreferencesRest
  <2>4. CASE enabled /\ ~disk.on
    <3>1. disk' = [Fresh EXCEPT !.on = TRUE] /\ consent' = consent + 1 /\ consent < MaxConsents
      BY <1>5, <2>4 DEF SetEnabled, MutatePair, Normalized
    <3>2. disk' \in Pair /\ disk'.on /\ disk'.events = <<>>
      BY <3>1, FreshIsPair DEF Pair
    <3>3. consent' \in 0..MaxConsents /\ consent' > 0
      BY <1>0, <3>1 DEF PreferencesInv
    <3> QED
      BY <3>2, <3>3, PreferencesThen
  <2> QED
    BY <2>2, <2>3, <2>4
<1>6. ASSUME NEW p \in Page, Record(p) PROVE PreferencesInv'
  <2>1. disk # None /\ disk \in Pair /\ consent' = consent
    BY <1>6 DEF Record, PreferencesInv
  <2>2. CASE ~disk.on
    BY <1>6, <2>2, PreferencesFresh DEF Record, MutatePair
  <2>3. CASE disk.on
    <3> DEFINE queued == Queued(disk.events, consent)
    <3>1. disk' = [disk EXCEPT !.events = queued]
      BY <1>6, <2>3 DEF Record, MutatePair
    <3>2. /\ consent \in 1..MaxConsents /\ disk.events \in EventLists
          /\ \A i \in DOMAIN disk.events : disk.events[i] = consent
      BY <1>0, <2>1, <2>3 DEF PreferencesInv, OptOutIsFinal, Pair
    <3>3. queued \in EventLists /\ \A i \in DOMAIN queued : queued[i] = consent
      BY <3>2, QueuedEvents
    <3> HIDE DEF queued
    <3>4. disk' \in Pair /\ disk'.on /\ disk'.events = queued
      BY <2>1, <2>3, <3>1, <3>3 DEF Pair
    <3>5. consent' \in 0..MaxConsents /\ consent' > 0
      BY <1>0, <2>1, <3>2
    <3> QED
      BY <2>1, <3>3, <3>4, <3>5, PreferencesThen
  <2> QED
    BY <2>2, <2>3
<1>7. CASE UNCHANGED vars
  BY <1>7, PreferencesRest DEF vars
<1> QED
  BY <1>1, <1>2, <1>3, <1>4, <1>5, <1>6, <1>7 DEF Next

-----------------------------------------------------------------------------
LEMMA DatabaseInit == Init => DatabaseInd
<1> SUFFICES ASSUME Init PROVE DatabaseInd
  OBVIOUS
<1>0. MaxRuns \in Nat /\ MaxConsents \in Nat
  BY LocalDatabaseAssumption
<1>1. ASSUME NEW p \in Page PROVE RunsInv(run[p]) /\ LatestOf(run[p]) = 0
  <2>1. run[p] = [g \in 1..MaxRuns |-> NoRun]
    BY DEF Init
  <2>2. NoRun \in Run /\ NoRun.stage = "none" /\ ~NoRun.active /\ ~NoRun.open
    BY DEF NoRun, Run
  <2>3. run[p] \in [1..MaxRuns -> Run] /\ \A g \in 1..MaxRuns : run[p][g] = NoRun
    BY <2>1, <2>2
  <2>4. \A g \in 1..MaxRuns : run[p][g].stage # "none" <=> g <= 0
    BY <1>0, <2>2, <2>3
  <2>5. LatestOf(run[p]) = 0
    BY <1>0, <2>4, CountedRuns
  <2> QED
    BY <1>0, <2>2, <2>3, <2>4, <2>5 DEF RunsInv
<1>2. PagesInv
  <2>1. InitialView \in View /\ ~InitialView.initialized
    BY DEF InitialView, View
  <2>2. \A p \in Page : ViewFits(run[p], deps[p], view[p], failed[p])
    BY <2>1 DEF Init, ViewFits
  <2> QED
    BY <1>1, <2>2 DEF PagesInv, Init
<1>3. PreferencesInv
  BY <1>0 DEF Init, PreferencesInv, OptOutIsFinal
<1> QED
  BY <1>2, <1>3 DEF DatabaseInd

LEMMA DatabaseStep == DatabaseInd /\ [Next]_vars => DatabaseInd'
  BY PagesStep, PreferencesStep DEF DatabaseInd

LEMMA DatabaseIndIsInv == DatabaseInd => LocalDatabaseInv /\ OptOutIsFinal
<1> SUFFICES ASSUME DatabaseInd PROVE LocalDatabaseInv /\ OptOutIsFinal
  OBVIOUS
<1>0. MaxRuns \in Nat
  BY LocalDatabaseAssumption
<1>1. \A p \in Page : Latest(p) = LatestOf(run[p])
  BY DEF Latest, Runs, LatestOf
<1>2. \A p \in Page : /\ run[p] \in [1..MaxRuns -> Run] /\ LatestOf(run[p]) \in 0..MaxRuns
                      /\ \A g \in 1..MaxRuns : run[p][g].active \/ run[p][g].open => g = LatestOf(run[p])
  BY DEF DatabaseInd, PagesInv, RunsInv
<1>3. TypeOK
  <2>1. disk \in {None} \cup Pair
    BY DEF DatabaseInd, PreferencesInv
  <2>2. disk \in {None} \cup [on : BOOLEAN, events : UNION {[1..n -> 1..MaxConsents] : n \in 0..MaxEvents}]
    BY <2>1 DEF Pair, EventLists
  <2>3. \A p \in Page : deps[p] \in {0, LatestOf(run[p])} /\ view[p] \in View
    BY DEF DatabaseInd, PagesInv, ViewFits
  <2>4. \A p \in Page : deps[p] \in 0..MaxRuns
    BY <1>0, <1>2, <2>3
  <2>5. \A p \in Page : \A g \in 1..MaxRuns : run[p][g].stage \in {"none", "opening", "reading", "done"}
    BY <1>2 DEF Run
  <2> QED
    BY <2>2, <2>3, <2>4, <2>5 DEF TypeOK, View
<1>4. OnlyCurrentRunOwns
  BY <1>1, <1>2 DEF OnlyCurrentRunOwns, Runs, DatabaseInd, PagesInv
<1>5. RecoveryIsPaused
  BY DEF RecoveryIsPaused, Connected, DatabaseInd, PagesInv, ViewFits
<1> QED
  BY <1>3, <1>4, <1>5 DEF LocalDatabaseInv, DatabaseInd, PreferencesInv

(* However mounts, cleanups, openings, failed migrations, failed reads and *)
(* resets of any number of pages interleave, only the current run of a     *)
(* page owns a connection; a page whose effect ended in recovery or in an  *)
(* error has no repositories to write with; and recovery without an error  *)
(* rests on a remembered failure (the initialize effect and                *)
(* resetLocalData, use-specular.ts; assertWritesAllowed, indexed-db.ts).   *)
THEOREM OwnedAndPaused == Spec => []LocalDatabaseInv
<1>1. Spec => []DatabaseInd
  BY DatabaseInit, DatabaseStep, PTL DEF Spec
<1> QED
  BY <1>1, DatabaseIndIsInv, PTL

(* No telemetry event outlives the consent it was recorded under, whatever *)
(* any number of pages record, switch and reset                            *)
(* (product-telemetry.ts: mutatePair).                                     *)
THEOREM EventsOfThisConsent == Spec => []OptOutIsFinal
<1>1. Spec => []DatabaseInd
  BY DatabaseInit, DatabaseStep, PTL DEF Spec
<1> QED
  BY <1>1, DatabaseIndIsInv, PTL

(***************************************************************************)
(* The native server.                                                      *)
(***************************************************************************)

-----------------------------------------------------------------------------
(* Numbers and recursion.                                                  *)

LEMMA LeastOf ==
    ASSUME NEW S \in SUBSET Nat, S # {}
    PROVE  \E x \in S : \A y \in S : x <= y
<1> DEFINE R == OpToRel(<, Nat)
<1>1. IsWellFoundedOn(R, Nat)
  BY NatLessThanWellFounded
<1>2. R = {ss \in Nat \X Nat : ss[1] < ss[2]}
  BY DEF OpToRel
<1>3. \A x, y \in Nat : x < y => <<x, y>> \in R
  BY <1>2
<1> HIDE DEF R
<1>4. PICK x \in S : \A y \in S : <<y, x>> \notin R
  BY <1>1, WFMin
<1>5. ASSUME NEW y \in S PROVE x <= y
  <2>1. x \in Nat /\ y \in Nat
    OBVIOUS
  <2>2. ~(y < x)
    BY <1>3, <1>4, <2>1
  <2> QED BY <2>1, <2>2
<1> QED BY <1>5

(* f is what a loop of N turns over values of D holds, from d on.          *)
Unrolls(f, N, D, d, turn) ==
    f \in [0..N -> D] /\ f[0] = d /\ \A n \in 1..N : f[n] = turn[n][f[n - 1]]

(* A loop of N turns ends.                                                 *)
LEMMA LoopEnds ==
    ASSUME NEW N \in Nat, NEW D, NEW d \in D, NEW turn \in [1..N -> [D -> D]]
    PROVE  \E f : Unrolls(f, N, D, d, turn)
<1> DEFINE Done(n) == \E f : Unrolls(f, n, D, d, turn)
           Bad == {n \in 0..N : ~Done(n)}
<1>1. SUFFICES ASSUME Bad # {} PROVE FALSE
  <2>1. N \in 0..N
    OBVIOUS
  <2> QED BY <2>1
<1>2. PICK n \in Bad : \A k \in Bad : n <= k
  <2>1. Bad \in SUBSET Nat
    OBVIOUS
  <2> HIDE DEF Bad
  <2> QED BY <1>1, <2>1, LeastOf
<1>3. CASE n = 0
  <2> DEFINE f == [k \in 0..0 |-> d]
  <2>1. f \in [0..n -> D] /\ f[0] = d /\ 1..n = {}
    BY <1>3
  <2> HIDE DEF f
  <2>2. Unrolls(f, n, D, d, turn)
    BY <2>1 DEF Unrolls
  <2> QED BY <2>2
<1>4. CASE n # 0
  <2>1. n - 1 \in 0..N /\ n - 1 \notin Bad /\ n \in 1..N
    BY <1>2, <1>4
  <2>2. PICK f : Unrolls(f, n - 1, D, d, turn)
    BY <2>1
  <2>0. f \in [0..n - 1 -> D] /\ f[0] = d /\ \A k \in 1..n - 1 : f[k] = turn[k][f[k - 1]]
    BY <2>2 DEF Unrolls
  <2>3. f[n - 1] \in D /\ turn[n][f[n - 1]] \in D
    BY <2>0, <2>1
  <2> DEFINE g == [k \in 0..n |-> IF k = n THEN turn[n][f[n - 1]] ELSE f[k]]
  <2>4. g \in [0..n -> D]
    BY <2>0, <2>1, <2>3
  <2>5. g[0] = d /\ g[n] = turn[n][g[n - 1]]
    <3>1. 0 \in 0..n /\ 0 # n /\ n - 1 \in 0..n /\ n - 1 # n /\ n \in 0..n
      BY <2>1
    <3>2. g[0] = f[0] /\ g[n - 1] = f[n - 1] /\ g[n] = turn[n][f[n - 1]]
      BY <3>1
    <3> QED BY <2>0, <3>2
  <2>6. ASSUME NEW k \in 1..n, k # n PROVE g[k] = turn[k][g[k - 1]]
    BY <2>0, <2>1, <2>6
  <2> HIDE DEF g
  <2>7. Done(n)
    BY <2>4, <2>5, <2>6 DEF Unrolls
  <2> QED BY <2>7
<1> QED BY <1>3, <1>4

-----------------------------------------------------------------------------
(* The limiter.                                                            *)

Entry == [key : Address, count : Nat, resetAt : Nat]
OneEntryEach(s) == \A i, j \in DOMAIN s : s[i].key = s[j].key => i = j
InOrder(s) == \A i, j \in DOMAIN s : i <= j => s[i].resetAt <= s[j].resetAt

(* What remains of the entries s: some of them, each once.                 *)
Part(a, s) ==
    /\ a \in Seq(Entry) /\ Len(a) <= Len(s)
    /\ \A j \in DOMAIN a : \E i \in DOMAIN s : a[j] = s[i]
    /\ OneEntryEach(s) => OneEntryEach(a)

(* alive is what the loop of makeRoom has kept after each entry of s.      *)
AliveTurns(alive, s, N) ==
    /\ alive \in [0..N -> Seq(Entry)] /\ alive[0] = <<>> /\ Alive(s) = alive[N]
    /\ \A n \in 1..N : alive[n] = IF Live(s[n]) THEN Append(alive[n - 1], s[n]) ELSE alive[n - 1]

LEMMA AliveLoop ==
    ASSUME NEW s \in Seq(Entry), NEW N, N = Len(s)
    PROVE  \E alive : AliveTurns(alive, s, N)
<1> DEFINE turn == [n \in 1..N |-> [q \in Seq(Entry) |->
                      IF Live(s[n]) THEN Append(q, s[n]) ELSE q]]
           Loops(f) == f = [n \in 0..N |->
                              IF n = 0 THEN <<>>
                              ELSE IF Live(s[n]) THEN Append(f[n - 1], s[n]) ELSE f[n - 1]]
           alive == CHOOSE f : Loops(f)
<1>1. N \in Nat /\ DOMAIN s = 1..N /\ \A n \in 1..N : s[n] \in Entry
  OBVIOUS
<1>2. turn \in [1..N -> [Seq(Entry) -> Seq(Entry)]]
  BY <1>1, AppendProperties
<1>3. << >> \in Seq(Entry)
  OBVIOUS
<1>4. \A n \in 1..N : \A q \in Seq(Entry) :
          turn[n][q] = IF Live(s[n]) THEN Append(q, s[n]) ELSE q
  OBVIOUS
<1> HIDE DEF turn
<1>5. PICK f : Unrolls(f, N, Seq(Entry), <<>>, turn)
  BY <1>1, <1>2, <1>3, LoopEnds
<1>50. f \in [0..N -> Seq(Entry)] /\ f[0] = <<>> /\ \A n \in 1..N : f[n] = turn[n][f[n - 1]]
  BY <1>5 DEF Unrolls
<1>6. \A n \in 1..N : f[n] = IF Live(s[n]) THEN Append(f[n - 1], s[n]) ELSE f[n - 1]
  <2>1. \A n \in 1..N : n - 1 \in 0..N
    BY <1>1
  <2> QED BY <1>4, <1>50, <2>1
<1>7. Loops(f)
  <2>1. \A n \in 0..N : n # 0 => n \in 1..N
    BY <1>1
  <2> QED BY <1>50, <1>6, <2>1
<1>8. Loops(alive)
  <2> HIDE DEF Loops
  <2> QED BY <1>7
<1>9. Alive(s) = alive[N]
  BY DEF Alive
<1> HIDE DEF alive
<1>10. \A n \in 1..N : n \in 0..N /\ n # 0 /\ n - 1 \in 0..N
  BY <1>1
<1>11. /\ alive[0] = << >> /\ alive = [n \in 0..N |-> alive[n]]
       /\ \A n \in 1..N : alive[n] = IF Live(s[n]) THEN Append(alive[n - 1], s[n]) ELSE alive[n - 1]
  <2>1. 0 \in 0..N
    BY <1>1
  <2> QED BY <1>8, <1>10, <2>1
<1>12. \A n \in 0..N : alive[n] = f[n]
  <2> DEFINE Bad == {n \in 0..N : alive[n] # f[n]}
  <2>1. SUFFICES ASSUME Bad # {} PROVE FALSE
    OBVIOUS
  <2>2. PICK n \in Bad : \A k \in Bad : n <= k
    <3>1. Bad \in SUBSET Nat
      BY <1>1
    <3> HIDE DEF Bad
    <3> QED BY <2>1, <3>1, LeastOf
  <2>3. n # 0 /\ n \in 1..N /\ n - 1 \in 0..N /\ n \in Nat
    BY <1>1, <1>50, <1>11
  <2>4. n - 1 \notin Bad
    BY <2>2, <2>3
  <2>5. alive[n - 1] = f[n - 1]
    BY <2>3, <2>4
  <2>6. alive[n] = f[n]
    BY <1>6, <1>11, <2>3, <2>5
  <2> QED BY <2>6
<1>13. alive \in [0..N -> Seq(Entry)]
  BY <1>11, <1>12, <1>50
<1>14. AliveTurns(alive, s, N)
  BY <1>9, <1>11, <1>13 DEF AliveTurns
<1> QED BY <1>14

LEMMA AliveIsPart ==
    ASSUME NEW s \in Seq(Entry) PROVE Part(Alive(s), s)
<1>1. PICK N : N = Len(s)
  OBVIOUS
<1>2. N \in Nat /\ DOMAIN s = 1..N /\ \A n \in 1..N : s[n] \in Entry
  BY <1>1
<1>0. PICK alive : AliveTurns(alive, s, N)
  BY <1>1, AliveLoop
<1>3. /\ alive \in [0..N -> Seq(Entry)] /\ alive[0] = <<>> /\ Alive(s) = alive[N]
      /\ \A n \in 1..N : alive[n] = IF Live(s[n]) THEN Append(alive[n - 1], s[n]) ELSE alive[n - 1]
  BY <1>0 DEF AliveTurns
<1> DEFINE Good(n) == /\ Len(alive[n]) <= n
                      /\ \A j \in DOMAIN alive[n] : \E i \in 1..n : alive[n][j] = s[i]
                      /\ OneEntryEach(s) => OneEntryEach(alive[n])
           Bad == {n \in 0..N : ~Good(n)}
<1>4. SUFFICES ASSUME Bad # {} PROVE FALSE
  <2>1. N \in 0..N
    BY <1>2
  <2>2. Bad = {} => Good(N)
    BY <2>1
  <2>3. alive[N] \in Seq(Entry)
    BY <1>2, <1>3
  <2>4. Bad = {} => /\ Len(Alive(s)) <= Len(s)
                    /\ \A j \in DOMAIN Alive(s) : \E i \in DOMAIN s : Alive(s)[j] = s[i]
                    /\ OneEntryEach(s) => OneEntryEach(Alive(s))
    <3>1. ASSUME Bad = {} PROVE /\ Len(alive[N]) <= Len(s)
                                /\ \A j \in DOMAIN alive[N] : \E i \in DOMAIN s : alive[N][j] = s[i]
                                /\ OneEntryEach(s) => OneEntryEach(alive[N])
      <4>1. Good(N)
        BY <2>2, <3>1
      <4> QED BY <1>1, <1>2, <4>1
    <3>2. Alive(s) = alive[N]
      BY <1>3
    <3> HIDE DEF Bad
    <3> QED BY <3>1, <3>2
  <2>5. Alive(s) \in Seq(Entry)
    BY <1>3, <2>3
  <2> HIDE DEF Bad
  <2> QED BY <2>4, <2>5 DEF Part
<1>5. PICK n \in Bad : \A k \in Bad : n <= k
  <2>1. Bad \in SUBSET Nat
    BY <1>2
  <2> HIDE DEF Bad
  <2> QED BY <1>4, <2>1, LeastOf
<1>6. ~Good(n) /\ n \in 0..N
  OBVIOUS
<1>7. CASE n = 0
  <2>1. Good(0)
    BY <1>3 DEF OneEntryEach
  <2> QED BY <1>6, <1>7, <2>1
<1>8. CASE n # 0
  <2>1. n \in Nat /\ n - 1 \in 0..N /\ n \in 1..N /\ ~(n <= n - 1)
    BY <1>2, <1>6, <1>8
  <2>2. Good(n - 1)
    BY <1>5, <2>1
  <2>3. PICK a : a = alive[n - 1]
    OBVIOUS
  <2>4. PICK b : b = alive[n]
    OBVIOUS
  <2>5. b = IF Live(s[n]) THEN Append(a, s[n]) ELSE a
    BY <1>3, <2>1, <2>3, <2>4
  <2>6. /\ a \in Seq(Entry) /\ Len(a) <= n - 1 /\ Len(a) \in Nat /\ DOMAIN a = 1..Len(a)
        /\ \A j \in DOMAIN a : \E i \in 1..n - 1 : a[j] = s[i]
        /\ OneEntryEach(s) => OneEntryEach(a)
    BY <1>3, <2>1, <2>2, <2>3
  <2>7. \A i \in 1..n - 1 : i \in 1..n /\ i # n
    BY <2>1
  <2>8. CASE ~Live(s[n])
    <3>1. b = a
      BY <2>5, <2>8
    <3>2. Len(b) <= n
      BY <2>1, <2>6, <3>1
    <3> QED BY <1>6, <2>4, <2>6, <2>7, <3>1, <3>2
  <2>9. CASE Live(s[n])
    <3>1. b = Append(a, s[n]) /\ s[n] \in Entry
      BY <1>2, <2>1, <2>5, <2>9
    <3>2. /\ Len(b) = Len(a) + 1 /\ DOMAIN b = 1..Len(a) + 1
          /\ \A j \in 1..Len(a) : b[j] = a[j]
          /\ b[Len(a) + 1] = s[n]
      BY <2>6, <3>1, AppendProperties, SMTT(30)
    <3>3. \A j \in DOMAIN b : j = Len(a) + 1 \/ j \in DOMAIN a
      BY <2>6, <3>2, SMTT(30)
    <3>4. \A j \in DOMAIN b : \E i \in 1..n : b[j] = s[i]
      BY <2>1, <2>6, <2>7, <3>2, <3>3, SMTT(30)
    <3>5. ASSUME OneEntryEach(s) PROVE OneEntryEach(b)
      <4>1. ASSUME NEW j \in DOMAIN a PROVE a[j].key # s[n].key
        <5>1. PICK i \in 1..n - 1 : a[j] = s[i]
          BY <2>6
        <5>2. i \in DOMAIN s /\ n \in DOMAIN s /\ i # n
          BY <1>2, <2>1
        <5> QED BY <3>5, <5>1, <5>2 DEF OneEntryEach
      <4>2. \A i, j \in DOMAIN a : a[i].key = a[j].key => i = j
        BY <2>6, <3>5 DEF OneEntryEach
      <4>3. \A j \in DOMAIN a : b[j] = a[j]
        BY <2>6, <3>2
      <4> SUFFICES ASSUME NEW i \in DOMAIN b, NEW j \in DOMAIN b, b[i].key = b[j].key PROVE i = j
        BY DEF OneEntryEach
      <4>4. CASE i \in DOMAIN a /\ j \in DOMAIN a
        BY <4>2, <4>3, <4>4
      <4>5. CASE i = Len(a) + 1 /\ j \in DOMAIN a
        BY <3>2, <4>1, <4>3, <4>5
      <4>6. CASE j = Len(a) + 1 /\ i \in DOMAIN a
        BY <3>2, <4>1, <4>3, <4>6
      <4> QED BY <3>3, <4>4, <4>5, <4>6
    <3>6. Len(b) <= n
      BY <2>1, <2>6, <3>2
    <3> QED BY <1>6, <2>4, <3>4, <3>5, <3>6
  <2> QED BY <2>8, <2>9
<1> QED BY <1>7, <1>8

(* ... every one that is live, in their order; all of s only if all are.   *)
LEMMA AliveKeeps ==
    ASSUME NEW s \in Seq(Entry)
    PROVE  /\ InOrder(s) => InOrder(Alive(s))
           /\ \A i \in DOMAIN s : Live(s[i]) => \E j \in DOMAIN Alive(s) : Alive(s)[j] = s[i]
           /\ Len(Alive(s)) = Len(s) => \A i \in DOMAIN s : Live(s[i]) /\ Alive(s)[i] = s[i]
<1>1. PICK N : N = Len(s)
  OBVIOUS
<1>2. N \in Nat /\ DOMAIN s = 1..N /\ \A n \in 1..N : s[n] \in Entry
  BY <1>1
<1>0. PICK alive : AliveTurns(alive, s, N)
  BY <1>1, AliveLoop
<1>3. /\ alive \in [0..N -> Seq(Entry)] /\ alive[0] = <<>> /\ Alive(s) = alive[N]
      /\ \A n \in 1..N : alive[n] = IF Live(s[n]) THEN Append(alive[n - 1], s[n]) ELSE alive[n - 1]
  BY <1>0 DEF AliveTurns
<1> DEFINE From(a, n) == \A j \in DOMAIN a : \E i \in 1..n : a[j] = s[i]
           Has(a, n) == \A i \in 1..n : Live(s[i]) => \E j \in DOMAIN a : a[j] = s[i]
           All(a, n) == Len(a) = n => \A i \in 1..n : Live(s[i]) /\ a[i] = s[i]
           Ordered(a) == InOrder(s) => InOrder(a)
           Good(n) == Len(alive[n]) <= n /\ From(alive[n], n) /\ Has(alive[n], n) /\ All(alive[n], n) /\ Ordered(alive[n])
           Bad == {n \in 0..N : ~Good(n)}
<1>4. Good(0)
  <2>1. 1..0 = {} /\ DOMAIN alive[0] = {} /\ Len(alive[0]) = 0
    BY <1>3
  <2> QED BY <2>1 DEF InOrder
<1>5. ASSUME NEW n \in 1..N, Good(n - 1) PROVE Good(n)
  <2>1. n \in Nat /\ n - 1 \in Nat /\ n - 1 \in 0..N /\ n \in DOMAIN s
    BY <1>2
  <2>2. PICK a \in Seq(Entry) : a = alive[n - 1]
    BY <1>3, <2>1
  <2>3. PICK b : b = alive[n]
    OBVIOUS
  <2>4. b = IF Live(s[n]) THEN Append(a, s[n]) ELSE a
    BY <1>3, <2>2, <2>3
  <2>5. Len(a) <= n - 1 /\ From(a, n - 1) /\ Has(a, n - 1) /\ All(a, n - 1) /\ Ordered(a)
    BY <1>5, <2>2
  <2>6. Len(a) \in Nat /\ DOMAIN a = 1..Len(a)
    OBVIOUS
  <2>7. \A i \in 1..n : i = n \/ i \in 1..n - 1
    BY <2>1
  <2>70. \A i \in 1..n - 1 : i \in 1..n /\ i \in DOMAIN s /\ i <= n
    BY <1>2, <2>1
  <2> HIDE DEF From, Has, All, Ordered
  <2>8. CASE ~Live(s[n])
    <3>1. b = a
      BY <2>4, <2>8
    <3>2. Len(b) <= n /\ Len(b) # n
      <4>1. PICK l \in Nat : l = Len(a) /\ l <= n - 1
        BY <2>5, <2>6
      <4>2. l <= n /\ l # n
        BY <2>1, <4>1
      <4> QED BY <3>1, <4>1, <4>2
    <3>3. From(b, n) /\ All(b, n) /\ Ordered(b)
      BY <2>5, <2>70, <3>1, <3>2 DEF From, All, Ordered
    <3>4. Has(b, n)
      BY <2>5, <2>7, <2>8, <3>1 DEF Has
    <3> QED BY <2>3, <3>2, <3>3, <3>4
  <2>9. CASE Live(s[n])
    <3>1. b = Append(a, s[n]) /\ s[n] \in Entry
      BY <1>2, <2>4, <2>9
    <3>2. /\ Len(b) = Len(a) + 1 /\ DOMAIN b = 1..Len(a) + 1
          /\ \A j \in 1..Len(a) : b[j] = a[j]
          /\ b[Len(a) + 1] = s[n]
      BY <3>1, AppendProperties, SMTT(30)
    <3>3. /\ \A j \in DOMAIN b : j = Len(a) + 1 \/ j \in DOMAIN a
          /\ \A j \in DOMAIN a : j \in DOMAIN b /\ b[j] = a[j]
          /\ Len(a) + 1 \in DOMAIN b
      BY <2>6, <3>2
    <3>4. Len(b) <= n
      BY <2>1, <2>5, <2>6, <3>2
    <3>5. From(b, n)
      <4> SUFFICES ASSUME NEW j \in DOMAIN b PROVE \E i \in 1..n : b[j] = s[i]
        BY DEF From
      <4>1. CASE j = Len(a) + 1
        <5>1. n \in 1..n
          BY <2>1
        <5> QED BY <3>2, <4>1, <5>1
      <4>2. CASE j \in DOMAIN a
        BY <2>5, <2>70, <3>3, <4>2 DEF From
      <4> QED BY <3>3, <4>1, <4>2
    <3>6. Has(b, n)
      <4> SUFFICES ASSUME NEW i \in 1..n, Live(s[i]) PROVE \E j \in DOMAIN b : b[j] = s[i]
        BY DEF Has
      <4>1. CASE i = n
        BY <3>2, <3>3, <4>1
      <4>2. CASE i \in 1..n - 1
        <5>1. PICK j \in DOMAIN a : a[j] = s[i]
          BY <2>5, <4>2 DEF Has
        <5> QED BY <3>3, <5>1
      <4> QED BY <2>7, <4>1, <4>2
    <3>7. All(b, n)
      <4> SUFFICES ASSUME Len(b) = n, NEW i \in 1..n PROVE Live(s[i]) /\ b[i] = s[i]
        BY DEF All
      <4>1. Len(a) = n - 1 /\ Len(a) + 1 = n
        BY <2>1, <2>6, <3>2
      <4>2. CASE i = n
        BY <2>9, <3>2, <4>1, <4>2
      <4>3. CASE i \in 1..n - 1
        BY <2>5, <3>2, <4>1, <4>3 DEF All
      <4> QED BY <2>7, <4>2, <4>3
    <3>8. Ordered(b)
      <4> SUFFICES ASSUME InOrder(s), NEW i \in DOMAIN b, NEW j \in DOMAIN b, i <= j
                   PROVE  b[i].resetAt <= b[j].resetAt
        BY DEF Ordered, InOrder
      <4>1. CASE j \in DOMAIN a
        <5>1. i \in DOMAIN a
          BY <2>6, <3>2, <4>1
        <5> QED BY <2>5, <3>3, <4>1, <5>1 DEF Ordered, InOrder
      <4>2. CASE j = Len(a) + 1 /\ i \in DOMAIN a
        <5>1. PICK k \in 1..n - 1 : a[i] = s[k]
          BY <2>5, <4>2 DEF From
        <5>2. s[k].resetAt <= s[n].resetAt
          BY <2>1, <2>70 DEF InOrder
        <5> QED BY <3>2, <3>3, <4>2, <5>1, <5>2
      <4>3. CASE j = Len(a) + 1 /\ i = Len(a) + 1
        <5>1. b[j] = s[n] /\ b[i] = s[n] /\ s[n].resetAt \in Nat
          BY <3>1, <3>2, <4>3 DEF Entry
        <5> QED BY <5>1
      <4> QED BY <3>3, <4>1, <4>2, <4>3
    <3> QED BY <2>3, <3>4, <3>5, <3>6, <3>7, <3>8
  <2> QED BY <2>8, <2>9
<1>6. Good(N)
  <2> HIDE DEF Good
  <2>1. SUFFICES ASSUME Bad # {} PROVE FALSE
    BY <1>2
  <2>2. PICK n \in Bad : \A k \in Bad : n <= k
    <3>1. Bad \in SUBSET Nat
      BY <1>2
    <3> HIDE DEF Bad
    <3> QED BY <2>1, <3>1, LeastOf
  <2>3. n # 0 /\ n \in 1..N /\ n - 1 \in 0..N /\ ~(n <= n - 1)
    BY <1>2, <1>4, <2>2
  <2>4. Good(n - 1)
    BY <2>2, <2>3
  <2> QED BY <1>5, <2>2, <2>3, <2>4
<1>7. PICK a : a = alive[N] /\ Alive(s) = a
  BY <1>3
<1>8. Has(a, N) /\ All(a, N) /\ Ordered(a)
  BY <1>6, <1>7
<1>9. InOrder(s) => InOrder(a)
  BY <1>8
<1>10. \A i \in DOMAIN s : Live(s[i]) => \E j \in DOMAIN a : a[j] = s[i]
  BY <1>2, <1>8
<1>11. Len(a) = Len(s) => \A i \in DOMAIN s : Live(s[i]) /\ a[i] = s[i]
  BY <1>1, <1>2, <1>8
<1> QED BY <1>7, <1>9, <1>10, <1>11

(* Entries of different addresses are no more than the addresses.          *)
LEMMA EntriesWithin ==
    ASSUME NEW s \in Seq(Entry), OneEntryEach(s), NEW K, IsFiniteSet(K),
           \A i \in DOMAIN s : s[i].key \in K
    PROVE  Len(s) <= Cardinality(K)
<1>1. PICK n \in Nat : n = Len(s)
  OBVIOUS
<1>2. DOMAIN s = 1..n
  BY <1>1
<1> DEFINE f == [i \in 1..n |-> s[i].key]
<1>3. f \in [1..n -> K]
  BY <1>2
<1>4. \A i, j \in 1..n : f[i] = f[j] => i = j
  BY <1>2 DEF OneEntryEach
<1> HIDE DEF f
<1>5. f \in Injection(1..n, K)
  BY <1>3, <1>4 DEF Injection, IsInjective
<1>6. Cardinality(1..n) <= Cardinality(K)
  BY <1>5, FS_Injection
<1>7. 1 \in Int /\ n \in Int /\ Cardinality(1..n) = IF 1 > n THEN 0 ELSE n - 1 + 1
  BY FS_Interval
<1> QED BY <1>1, <1>6, <1>7

(* makeRoom leaves room for one more.                                      *)
LEMMA RoomIsMade ==
    ASSUME LegacyServerAssumption, NEW s \in Seq(Entry)
    PROVE  Part(MakeRoom(s), s) /\ Len(MakeRoom(s)) < MaximumKeys
<1>1. MaximumKeys \in Nat /\ MaximumKeys >= 1
  BY DEF LegacyServerAssumption
<1>2. CASE Len(s) < MaximumKeys
  <2>1. MakeRoom(s) = s
    BY <1>2 DEF MakeRoom
  <2> QED BY <1>2, <2>1 DEF Part
<1>3. CASE ~(Len(s) < MaximumKeys)
  <2>1. PICK a : a = Alive(s)
    OBVIOUS
  <2>2. Part(a, s)
    BY <2>1, AliveIsPart
  <2>3. a \in Seq(Entry) /\ Len(a) \in Nat /\ Len(s) \in Nat /\ Len(a) <= Len(s)
    BY <2>2 DEF Part
  <2>4. CASE Len(a) < MaximumKeys
    <3>1. MakeRoom(s) = a
      BY <1>3, <2>1, <2>4 DEF MakeRoom
    <3> QED BY <2>2, <2>4, <3>1
  <2>5. CASE ~(Len(a) < MaximumKeys)
    <3>1. PICK m : m = Len(a) - MaximumKeys + 2
      OBVIOUS
    <3>2. PICK b : b = SubSeq(a, m, Len(a))
      OBVIOUS
    <3>3. MakeRoom(s) = b
      BY <1>3, <2>1, <2>5, <3>1, <3>2 DEF MakeRoom
    <3>4. m \in Int /\ Len(a) \in Int /\ m >= 2 /\ Len(a) - m + 1 = MaximumKeys - 1
      BY <1>1, <2>3, <2>5, <3>1
    <3>5. \A i \in m..Len(a) : a[i] \in Entry
      BY <2>3, <3>4
    <3>6. /\ b \in Seq(Entry) /\ Len(b) = (IF m <= Len(a) THEN Len(a) - m + 1 ELSE 0)
          /\ \A i \in 1..Len(a) - m + 1 : b[i] = a[m + i - 1]
      BY <3>2, <3>4, <3>5, SubSeqProperties
    <3>7. Len(b) = MaximumKeys - 1 /\ Len(b) \in Nat /\ DOMAIN b = 1..Len(b)
      BY <1>1, <3>4, <3>6
    <3>8. \A i \in DOMAIN b : m + i - 1 \in DOMAIN a /\ b[i] = a[m + i - 1]
      <4>1. ASSUME NEW i \in 1..Len(b) PROVE m + i - 1 \in 1..Len(a) /\ i \in 1..Len(a) - m + 1
        BY <1>1, <2>3, <3>4, <3>7
      <4> QED BY <2>3, <3>6, <3>7, <4>1
    <3>9. \A j \in DOMAIN b : \E i \in DOMAIN s : b[j] = s[i]
      BY <2>2, <3>8 DEF Part
    <3>10. ASSUME OneEntryEach(s) PROVE OneEntryEach(b)
      <4> SUFFICES ASSUME NEW i \in DOMAIN b, NEW j \in DOMAIN b, b[i].key = b[j].key PROVE i = j
        BY DEF OneEntryEach
      <4>1. m + i - 1 = m + j - 1
        BY <2>2, <3>8, <3>10 DEF Part, OneEntryEach
      <4> QED BY <3>4, <3>7, <4>1
    <3>11. Len(b) <= Len(s) /\ Len(b) < MaximumKeys
      BY <1>1, <2>3, <2>5, <3>7
    <3>12. Part(b, s)
      BY <3>6, <3>9, <3>10, <3>11 DEF Part
    <3> QED BY <3>3, <3>11, <3>12
  <2> QED BY <2>4, <2>5
<1> QED BY <1>2, <1>3

(* makeRoom forgets no live entry, or the first one of a full list that is *)
(* live throughout.                                                        *)
LEMMA RoomForOne ==
    ASSUME LegacyServerAssumption, NEW s \in Seq(Entry), Len(s) <= MaximumKeys,
           NEW b, b = MakeRoom(s)
    PROVE  /\ InOrder(s) => InOrder(b)
           /\ \/ \A i \in DOMAIN s : Live(s[i]) => \E j \in DOMAIN b : b[j] = s[i]
              \/ /\ Len(s) = MaximumKeys
                 /\ \A i \in DOMAIN s : Live(s[i]) /\ (i # 1 => \E j \in DOMAIN b : b[j] = s[i])
<1>1. MaximumKeys \in Nat /\ MaximumKeys >= 1
  BY DEF LegacyServerAssumption
<1>2. CASE Len(s) < MaximumKeys
  <2>1. b = s
    BY <1>2 DEF MakeRoom
  <2> QED BY <2>1
<1>3. CASE ~(Len(s) < MaximumKeys)
  <2>1. PICK n \in Nat : n = Len(s) /\ DOMAIN s = 1..n /\ n = MaximumKeys
    BY <1>1, <1>3
  <2>2. PICK a : a = Alive(s)
    OBVIOUS
  <2>3. a \in Seq(Entry) /\ Len(a) \in Nat /\ Len(a) <= n
    BY <2>1, <2>2, AliveIsPart DEF Part
  <2>4. /\ InOrder(s) => InOrder(a)
        /\ \A i \in 1..n : Live(s[i]) => \E j \in DOMAIN a : a[j] = s[i]
        /\ Len(a) = n => \A i \in 1..n : Live(s[i]) /\ a[i] = s[i]
    BY <2>1, <2>2, AliveKeeps
  <2>5. CASE Len(a) < MaximumKeys
    <3>1. b = a
      BY <1>3, <2>2, <2>5 DEF MakeRoom
    <3> QED BY <2>1, <2>4, <3>1
  <2>6. CASE ~(Len(a) < MaximumKeys)
    <3>1. Len(a) = n
      BY <1>1, <2>1, <2>3, <2>6
    <3>2. b = SubSeq(a, 2, n)
      <4>1. b = SubSeq(a, Len(a) - MaximumKeys + 2, Len(a))
        BY <1>3, <2>2, <2>6 DEF MakeRoom
      <4>2. Len(a) - MaximumKeys + 2 = 2
        BY <2>1, <3>1
      <4> QED BY <3>1, <4>1, <4>2
    <3>3. \A i \in 2..n : a[i] \in Entry
      BY <2>3, <3>1
    <3>4. /\ b \in Seq(Entry) /\ Len(b) = (IF 2 <= n THEN n - 2 + 1 ELSE 0)
          /\ \A i \in 1..n - 2 + 1 : b[i] = a[2 + i - 1]
      <4>1. 2 \in Int /\ n \in Int
        OBVIOUS
      <4> QED BY <3>2, <3>3, <4>1, SubSeqProperties
    <3>5. Len(b) = n - 1 /\ DOMAIN b = 1..n - 1
      BY <1>1, <2>1, <3>4
    <3>6. \A j \in 1..n - 1 : b[j] = a[j + 1] /\ j + 1 \in 1..n
      <4> SUFFICES ASSUME NEW j \in 1..n - 1 PROVE b[j] = a[j + 1] /\ j + 1 \in 1..n
        OBVIOUS
      <4>1. j \in 1..n - 2 + 1 /\ 2 + j - 1 = j + 1 /\ j + 1 \in 1..n
        OBVIOUS
      <4> QED BY <3>4, <4>1
    <3>7. ASSUME InOrder(s) PROVE InOrder(b)
      <4>1. DOMAIN a = 1..n /\ InOrder(a)
        BY <2>3, <2>4, <3>1, <3>7
      <4> SUFFICES ASSUME NEW i \in 1..n - 1, NEW j \in 1..n - 1, i <= j
                   PROVE  b[i].resetAt <= b[j].resetAt
        BY <3>5 DEF InOrder
      <4>2. i + 1 \in DOMAIN a /\ j + 1 \in DOMAIN a /\ i + 1 <= j + 1
        BY <3>6, <4>1
      <4> QED BY <3>6, <4>1, <4>2 DEF InOrder
    <3>8. ASSUME NEW i \in 1..n, i # 1 PROVE \E j \in DOMAIN b : b[j] = s[i]
      <4>1. i - 1 \in 1..n - 1 /\ i - 1 + 1 = i
        BY <3>8
      <4> QED BY <2>4, <3>1, <3>5, <3>6, <4>1
    <3> QED BY <2>1, <2>4, <3>1, <3>7, <3>8
  <2> QED BY <2>5, <2>6
<1> QED BY <1>2, <1>3

(* Deleting an address's entry keeps every other one, in their order.      *)
LEMMA DeletedEntry ==
    ASSUME entries \in Seq(Entry), OneEntryEach(entries), NEW key
    PROVE  /\ Part(Deleted(key), entries)
           /\ \A j \in DOMAIN Deleted(key) : Deleted(key)[j].key # key
           /\ \A i \in DOMAIN entries : entries[i].key # key =>
                 \E j \in DOMAIN Deleted(key) : Deleted(key)[j] = entries[i]
           /\ InOrder(entries) => InOrder(Deleted(key))
           /\ Deleted(key) = entries \/ Len(Deleted(key)) < Len(entries)
<1> DEFINE n == Len(entries)
<1>1. n \in Nat /\ DOMAIN entries = 1..n /\ \A i \in 1..n : entries[i] \in Entry
  OBVIOUS
<1>2. CASE EntryOf(key) = {}
  <2>1. Deleted(key) = entries
    BY <1>2 DEF Deleted
  <2>2. \A j \in DOMAIN entries : entries[j].key # key
    BY <1>2 DEF EntryOf
  <2> QED BY <1>1, <2>1, <2>2 DEF Part
<1>3. CASE EntryOf(key) # {}
  <2>1. PICK i : i = CHOOSE x \in EntryOf(key) : TRUE
    OBVIOUS
  <2>2. i \in 1..n /\ entries[i].key = key
    BY <1>1, <1>3, <2>1 DEF EntryOf
  <2>3. PICK b : b = Deleted(key)
    OBVIOUS
  <2>4. PICK l : l = SubSeq(entries, 1, i - 1)
    OBVIOUS
  <2>5. PICK r : r = SubSeq(entries, i + 1, n)
    OBVIOUS
  <2>6. b = l \o r
    BY <1>3, <2>1, <2>3, <2>4, <2>5 DEF Deleted, RemoveAt
  <2>7. /\ l \in Seq(Entry) /\ Len(l) = i - 1
        /\ \A j \in 1..i - 1 : l[j] = entries[j]
    <3>1. 1 \in Int /\ i - 1 \in Int /\ i - 1 - 1 + 1 = i - 1
      BY <2>2
    <3>2. \A j \in 1..i - 1 : entries[j] \in Entry
      BY <1>1, <2>2
    <3>3. /\ l \in Seq(Entry) /\ Len(l) = (IF 1 <= i - 1 THEN i - 1 - 1 + 1 ELSE 0)
          /\ \A j \in 1..i - 1 - 1 + 1 : l[j] = entries[1 + j - 1]
      BY <2>4, <3>1, <3>2, SubSeqProperties
    <3> QED BY <2>2, <3>1, <3>3
  <2>8. /\ r \in Seq(Entry) /\ Len(r) = n - i
        /\ \A j \in 1..n - i : r[j] = entries[i + j]
    <3>1. i + 1 \in Int /\ n \in Int /\ n - (i + 1) + 1 = n - i
      BY <1>1, <2>2
    <3>2. \A j \in i + 1..n : entries[j] \in Entry
      BY <1>1, <2>2
    <3>3. /\ r \in Seq(Entry) /\ Len(r) = (IF i + 1 <= n THEN n - (i + 1) + 1 ELSE 0)
          /\ \A j \in 1..n - (i + 1) + 1 : r[j] = entries[i + 1 + j - 1]
      BY <2>5, <3>1, <3>2, SubSeqProperties
    <3> HIDE DEF n
    <3>4. Len(r) = n - i
      BY <1>1, <2>2, <3>3
    <3>5. \A j \in 1..n - i : i + 1 + j - 1 = i + j
      BY <1>1, <2>2
    <3> QED BY <3>1, <3>3, <3>4, <3>5
  <2> HIDE DEF n
  <2>9. /\ b \in Seq(Entry) /\ Len(b) = n - 1 /\ n - 1 \in Nat /\ DOMAIN b = 1..n - 1
        /\ \A j \in 1..n - 1 : b[j] = IF j < i THEN entries[j] ELSE entries[j + 1]
    <3>1. /\ b \in Seq(Entry) /\ Len(b) = i - 1 + (n - i)
          /\ \A j \in 1..i - 1 + (n - i) : b[j] = IF j <= i - 1 THEN l[j] ELSE r[j - (i - 1)]
      BY <2>6, <2>7, <2>8, ConcatProperties
    <3>2. i - 1 + (n - i) = n - 1 /\ n - 1 \in Nat
      BY <1>1, <2>2
    <3>3. ASSUME NEW j \in 1..n - 1 PROVE b[j] = IF j < i THEN entries[j] ELSE entries[j + 1]
      <4>1. j <= i - 1 <=> j < i
        BY <2>2
      <4>2. CASE j < i
        <5>1. j \in 1..i - 1
          BY <2>2, <4>2
        <5> QED BY <2>7, <3>1, <3>2, <4>1, <4>2, <5>1
      <4>3. CASE ~(j < i)
        <5>1. j - (i - 1) \in 1..n - i /\ i + (j - (i - 1)) = j + 1
          BY <1>1, <2>2, <4>3
        <5> QED BY <2>8, <3>1, <3>2, <4>1, <4>3, <5>1
      <4> QED BY <4>2, <4>3
    <3>4. DOMAIN b = 1..Len(b)
      BY <3>1
    <3> QED BY <3>1, <3>2, <3>3, <3>4
  <2> DEFINE at(j) == IF j < i THEN j ELSE j + 1
  <2>10. ASSUME NEW j \in 1..n - 1 PROVE at(j) \in 1..n /\ at(j) # i /\ b[j] = entries[at(j)]
    BY <1>1, <2>2, <2>9
  <2>11. ASSUME NEW j \in 1..n - 1, NEW k \in 1..n - 1, at(j) = at(k) PROVE j = k
    BY <2>2, <2>11
  <2>110. ASSUME NEW j \in 1..n - 1, NEW k \in 1..n - 1, j <= k PROVE at(j) <= at(k)
    BY <2>2, <2>110
  <2>12. ASSUME NEW k \in 1..n, k # i PROVE \E j \in 1..n - 1 : at(j) = k
    <3>1. CASE k < i
      BY <1>1, <2>2, <3>1
    <3>2. CASE k > i
      <4>1. k - 1 \in 1..n - 1 /\ at(k - 1) = k
        BY <1>1, <2>2, <3>2
      <4> QED BY <4>1
    <3> QED BY <2>2, <2>12, <3>1, <3>2
  <2> HIDE DEF at
  <2>13. \A j, k \in 1..n : entries[j].key = entries[k].key => j = k
    BY <1>1 DEF OneEntryEach
  <2>14. Part(b, entries)
    <3>1. OneEntryEach(b)
      <4> SUFFICES ASSUME NEW j \in 1..n - 1, NEW k \in 1..n - 1, b[j].key = b[k].key PROVE j = k
        BY <2>9 DEF OneEntryEach
      <4>1. at(j) = at(k)
        BY <2>10, <2>13
      <4> QED BY <2>11, <4>1
    <3>2. Len(b) <= Len(entries)
      BY <1>1, <2>9 DEF n
    <3>3. \A j \in DOMAIN b : \E k \in DOMAIN entries : b[j] = entries[k]
      BY <1>1, <2>9, <2>10
    <3> QED BY <2>9, <3>1, <3>2, <3>3 DEF Part
  <2>15. \A j \in DOMAIN b : b[j].key # key
    BY <2>2, <2>9, <2>10, <2>13
  <2>16. \A k \in DOMAIN entries : entries[k].key # key => \E j \in DOMAIN b : b[j] = entries[k]
    <3> SUFFICES ASSUME NEW k \in 1..n, entries[k].key # key PROVE \E j \in 1..n - 1 : b[j] = entries[k]
      BY <1>1, <2>9
    <3>1. k # i
      BY <2>2
    <3> QED BY <2>10, <2>12, <3>1
  <2>17. ASSUME InOrder(entries) PROVE InOrder(b)
    <3> SUFFICES ASSUME NEW j \in 1..n - 1, NEW k \in 1..n - 1, j <= k
                 PROVE  b[j].resetAt <= b[k].resetAt
      BY <2>9 DEF InOrder
    <3>1. at(j) \in 1..n /\ at(k) \in 1..n /\ b[j] = entries[at(j)] /\ b[k] = entries[at(k)]
      BY <2>10
    <3> QED BY <1>1, <2>17, <2>110, <3>1 DEF InOrder
  <2>18. Len(b) < Len(entries)
    BY <1>1, <2>9 DEF n
  <2> QED BY <2>3, <2>14, <2>15, <2>16, <2>17, <2>18
<1> QED BY <1>2, <1>3

-----------------------------------------------------------------------------
(* Counting the admissions of an address, whose times are q.               *)

SinceIn(q, from) == Cardinality({n \in DOMAIN q : q[n] >= from})
BetweenIn(q, from, to) == Cardinality({n \in DOMAIN q : q[n] >= from /\ q[n] < to})

LEMMA Indices ==
    ASSUME NEW q \in Seq(Nat), NEW I \in SUBSET DOMAIN q
    PROVE  IsFiniteSet(I) /\ Cardinality(I) \in Nat
<1>1. PICK n \in Nat : n = Len(q) /\ DOMAIN q = 1..n
  OBVIOUS
<1>2. 1 \in Int /\ n \in Int
  OBVIOUS
<1>3. IsFiniteSet(1..n)
  BY <1>2, FS_Interval
<1>4. IsFiniteSet(I)
  BY <1>1, <1>3, FS_Subset
<1> QED BY <1>4, FS_CardinalityType

LEMMA FewerIndices ==
    ASSUME NEW q \in Seq(Nat), NEW I \in SUBSET DOMAIN q, NEW J \in SUBSET I
    PROVE  Cardinality(J) <= Cardinality(I)
BY Indices, FS_Subset

LEMMA Counts ==
    ASSUME NEW q \in Seq(Nat), NEW from \in Nat, NEW to \in Nat
    PROVE  SinceIn(q, from) \in Nat /\ BetweenIn(q, from, to) \in Nat
<1>1. /\ {n \in DOMAIN q : q[n] >= from} \in SUBSET DOMAIN q
      /\ {n \in DOMAIN q : q[n] >= from /\ q[n] < to} \in SUBSET DOMAIN q
  OBVIOUS
<1> QED BY <1>1, Indices DEF SinceIn, BetweenIn

LEMMA SinceCounts ==
    ASSUME NEW q \in Seq(Nat), NEW from \in Nat PROVE SinceIn(q, from) \in Nat
BY Counts

LEMMA BetweenIsSince ==
    ASSUME NEW q \in Seq(Nat), NEW from \in Nat, NEW to \in Nat, NEW base \in Nat, base <= from
    PROVE  BetweenIn(q, from, to) <= SinceIn(q, base)
<1> DEFINE I == {n \in DOMAIN q : q[n] >= base}
           J == {n \in DOMAIN q : q[n] >= from /\ q[n] < to}
<1>1. \A n \in DOMAIN q : q[n] \in Nat
  OBVIOUS
<1>2. I \in SUBSET DOMAIN q /\ J \in SUBSET I
  BY <1>1
<1>3. Cardinality(I) = SinceIn(q, base) /\ Cardinality(J) = BetweenIn(q, from, to)
  BY DEF SinceIn, BetweenIn
<1> HIDE DEF I, J
<1> QED BY <1>2, <1>3, FewerIndices

LEMMA LaterIsFewer ==
    ASSUME NEW q \in Seq(Nat), NEW from \in Nat, NEW base \in Nat, base <= from
    PROVE  SinceIn(q, from) <= SinceIn(q, base)
<1> DEFINE I == {n \in DOMAIN q : q[n] >= base}
           J == {n \in DOMAIN q : q[n] >= from}
<1>1. \A n \in DOMAIN q : q[n] \in Nat
  OBVIOUS
<1>2. I \in SUBSET DOMAIN q /\ J \in SUBSET I
  BY <1>1
<1>3. Cardinality(I) = SinceIn(q, base) /\ Cardinality(J) = SinceIn(q, from)
  BY DEF SinceIn
<1> HIDE DEF I, J
<1> QED BY <1>2, <1>3, FewerIndices

(* An interval is counted in two parts.                                    *)
LEMMA InTwoParts ==
    ASSUME NEW q \in Seq(Nat), NEW from \in Nat, NEW to \in Nat, NEW middle \in Nat
    PROVE  BetweenIn(q, from, to) <= BetweenIn(q, from, middle) + SinceIn(q, middle)
<1> DEFINE I == {n \in DOMAIN q : q[n] >= from /\ q[n] < middle}
           J == {n \in DOMAIN q : q[n] >= middle}
           L == {n \in DOMAIN q : q[n] >= from /\ q[n] < to}
<1>1. \A n \in DOMAIN q : q[n] \in Nat
  OBVIOUS
<1>2. I \in SUBSET DOMAIN q /\ J \in SUBSET DOMAIN q /\ I \cup J \in SUBSET DOMAIN q /\ I \cap J \in SUBSET DOMAIN q
  OBVIOUS
<1>3. L \in SUBSET (I \cup J)
  BY <1>1
<1>4. /\ Cardinality(I) = BetweenIn(q, from, middle) /\ Cardinality(J) = SinceIn(q, middle)
      /\ Cardinality(L) = BetweenIn(q, from, to)
  BY DEF SinceIn, BetweenIn
<1> HIDE DEF I, J, L
<1>5. Cardinality(L) <= Cardinality(I \cup J)
  BY <1>2, <1>3, FewerIndices
<1>6. /\ IsFiniteSet(I) /\ IsFiniteSet(J)
      /\ Cardinality(I) \in Nat /\ Cardinality(J) \in Nat /\ Cardinality(I \cap J) \in Nat
      /\ Cardinality(I \cup J) \in Nat
  BY <1>2, Indices
<1>7. Cardinality(I \cup J) = Cardinality(I) + Cardinality(J) - Cardinality(I \cap J)
  BY <1>6, FS_Union
<1>8. Cardinality(L) \in Nat
  BY <1>2, <1>3, Indices
<1> QED BY <1>4, <1>5, <1>6, <1>7, <1>8

(* Nothing is counted where nothing is.                                    *)
LEMMA NoneCounted ==
    ASSUME NEW q \in Seq(Nat), NEW c \in Nat, \A n \in DOMAIN q : q[n] < c
    PROVE  SinceIn(q, c) = 0
<1>1. {n \in DOMAIN q : q[n] >= c} = {}
  OBVIOUS
<1> QED BY <1>1, FS_EmptySet DEF SinceIn

(* One more admission, at c.                                               *)
LEMMA CountedOnce ==
    ASSUME NEW q \in Seq(Nat), NEW c \in Nat, NEW from \in Nat, NEW to \in Nat
    PROVE  /\ SinceIn(Append(q, c), from) = SinceIn(q, from) + (IF c >= from THEN 1 ELSE 0)
           /\ BetweenIn(Append(q, c), from, to)
                = BetweenIn(q, from, to) + (IF c >= from /\ c < to THEN 1 ELSE 0)
<1>1. PICK n \in Nat : n = Len(q) /\ DOMAIN q = 1..n
  OBVIOUS
<1>2. PICK p : p = Append(q, c)
  OBVIOUS
<1>3. DOMAIN p = 1..n + 1 /\ (\A i \in 1..n : p[i] = q[i]) /\ p[n + 1] = c
  BY <1>1, <1>2, AppendProperties
<1>4. n + 1 \notin 1..n /\ n + 1 \in 1..n + 1 /\ \A i \in 1..n + 1 : i = n + 1 \/ i \in 1..n
  OBVIOUS
<1> DEFINE I == {i \in DOMAIN q : q[i] >= from}
           J == {i \in DOMAIN p : p[i] >= from}
           K == {i \in DOMAIN q : q[i] >= from /\ q[i] < to}
           L == {i \in DOMAIN p : p[i] >= from /\ p[i] < to}
<1>5. n + 1 \notin I /\ n + 1 \notin K /\ I \in SUBSET DOMAIN q /\ K \in SUBSET DOMAIN q
  BY <1>1, <1>4
<1>6. J = IF c >= from THEN I \cup {n + 1} ELSE I
  BY <1>1, <1>3, <1>4
<1>7. L = IF c >= from /\ c < to THEN K \cup {n + 1} ELSE K
  BY <1>1, <1>3, <1>4
<1>8. /\ Cardinality(I) = SinceIn(q, from) /\ Cardinality(J) = SinceIn(p, from)
      /\ Cardinality(K) = BetweenIn(q, from, to) /\ Cardinality(L) = BetweenIn(p, from, to)
  BY DEF SinceIn, BetweenIn
<1> HIDE DEF I, J, K, L
<1>9. IsFiniteSet(I) /\ IsFiniteSet(K) /\ Cardinality(I) \in Nat /\ Cardinality(K) \in Nat
  BY <1>5, Indices
<1>10. Cardinality(I \cup {n + 1}) = Cardinality(I) + 1 /\ Cardinality(K \cup {n + 1}) = Cardinality(K) + 1
  BY <1>5, <1>9, FS_AddElement
<1>11. SinceIn(p, from) = SinceIn(q, from) + (IF c >= from THEN 1 ELSE 0)
  BY <1>6, <1>8, <1>9, <1>10
<1>12. BetweenIn(p, from, to) = BetweenIn(q, from, to) + (IF c >= from /\ c < to THEN 1 ELSE 0)
  BY <1>7, <1>8, <1>9, <1>10
<1> QED BY <1>2, <1>11, <1>12

LEMMA SinceOnce ==
    ASSUME NEW q \in Seq(Nat), NEW c \in Nat, NEW from \in Nat
    PROVE  SinceIn(Append(q, c), from) = SinceIn(q, from) + (IF c >= from THEN 1 ELSE 0)
BY CountedOnce

-----------------------------------------------------------------------------
(* An entry e, its address's admissions q and the time c.                  *)

WindowOf(e) == e.resetAt - Window
Counted(e, q, c) ==
    /\ Window <= e.resetAt /\ WindowOf(e) <= c
    /\ e.count <= SinceIn(q, WindowOf(e))
    /\ \A n \in DOMAIN q : q[n] < e.resetAt
    /\ q # <<>>

(* When no entry was evicted, e counts every admission of its window, the  *)
(* first of which opened it; and fewer than the allowance came before it,  *)
(* in any interval of a window's length that reaches into it.              *)
Spent(e, q) ==
    /\ e.count = SinceIn(q, WindowOf(e)) /\ e.count <= Maximum
    /\ SinceIn(q, WindowOf(e) + 1) < e.count
    /\ \A time \in Nat : time + Window > WindowOf(e) => BetweenIn(q, time, WindowOf(e)) < Maximum
Allowance(q) == \A time \in Nat :
    /\ BetweenIn(q, time, time + 1) <= Maximum
    /\ BetweenIn(q, time, time + Window) < 2 * Maximum

LEMMA Numbers ==
    ASSUME LegacyServerAssumption
    PROVE  /\ Maximum \in Nat /\ Maximum >= 1 /\ Window \in Nat /\ Window >= 1
           /\ MaximumKeys \in Nat /\ MaximumKeys >= 1
BY DEF LegacyServerAssumption

LEMMA WindowOpened ==
    ASSUME LegacyServerAssumption, NEW e \in Entry, NEW q, NEW c \in Nat, Counted(e, q, c)
    PROVE  /\ WindowOf(e) \in Nat /\ e.resetAt \in Nat /\ e.count \in Nat
           /\ WindowOf(e) + Window = e.resetAt /\ WindowOf(e) <= c
BY Numbers DEF Counted, WindowOf, Entry

LEMMA CountedLater ==
    ASSUME LegacyServerAssumption, NEW e \in Entry, NEW q, NEW c \in Nat, Counted(e, q, c)
    PROVE  Counted(e, q, c + 1)
<1>1. WindowOf(e) <= c + 1
  BY WindowOpened
<1> QED BY <1>1 DEF Counted

(* One more request in a window that is open.                              *)
LEMMA OneMoreCounted ==
    ASSUME LegacyServerAssumption, NEW e \in Entry, NEW q \in Seq(Nat), NEW c \in Nat,
           Counted(e, q, c), c < e.resetAt,
           NEW f \in Entry, f.resetAt = e.resetAt, f.count = e.count + 1
    PROVE  Counted(f, Append(q, c), c)
<1>1. WindowOf(e) \in Nat /\ WindowOf(e) <= c /\ e.count \in Nat
  BY WindowOpened
<1>2. WindowOf(f) = WindowOf(e)
  BY DEF WindowOf
<1>3. SinceIn(Append(q, c), WindowOf(e)) = SinceIn(q, WindowOf(e)) + 1
  BY <1>1, SinceOnce
<1>4. SinceIn(q, WindowOf(e)) \in Nat
  BY <1>1, SinceCounts
<1>5. f.count <= SinceIn(Append(q, c), WindowOf(f))
  BY <1>1, <1>2, <1>3, <1>4 DEF Counted
<1>6. ASSUME NEW n \in DOMAIN Append(q, c) PROVE Append(q, c)[n] < f.resetAt
  <2>1. Append(q, c)[n] = c \/ (n \in DOMAIN q /\ Append(q, c)[n] = q[n])
    BY AppendProperties
  <2> QED BY <2>1 DEF Counted
<1>7. Append(q, c) # <<>>
  <2>1. Len(Append(q, c)) = Len(q) + 1 /\ Len(q) \in Nat /\ Len(<<>>) = 0
    BY AppendProperties
  <2> QED BY <2>1
<1> QED BY <1>1, <1>2, <1>5, <1>6, <1>7 DEF Counted

LEMMA OneMoreSpent ==
    ASSUME LegacyServerAssumption, NEW e \in Entry, NEW q \in Seq(Nat), NEW c \in Nat,
           Counted(e, q, c), c < e.resetAt, Spent(e, q), e.count < Maximum,
           NEW f \in Entry, f.resetAt = e.resetAt, f.count = e.count + 1
    PROVE  Spent(f, Append(q, c)) /\ (Allowance(q) => Allowance(Append(q, c)))
<1>1. PICK o : o = WindowOf(e)
  OBVIOUS
<1>2. o \in Nat /\ o <= c /\ e.count \in Nat /\ o + Window = e.resetAt
  BY <1>1, WindowOpened
<1>3. WindowOf(f) = o
  BY <1>1 DEF WindowOf
<1>4. PICK p : p = Append(q, c)
  OBVIOUS
<1>5. Maximum \in Nat /\ Maximum >= 1 /\ Window \in Nat /\ Window >= 1
  BY Numbers
<1>6. /\ e.count = SinceIn(q, o) /\ SinceIn(q, o + 1) < e.count
      /\ \A time \in Nat : time + Window > o => BetweenIn(q, time, o) < Maximum
  BY <1>1 DEF Spent
<1>7. Spent(f, p)
  <2>1. f.count = SinceIn(p, o)
    <3>1. SinceIn(p, o) = SinceIn(q, o) + (IF c >= o THEN 1 ELSE 0)
      BY <1>2, <1>4, SinceOnce
    <3> QED BY <1>2, <1>6, <3>1
  <2>2. f.count <= Maximum
    BY <1>2, <1>5
  <2>3. SinceIn(p, o + 1) < f.count
    <3>1. SinceIn(p, o + 1) = SinceIn(q, o + 1) + (IF c >= o + 1 THEN 1 ELSE 0)
      <4>1. o + 1 \in Nat
        BY <1>2
      <4> QED BY <1>4, <4>1, SinceOnce
    <3>2. SinceIn(q, o + 1) \in Nat
      <4>1. o + 1 \in Nat
        BY <1>2
      <4> QED BY <4>1, SinceCounts
    <3> QED BY <1>2, <1>6, <3>1, <3>2
  <2>4. ASSUME NEW time \in Nat, time + Window > o PROVE BetweenIn(p, time, o) < Maximum
    <3>1. BetweenIn(p, time, o) = BetweenIn(q, time, o) + (IF c >= time /\ c < o THEN 1 ELSE 0)
      BY <1>2, <1>4, CountedOnce
    <3>2. BetweenIn(q, time, o) \in Nat
      BY <1>2, Counts
    <3> QED BY <1>2, <1>6, <2>4, <3>1, <3>2
  <2> QED BY <1>3, <2>1, <2>2, <2>3, <2>4 DEF Spent
<1>8. ASSUME Allowance(q), NEW time \in Nat
      PROVE  BetweenIn(p, time, time + 1) <= Maximum /\ BetweenIn(p, time, time + Window) < 2 * Maximum
  <2>1. /\ BetweenIn(p, time, time + 1)
             = BetweenIn(q, time, time + 1) + (IF c >= time /\ c < time + 1 THEN 1 ELSE 0)
        /\ BetweenIn(p, time, time + Window)
             = BetweenIn(q, time, time + Window) + (IF c >= time /\ c < time + Window THEN 1 ELSE 0)
    BY <1>4, <1>5, CountedOnce
  <2>2. /\ BetweenIn(q, time, time + 1) \in Nat /\ BetweenIn(q, time, time + Window) \in Nat
        /\ BetweenIn(q, time, o) \in Nat /\ SinceIn(q, o) \in Nat
    <3>1. time + 1 \in Nat /\ time + Window \in Nat
      BY <1>5
    <3> QED BY <1>2, <3>1, Counts, SinceCounts
  <2>3. BetweenIn(q, time, time + 1) <= Maximum /\ BetweenIn(q, time, time + Window) < 2 * Maximum
    BY <1>8 DEF Allowance
  <2>4. c >= time /\ c < time + 1 => BetweenIn(q, time, time + 1) <= SinceIn(q, o)
    BY <1>2, BetweenIsSince
  <2>5. BetweenIn(q, time, time + Window) <= BetweenIn(q, time, o) + SinceIn(q, o)
    BY <1>2, <1>5, InTwoParts
  <2>6. c < time + Window => BetweenIn(q, time, o) < Maximum
    BY <1>2, <1>5, <1>6
  <2>7. SinceIn(q, o) < Maximum
    BY <1>6
  <2> QED BY <1>5, <2>1, <2>2, <2>3, <2>4, <2>5, <2>6, <2>7, SMTT(30)
<1> QED BY <1>4, <1>7, <1>8 DEF Allowance

(* The first request of a window opens it.                                 *)
LEMMA FirstCounted ==
    ASSUME LegacyServerAssumption, NEW q \in Seq(Nat), NEW c \in Nat, \A n \in DOMAIN q : q[n] <= c,
           NEW f \in Entry, f.resetAt = c + Window, f.count = 1
    PROVE  Counted(f, Append(q, c), c)
<1>1. WindowOf(f) = c /\ Window \in Nat /\ Window >= 1
  BY Numbers DEF WindowOf
<1>2. SinceIn(Append(q, c), c) = SinceIn(q, c) + 1
  BY SinceOnce
<1>3. SinceIn(q, c) \in Nat
  BY SinceCounts
<1>4. f.count <= SinceIn(Append(q, c), WindowOf(f))
  BY <1>1, <1>2, <1>3
<1>5. ASSUME NEW n \in DOMAIN Append(q, c) PROVE Append(q, c)[n] < f.resetAt
  <2>1. Append(q, c)[n] = c \/ (n \in DOMAIN q /\ Append(q, c)[n] = q[n])
    BY AppendProperties, SMTT(30)
  <2>2. \A m \in DOMAIN q : q[m] \in Nat
    OBVIOUS
  <2> QED BY <1>1, <2>1, <2>2
<1>6. Append(q, c) # <<>>
  <2>1. PICK a : a = Append(q, c)
    OBVIOUS
  <2>2. Len(a) = Len(q) + 1 /\ Len(q) \in Nat
    BY <2>1, AppendProperties
  <2>3. a # <<>>
    BY <2>2
  <2> QED BY <2>1, <2>3
<1> QED BY <1>1, <1>4, <1>5, <1>6 DEF Counted

LEMMA FirstSpent ==
    ASSUME LegacyServerAssumption, NEW q \in Seq(Nat), NEW c \in Nat,
           q = <<>> \/ \E e \in Entry : Counted(e, q, c) /\ Spent(e, q) /\ e.resetAt <= c,
           NEW f \in Entry, f.resetAt = c + Window, f.count = 1
    PROVE  Spent(f, Append(q, c)) /\ (Allowance(q) => Allowance(Append(q, c)))
<1>1. Maximum \in Nat /\ Maximum >= 1 /\ Window \in Nat /\ Window >= 1
  BY Numbers
<1>2. WindowOf(f) = c
  BY <1>1 DEF WindowOf
<1>3. PICK p : p = Append(q, c)
  OBVIOUS
<1>4. SinceIn(q, c) = 0
  <2>1. \A n \in DOMAIN q : q[n] < c
    <3>1. CASE q = <<>>
      BY <3>1
    <3>2. CASE q # <<>>
      <4>1. PICK e \in Entry : Counted(e, q, c) /\ e.resetAt <= c
        BY <3>2
      <4>2. e.resetAt \in Nat /\ \A n \in DOMAIN q : q[n] \in Nat
        BY DEF Entry
      <4> QED BY <4>1, <4>2 DEF Counted
    <3> QED BY <3>1, <3>2
  <2> QED BY <2>1, NoneCounted
<1>5. ASSUME NEW time \in Nat, time + Window > c PROVE BetweenIn(q, time, c) < Maximum
  <2>1. CASE q = <<>>
    <3>1. {n \in DOMAIN q : q[n] >= time /\ q[n] < c} = {}
      BY <2>1
    <3>2. BetweenIn(q, time, c) = 0
      BY <3>1, FS_EmptySet DEF BetweenIn
    <3> QED BY <1>1, <3>2
  <2>2. CASE q # <<>>
    <3>1. PICK e \in Entry : Counted(e, q, c) /\ Spent(e, q) /\ e.resetAt <= c
      BY <2>2
    <3>2. PICK o : o = WindowOf(e)
      OBVIOUS
    <3>3. o \in Nat /\ e.count \in Nat /\ o + Window = e.resetAt
      BY <3>1, <3>2, WindowOpened
    <3>4. o + 1 <= time
      BY <1>1, <1>5, <3>1, <3>3
    <3>5. BetweenIn(q, time, c) <= SinceIn(q, o + 1)
      BY <3>3, <3>4, BetweenIsSince
    <3>6. SinceIn(q, o + 1) < e.count /\ e.count <= Maximum
      BY <3>1, <3>2 DEF Spent
    <3>7. SinceIn(q, o + 1) \in Nat /\ BetweenIn(q, time, c) \in Nat
      <4>1. o + 1 \in Nat
        BY <3>3
      <4> QED BY <4>1, Counts, SinceCounts
    <3> QED BY <1>1, <3>3, <3>5, <3>6, <3>7
  <2> QED BY <2>1, <2>2
<1>6. Spent(f, p)
  <2>1. f.count = SinceIn(p, c)
    BY <1>3, <1>4, SinceOnce
  <2>2. SinceIn(p, c + 1) < f.count
    <3>1. SinceIn(p, c + 1) = SinceIn(q, c + 1) + (IF c >= c + 1 THEN 1 ELSE 0)
      BY <1>3, SinceOnce
    <3>2. SinceIn(q, c + 1) <= SinceIn(q, c) /\ SinceIn(q, c + 1) \in Nat
      <4>1. c + 1 \in Nat /\ c <= c + 1
        OBVIOUS
      <4> QED BY <4>1, LaterIsFewer, SinceCounts
    <3> QED BY <1>4, <3>1, <3>2
  <2>3. ASSUME NEW time \in Nat, time + Window > c PROVE BetweenIn(p, time, c) < Maximum
    <3>1. BetweenIn(p, time, c) = BetweenIn(q, time, c) + (IF c >= time /\ c < c THEN 1 ELSE 0)
      BY <1>3, CountedOnce
    <3>2. BetweenIn(q, time, c) \in Nat
      BY Counts
    <3> QED BY <1>5, <2>3, <3>1, <3>2
  <2> QED BY <1>1, <1>2, <2>1, <2>2, <2>3 DEF Spent
<1>7. ASSUME Allowance(q), NEW time \in Nat
      PROVE  BetweenIn(p, time, time + 1) <= Maximum /\ BetweenIn(p, time, time + Window) < 2 * Maximum
  <2>1. /\ BetweenIn(p, time, time + 1)
             = BetweenIn(q, time, time + 1) + (IF c >= time /\ c < time + 1 THEN 1 ELSE 0)
        /\ BetweenIn(p, time, time + Window)
             = BetweenIn(q, time, time + Window) + (IF c >= time /\ c < time + Window THEN 1 ELSE 0)
    BY <1>1, <1>3, CountedOnce
  <2>2. /\ BetweenIn(q, time, time + 1) \in Nat /\ BetweenIn(q, time, time + Window) \in Nat
        /\ BetweenIn(q, time, c) \in Nat /\ SinceIn(q, c) \in Nat
    <3>1. time + 1 \in Nat /\ time + Window \in Nat
      BY <1>1
    <3> QED BY <3>1, Counts, SinceCounts
  <2>3. BetweenIn(q, time, time + 1) <= Maximum /\ BetweenIn(q, time, time + Window) < 2 * Maximum
    BY <1>7 DEF Allowance
  <2>4. c >= time /\ c < time + 1 => BetweenIn(q, time, time + 1) <= SinceIn(q, c)
    <3>1. c >= time /\ c < time + 1 => c = time
      OBVIOUS
    <3> QED BY <3>1, BetweenIsSince
  <2>5. BetweenIn(q, time, time + Window) <= BetweenIn(q, time, c) + SinceIn(q, c)
    BY <1>1, InTwoParts
  <2>6. c < time + Window => BetweenIn(q, time, c) < Maximum
    BY <1>1, <1>5
  <2> QED BY <1>1, <1>4, <2>1, <2>2, <2>3, <2>4, <2>5, <2>6
<1> QED BY <1>3, <1>6, <1>7 DEF Allowance

-----------------------------------------------------------------------------
(* consume: the address's own entry f, and the others.                     *)

Others(key, new) ==
    \A j \in DOMAIN new : new[j].key # key => \E i \in DOMAIN entries : new[j] = entries[i]
Kept(key, new) ==
    \A i \in DOMAIN entries : entries[i].key # key => \E j \in DOMAIN new : new[j] = entries[i]

LEMMA ConsumedInWindow ==
    ASSUME entries \in Seq(Entry), Len(entries) <= MaximumKeys, OneEntryEach(entries),
           NEW key \in Address, NEW i \in DOMAIN entries, entries[i].key = key, Live(entries[i]),
           NEW new, new = Consumed(key)
    PROVE  /\ new \in Seq(Entry) /\ Len(new) <= MaximumKeys /\ OneEntryEach(new)
           /\ DOMAIN new = DOMAIN entries
           /\ new[i].key = key /\ new[i].count = entries[i].count + 1
           /\ new[i].resetAt = entries[i].resetAt
           /\ Others(key, new) /\ Kept(key, new)
           /\ \A j \in DOMAIN entries :
                 new[j].key = entries[j].key /\ new[j].resetAt = entries[j].resetAt
<1>1. PICK n \in Nat : n = Len(entries) /\ DOMAIN entries = 1..n
  OBVIOUS
<1>2. \A j \in 1..n : entries[j] \in Entry
  BY <1>1
<1>3. \A j \in 1..n : j \in EntryOf(key) <=> j = i
  BY <1>1 DEF EntryOf, OneEntryEach
<1>4. \E j \in EntryOf(key) : Live(entries[j])
  BY <1>1, <1>3
<1>5. new = [j \in 1..n |-> IF j \in EntryOf(key) THEN [entries[j] EXCEPT !.count = @ + 1] ELSE entries[j]]
  BY <1>1, <1>4 DEF Consumed
<1>6. \A j \in 1..n : j # i => new[j] = entries[j]
  BY <1>3, <1>5
<1>7. new[i] = [entries[i] EXCEPT !.count = @ + 1]
  BY <1>1, <1>3, <1>5
<1>8. /\ new[i] \in Entry /\ new[i].key = key /\ new[i].count = entries[i].count + 1
      /\ new[i].resetAt = entries[i].resetAt
  <2>1. PICK e : e = entries[i]
    OBVIOUS
  <2>2. PICK g : g = [e EXCEPT !.count = @ + 1]
    OBVIOUS
  <2>3. e \in [key : Address, count : Nat, resetAt : Nat]
    BY <1>1, <1>2, <2>1 DEF Entry
  <2>4. g = [key |-> e.key, count |-> e.count + 1, resetAt |-> e.resetAt] /\ e.count + 1 \in Nat
    BY <2>2, <2>3
  <2>5. g \in [key : Address, count : Nat, resetAt : Nat]
    BY <2>3, <2>4
  <2>6. new[i] = g /\ e.key = key
    BY <1>7, <2>1, <2>2
  <2> QED BY <2>1, <2>4, <2>5, <2>6 DEF Entry
<1>9. DOMAIN new = 1..n /\ \A j \in 1..n : new[j] \in Entry
  BY <1>2, <1>5, <1>6, <1>8
<1>10. new \in [1..n -> Entry]
  BY <1>5, <1>9
<1>11. new \in Seq(Entry) /\ Len(new) = n
  BY <1>10
<1>12. \A j \in 1..n : new[j].key = entries[j].key /\ new[j].resetAt = entries[j].resetAt
  BY <1>6, <1>8
<1>13. OneEntryEach(new)
  BY <1>1, <1>9, <1>12 DEF OneEntryEach
<1>14. \A j \in 1..n : entries[j].key # key => j # i
  OBVIOUS
<1>15. Others(key, new) /\ Kept(key, new)
  BY <1>1, <1>6, <1>9, <1>12, <1>14 DEF Others, Kept
<1> QED BY <1>1, <1>8, <1>9, <1>11, <1>12, <1>13, <1>15

LEMMA ConsumedAnew ==
    ASSUME LegacyServerAssumption, entries \in Seq(Entry), clock \in Nat, OneEntryEach(entries),
           NEW key \in Address, \A i \in EntryOf(key) : ~Live(entries[i]),
           NEW new, new = Consumed(key)
    PROVE  /\ new \in Seq(Entry) /\ Len(new) \in 1..MaximumKeys /\ OneEntryEach(new)
           /\ DOMAIN new = 1..Len(new)
           /\ new[Len(new)] = [key |-> key, count |-> 1, resetAt |-> clock + Window]
           /\ Others(key, new)
           /\ \A K : /\ IsFiniteSet(K) /\ key \in K /\ Cardinality(K) <= MaximumKeys
                     /\ \A i \in DOMAIN entries : entries[i].key \in K
                     => Kept(key, new)
<1> DEFINE f == [key |-> key, count |-> 1, resetAt |-> clock + Window]
<1>1. PICK d : d = Deleted(key)
  OBVIOUS
<1>2. PICK s : s = MakeRoom(d)
  OBVIOUS
<1>3. new = Append(s, f)
  BY <1>1, <1>2 DEF Consumed
<1>4. f \in Entry /\ f.key = key
  BY Numbers DEF Entry
<1> HIDE DEF f
<1>5. Part(d, entries) /\ \A j \in DOMAIN d : d[j].key # key
  BY <1>1, DeletedEntry
<1>6. Part(s, d) /\ Len(s) < MaximumKeys
  BY <1>2, <1>5, RoomIsMade DEF Part
<1>7. PICK n \in Nat : n = Len(s) /\ DOMAIN s = 1..n
  BY <1>6 DEF Part
<1>8. /\ new \in Seq(Entry) /\ Len(new) = n + 1 /\ DOMAIN new = 1..n + 1 /\ new[n + 1] = f
      /\ \A j \in 1..n : new[j] = s[j]
  BY <1>3, <1>4, <1>6, <1>7, AppendProperties DEF Part
<1>9. \A j \in 1..n : \E i \in DOMAIN entries : s[j] = entries[i]
  <2>1. \A k \in DOMAIN d : \E i \in DOMAIN entries : d[k] = entries[i]
    BY <1>5 DEF Part
  <2>2. \A j \in 1..n : \E k \in DOMAIN d : s[j] = d[k]
    BY <1>6, <1>7 DEF Part
  <2> QED BY <2>1, <2>2
<1>10. \A j \in 1..n : s[j].key # key
  BY <1>5, <1>6, <1>7 DEF Part
<1>11. \A j \in 1..n + 1 : j = n + 1 \/ j \in 1..n
  OBVIOUS
<1>12. OneEntryEach(s)
  BY <1>5, <1>6 DEF Part
<1>13. OneEntryEach(new)
  <2> SUFFICES ASSUME NEW i \in 1..n + 1, NEW j \in 1..n + 1, new[i].key = new[j].key PROVE i = j
    BY <1>8 DEF OneEntryEach
  <2>1. CASE i \in 1..n /\ j \in 1..n
    BY <1>7, <1>8, <1>12, <2>1 DEF OneEntryEach
  <2>2. CASE i = n + 1 /\ j \in 1..n
    BY <1>4, <1>8, <1>10, <2>2
  <2>3. CASE j = n + 1 /\ i \in 1..n
    BY <1>4, <1>8, <1>10, <2>3
  <2> QED BY <1>11, <2>1, <2>2, <2>3
<1>14. Others(key, new)
  BY <1>4, <1>8, <1>9, <1>11 DEF Others
<1>15. Len(new) \in 1..MaximumKeys
  BY <1>6, <1>7, <1>8, Numbers
<1>16. ASSUME NEW K, IsFiniteSet(K), key \in K, Cardinality(K) <= MaximumKeys,
              \A i \in DOMAIN entries : entries[i].key \in K
       PROVE  Kept(key, new)
  <2>1. /\ d \in Seq(Entry) /\ OneEntryEach(d)
        /\ \A j \in DOMAIN d : \E i \in DOMAIN entries : d[j] = entries[i]
    BY <1>5 DEF Part
  <2>2. IsFiniteSet(K \ {key}) /\ Cardinality(K \ {key}) = Cardinality(K) - 1 /\ Cardinality(K) \in Nat
    BY <1>16, FS_RemoveElement, FS_CardinalityType
  <2>3. \A j \in DOMAIN d : d[j].key \in K \ {key}
    BY <1>5, <1>16, <2>1
  <2>4. Len(d) <= Cardinality(K \ {key})
    <3> DEFINE L == K \ {key}
    <3>1. IsFiniteSet(L) /\ \A j \in DOMAIN d : d[j].key \in L
      BY <2>2, <2>3
    <3> HIDE DEF L
    <3>2. Len(d) <= Cardinality(L)
      BY <2>1, <3>1, EntriesWithin
    <3> QED BY <3>2 DEF L
  <2>5. Len(d) < MaximumKeys
    BY <1>16, <2>1, <2>2, <2>4, Numbers
  <2>6. s = d
    BY <1>2, <2>5 DEF MakeRoom
  <2>7. \A i \in DOMAIN entries : entries[i].key # key => \E j \in DOMAIN d : d[j] = entries[i]
    BY <1>1, DeletedEntry
  <2>8. \A j \in DOMAIN s : j \in DOMAIN new /\ new[j] = s[j]
    BY <1>7, <1>8
  <2> QED BY <2>6, <2>7, <2>8 DEF Kept
<1> HIDE DEF Others, Kept
<1> QED BY <1>8, <1>13, <1>14, <1>15, <1>16 DEF f

-----------------------------------------------------------------------------
(* The invariant of the limiter.                                           *)

ServedKeys == {key \in Address : served[key] # <<>>}
LimiterTypes ==
    /\ entries \in Seq(Entry) /\ clock \in Nat /\ served \in [Address -> Seq(Nat)]
    /\ IsFiniteSet(ServedKeys)
    /\ \A key \in Address : \A n \in DOMAIN served[key] : served[key][n] <= clock
LimiterBound ==
    /\ Len(entries) <= MaximumKeys /\ OneEntryEach(entries)
    /\ \A i \in DOMAIN entries : Counted(entries[i], served[entries[i].key], clock)
NothingForgotten ==
    /\ \A key \in ServedKeys : \E i \in DOMAIN entries : entries[i].key = key
    /\ \A i \in DOMAIN entries : Spent(entries[i], served[entries[i].key])
    /\ \A key \in Address : Allowance(served[key])
LimiterInd == LimiterTypes /\ LimiterBound /\ (Remembered => NothingForgotten)

LEMMA LimiterInit ==
    ASSUME LegacyServerAssumption, ServerInit PROVE LimiterInd
<1>1. ServedKeys = {}
  BY DEF ServerInit, ServedKeys
<1>2. LimiterTypes
  <2>1. \A key \in Address : served[key] = <<>>
    BY DEF ServerInit
  <2> QED BY <1>1, <2>1, FS_EmptySet DEF ServerInit, LimiterTypes
<1>3. DOMAIN entries = {} /\ Len(entries) = 0
  BY DEF ServerInit
<1>4. LimiterBound
  BY <1>3, Numbers DEF LimiterBound, OneEntryEach
<1>5. ASSUME NEW key \in Address PROVE Allowance(served[key])
  <2>1. served[key] = <<>>
    BY DEF ServerInit
  <2>2. \A from, to : {n \in DOMAIN served[key] : served[key][n] >= from /\ served[key][n] < to} = {}
    BY <2>1
  <2>3. \A from, to : BetweenIn(served[key], from, to) = 0
    BY <2>2, FS_EmptySet DEF BetweenIn
  <2> QED BY <2>3, Numbers DEF Allowance
<1>6. NothingForgotten
  BY <1>1, <1>3, <1>5 DEF NothingForgotten
<1> QED BY <1>2, <1>4, <1>6 DEF LimiterInd

(* The entry of an address that is admitted.                               *)
LEMMA OwnEntry ==
    ASSUME LegacyServerAssumption, LimiterInd, NEW key \in Address, Admits(key),
           NEW new, new = Consumed(key),
           NEW p, p = Append(served[key], clock)
    PROVE  /\ new \in Seq(Entry) /\ Len(new) <= MaximumKeys /\ OneEntryEach(new) /\ Others(key, new)
           /\ \E k \in DOMAIN new :
                 /\ new[k].key = key /\ Counted(new[k], p, clock)
                 /\ Remembered /\ Cardinality(ServedKeys \cup {key}) <= MaximumKeys =>
                       Spent(new[k], p) /\ Allowance(p) /\ Kept(key, new)
<1>1. /\ entries \in Seq(Entry) /\ Len(entries) <= MaximumKeys /\ OneEntryEach(entries)
      /\ clock \in Nat /\ served[key] \in Seq(Nat) /\ IsFiniteSet(ServedKeys)
      /\ \A n \in DOMAIN served[key] : served[key][n] <= clock
      /\ \A i \in DOMAIN entries : entries[i] \in Entry
  BY DEF LimiterInd, LimiterTypes, LimiterBound
<1>2. \A i \in DOMAIN entries : Counted(entries[i], served[entries[i].key], clock)
  BY DEF LimiterInd, LimiterBound
<1>3. CASE \E i \in EntryOf(key) : Live(entries[i])
  <2>1. PICK i \in DOMAIN entries : entries[i].key = key /\ Live(entries[i]) /\ entries[i].count < Maximum
    BY <1>3 DEF EntryOf, Admits
  <2>2. /\ new \in Seq(Entry) /\ Len(new) <= MaximumKeys /\ OneEntryEach(new)
        /\ DOMAIN new = DOMAIN entries
        /\ new[i].key = key /\ new[i].count = entries[i].count + 1
        /\ new[i].resetAt = entries[i].resetAt
        /\ Others(key, new) /\ Kept(key, new)
    BY <1>1, <2>1, ConsumedInWindow
  <2>3. new[i] \in Entry /\ entries[i] \in Entry /\ clock < entries[i].resetAt
    BY <1>1, <2>1, <2>2 DEF Live
  <2>4. Counted(entries[i], served[key], clock)
    BY <1>2, <2>1
  <2>5. Counted(new[i], p, clock)
    BY <1>1, <2>2, <2>3, <2>4, OneMoreCounted
  <2>6. ASSUME Remembered PROVE Spent(new[i], p) /\ Allowance(p)
    <3>1. Spent(entries[i], served[key]) /\ Allowance(served[key])
      BY <2>1, <2>6 DEF LimiterInd, NothingForgotten
    <3> QED BY <1>1, <2>1, <2>2, <2>3, <2>4, <3>1, OneMoreSpent
  <2> QED BY <2>1, <2>2, <2>5, <2>6
<1>4. CASE ~\E i \in EntryOf(key) : Live(entries[i])
  <2>1. /\ new \in Seq(Entry) /\ Len(new) \in 1..MaximumKeys /\ OneEntryEach(new)
        /\ DOMAIN new = 1..Len(new)
        /\ new[Len(new)] = [key |-> key, count |-> 1, resetAt |-> clock + Window]
        /\ Others(key, new)
        /\ \A K : /\ IsFiniteSet(K) /\ key \in K /\ Cardinality(K) <= MaximumKeys
                  /\ \A i \in DOMAIN entries : entries[i].key \in K
                  => Kept(key, new)
    BY <1>1, <1>4, ConsumedAnew
  <2>2. PICK k \in DOMAIN new : k = Len(new)
    BY <2>1
  <2>3. new[k] \in Entry /\ new[k].key = key /\ new[k].count = 1 /\ new[k].resetAt = clock + Window
    BY <2>1, <2>2
  <2>4. Counted(new[k], p, clock)
    BY <1>1, <2>3, FirstCounted
  <2>5. ASSUME Remembered PROVE Spent(new[k], p) /\ Allowance(p)
    <3>1. Allowance(served[key])
      BY <2>5 DEF LimiterInd, NothingForgotten
    <3>2. ASSUME served[key] # <<>>
          PROVE  \E e \in Entry : Counted(e, served[key], clock) /\ Spent(e, served[key]) /\ e.resetAt <= clock
      <4>1. PICK i \in DOMAIN entries : entries[i].key = key
        BY <2>5, <3>2 DEF LimiterInd, NothingForgotten, ServedKeys
      <4>2. Spent(entries[i], served[key]) /\ Counted(entries[i], served[key], clock)
        BY <1>2, <2>5, <4>1 DEF LimiterInd, NothingForgotten
      <4>3. entries[i] \in Entry /\ ~(clock < entries[i].resetAt)
        BY <1>1, <1>4, <4>1 DEF EntryOf, Live
      <4>4. entries[i].resetAt \in Nat
        BY <4>3 DEF Entry
      <4> QED BY <1>1, <4>2, <4>3, <4>4
    <3> QED BY <1>1, <2>3, <3>1, <3>2, FirstSpent
  <2>6. ASSUME Cardinality(ServedKeys \cup {key}) <= MaximumKeys PROVE Kept(key, new)
    <3>1. IsFiniteSet(ServedKeys \cup {key}) /\ key \in ServedKeys \cup {key}
      BY <1>1, FS_AddElement
    <3>2. \A i \in DOMAIN entries : entries[i].key \in ServedKeys \cup {key}
      BY <1>1, <1>2 DEF Counted, ServedKeys, Entry
    <3> QED BY <2>1, <2>6, <3>1, <3>2
  <2>7. Len(new) <= MaximumKeys
    BY <2>1
  <2> QED BY <2>1, <2>2, <2>3, <2>4, <2>5, <2>6, <2>7
<1> QED BY <1>3, <1>4

LEMMA LimiterAdmits ==
    ASSUME LegacyServerAssumption, LimiterInd, NEW key \in Address, Admits(key),
           entries' = Consumed(key),
           served' = [served EXCEPT ![key] = Append(@, clock)],
           clock' = clock
    PROVE  LimiterInd'
<1> DEFINE K == ServedKeys \cup {key}
<1>1. /\ clock \in Nat /\ served \in [Address -> Seq(Nat)] /\ IsFiniteSet(ServedKeys)
      /\ \A k \in Address : \A n \in DOMAIN served[k] : served[k][n] <= clock
  BY DEF LimiterInd, LimiterTypes
<1>2. PICK p : p = Append(served[key], clock)
  OBVIOUS
<1>3. /\ served' \in [Address -> Seq(Nat)] /\ served'[key] = p
      /\ \A k \in Address : k # key => served'[k] = served[k]
  BY <1>1, <1>2, AppendProperties
<1>4. p # <<>>
  <2>1. Len(p) = Len(served[key]) + 1 /\ Len(served[key]) \in Nat /\ Len(<<>>) = 0
    BY <1>1, <1>2, AppendProperties
  <2> QED BY <2>1
<1>5. ServedKeys' = K
  BY <1>3, <1>4 DEF ServedKeys
<1>6. IsFiniteSet(K) /\ Cardinality(K) \in Nat /\ Cardinality(ServedKeys) <= Cardinality(K)
      /\ Cardinality(ServedKeys) \in Nat
  BY <1>1, FS_AddElement, FS_Subset, FS_CardinalityType
<1>7. Remembered' => Remembered /\ Cardinality(K) <= MaximumKeys
  <2>1. Remembered <=> Cardinality(ServedKeys) <= MaximumKeys
    BY DEF Remembered, ServedKeys
  <2>2. Remembered' <=> Cardinality(ServedKeys') <= MaximumKeys
    BY DEF Remembered, ServedKeys
  <2> QED BY <1>5, <1>6, <2>1, <2>2, Numbers
<1>8. PICK new : new = Consumed(key)
  OBVIOUS
<1>9. entries' = new
  BY <1>8
<1>10. /\ new \in Seq(Entry) /\ Len(new) <= MaximumKeys /\ OneEntryEach(new) /\ Others(key, new)
       /\ \E k \in DOMAIN new :
             /\ new[k].key = key /\ Counted(new[k], p, clock)
             /\ Remembered /\ Cardinality(K) <= MaximumKeys =>
                   Spent(new[k], p) /\ Allowance(p) /\ Kept(key, new)
  BY <1>2, <1>8, OwnEntry
<1>11. PICK k \in DOMAIN new :
             /\ new[k].key = key /\ Counted(new[k], p, clock)
             /\ Remembered /\ Cardinality(K) <= MaximumKeys =>
                   Spent(new[k], p) /\ Allowance(p) /\ Kept(key, new)
  BY <1>10
<1>12. ASSUME NEW j \in DOMAIN new
       PROVE  new[j].key \in Address /\ (j = k \/ new[j].key # key)
  <2>1. new[j] \in Entry
    BY <1>10
  <2>2. new[j].key = new[k].key => j = k
    BY <1>10, <1>11 DEF OneEntryEach
  <2> QED BY <1>11, <2>1, <2>2 DEF Entry
<1>13. ASSUME NEW j \in DOMAIN new, j # k
       PROVE  \E i \in DOMAIN entries : new[j] = entries[i] /\ served'[new[j].key] = served[entries[i].key]
  BY <1>3, <1>10, <1>12, <1>13 DEF Others
<1>14. LimiterTypes'
  <2>1. ASSUME NEW a \in Address, NEW n \in DOMAIN served'[a] PROVE served'[a][n] <= clock
    <3>1. CASE a # key
      BY <1>1, <1>3, <3>1
    <3>2. CASE a = key
      <4>1. p[n] = clock \/ (n \in DOMAIN served[key] /\ p[n] = served[key][n])
        BY <1>1, <1>2, <1>3, <3>2, AppendProperties
      <4> QED BY <1>1, <1>3, <3>2, <4>1
    <3> QED BY <3>1, <3>2
  <2> QED BY <1>1, <1>3, <1>5, <1>6, <1>9, <1>10, <2>1 DEF LimiterTypes
<1>15. LimiterBound'
  <2>1. ASSUME NEW j \in DOMAIN new PROVE Counted(new[j], served'[new[j].key], clock)
    <3>1. CASE j = k
      BY <1>3, <1>11, <3>1
    <3>2. CASE j # k
      BY <1>13, <3>2 DEF LimiterInd, LimiterBound
    <3> QED BY <3>1, <3>2
  <2> QED BY <1>9, <1>10, <2>1 DEF LimiterBound, Counted, WindowOf
<1>16. ASSUME Remembered' PROVE NothingForgotten'
  <2>1. NothingForgotten /\ Spent(new[k], p) /\ Allowance(p) /\ Kept(key, new)
    BY <1>7, <1>11, <1>16 DEF LimiterInd
  <2>2. ASSUME NEW a \in K PROVE \E j \in DOMAIN new : new[j].key = a
    <3>1. CASE a = key
      BY <1>11, <3>1
    <3>2. CASE a # key
      BY <2>1, <3>2 DEF NothingForgotten, Kept
    <3> QED BY <3>1, <3>2
  <2>3. ASSUME NEW j \in DOMAIN new PROVE Spent(new[j], served'[new[j].key])
    <3>1. CASE j = k
      BY <1>3, <1>11, <2>1, <3>1
    <3>2. CASE j # k
      BY <1>13, <2>1, <3>2 DEF NothingForgotten
    <3> QED BY <3>1, <3>2
  <2>4. ASSUME NEW a \in Address PROVE Allowance(served'[a])
    BY <1>3, <2>1 DEF NothingForgotten
  <2>5. (\A a \in ServedKeys : \E j \in DOMAIN entries : entries[j].key = a)'
    BY <1>5, <1>9, <2>2
  <2>6. (\A j \in DOMAIN entries : Spent(entries[j], served[entries[j].key]))'
    <3>1. \A j \in DOMAIN entries' : Spent(entries'[j], served'[entries'[j].key])
      BY <1>9, <2>3
    <3> QED BY <3>1 DEF Spent, WindowOf, SinceIn, BetweenIn
  <2>7. (\A a \in Address : Allowance(served[a]))'
    BY <2>4 DEF Allowance, BetweenIn
  <2> QED BY <2>5, <2>6, <2>7 DEF NothingForgotten
<1> QED BY <1>14, <1>15, <1>16 DEF LimiterInd

LEMMA LimiterTicks ==
    ASSUME LegacyServerAssumption, LimiterInd, clock' = clock + 1, UNCHANGED <<entries, served>>
    PROVE  LimiterInd'
<1>1. LimiterTypes'
  <2>1. \A key \in Address : \A n \in DOMAIN served[key] : served[key][n] <= clock + 1
    BY DEF LimiterInd, LimiterTypes
  <2>2. ServedKeys' = ServedKeys
    BY DEF ServedKeys
  <2> QED BY <2>1, <2>2 DEF LimiterInd, LimiterTypes
<1>2. LimiterBound'
  <2>1. ASSUME NEW i \in DOMAIN entries PROVE Counted(entries[i], served[entries[i].key], clock + 1)
    <3>1. entries[i] \in Entry /\ clock \in Nat
      BY DEF LimiterInd, LimiterTypes
    <3> QED BY <3>1, CountedLater DEF LimiterInd, LimiterBound
  <2> QED BY <2>1 DEF LimiterInd, LimiterBound, Counted, WindowOf, SinceIn
<1>3. (Remembered => NothingForgotten)'
  <2>1. Remembered' <=> Remembered
    BY DEF Remembered
  <2>2. ServedKeys' = ServedKeys
    BY DEF ServedKeys
  <2>3. NothingForgotten' <=> NothingForgotten
    BY <2>2 DEF NothingForgotten, Spent, WindowOf, Allowance, SinceIn, BetweenIn
  <2> QED BY <2>1, <2>3 DEF LimiterInd
<1> QED BY <1>1, <1>2, <1>3 DEF LimiterInd

LEMMA LimiterNext ==
    ASSUME LegacyServerAssumption, LimiterInd, [ServerNext]_serverVars PROVE LimiterInd'
<1>1. CASE UNCHANGED <<entries, clock, served>>
  <2>1. ServedKeys' = ServedKeys
    BY <1>1 DEF ServedKeys
  <2>2. LimiterTypes' <=> LimiterTypes
    BY <1>1, <2>1 DEF LimiterTypes
  <2>3. LimiterBound' <=> LimiterBound
    BY <1>1 DEF LimiterBound, Counted, WindowOf, SinceIn
  <2>4. (Remembered => NothingForgotten)' <=> (Remembered => NothingForgotten)
    BY <1>1, <2>1 DEF Remembered, NothingForgotten, Spent, WindowOf, Allowance, SinceIn, BetweenIn
  <2> QED BY <2>2, <2>3, <2>4 DEF LimiterInd
<1>2. CASE Tick
  BY <1>2, LimiterTicks DEF Tick
<1>3. ASSUME NEW r \in Request, NEW route, NEW key \in Address, NEW stage, Admitted(r, route, key, stage)
      PROVE  LimiterInd'
  BY <1>3, LimiterAdmits DEF Admitted
<1>4. CASE ServerNext
  <2>1. ASSUME NEW r \in Request,
               \/ \E route \in Route : \/ \E fault \in DOMAIN Refusal : Refused(r, route, fault)
                                       \/ \E key \in Address : Limited(r, route, key)
               \/ Ready(r)
               \/ \E content \in {"danger", "ungathered", "plain"} : BodyRead(r, content)
               \/ \E status \in {400, 413} : BodyRefused(r, status)
               \/ Valid(r) \/ Invalid(r) \/ \E status \in {502, 503, 504} : ProviderFails(r, status)
               \/ Recorded(r) \/ TransportAnswers(r) \/ TransportThrows(r) \/ ResponseClosed(r)
               \/ \E cut \in {"timeout", "client"} : Abort(r, cut)
        PROVE  UNCHANGED <<entries, clock, served>>
    BY <2>1, ZenonT(60) DEF Refused, Limited, Ready, BodyRead, BodyRefused, Valid, Invalid, ProviderFails,
                Recorded, TransportAnswers, TransportThrows, ResponseClosed, Abort
  <2> QED BY <1>1, <1>2, <1>3, <1>4, <2>1 DEF ServerNext
<1> QED BY <1>1, <1>4 DEF serverVars

(* The invariant of the limiter: no address has two entries, no entry      *)
(* counts more than its window admitted, and while the addresses fit the   *)
(* limiter's Map nothing admitted is forgotten.                            *)
THEOREM LimiterInvariant ==
    ASSUME LegacyServerAssumption PROVE ServerSpec => []LimiterInd
<1>1. ServerInit => LimiterInd
  BY LimiterInit
<1>2. LimiterInd /\ [ServerNext]_serverVars => LimiterInd'
  BY LimiterNext
<1> QED BY <1>1, <1>2, PTL DEF ServerSpec

LEMMA LimiterIsFair ==
    ASSUME LegacyServerAssumption, LimiterInd PROVE FairLimiter
<1>1. clock \in Nat /\ \A time \in 0..clock : time \in Nat
  BY DEF LimiterInd, LimiterTypes
<1>2. Len(entries) <= MaximumKeys
  BY DEF LimiterInd, LimiterBound
<1>3. \A i \in DOMAIN entries : entries[i].count <= Since(entries[i].key, entries[i].resetAt - Window)
  BY DEF LimiterInd, LimiterBound, Counted, WindowOf, SinceIn, Since
<1>4. ASSUME Remembered, NEW key \in Address, NEW time \in 0..clock
      PROVE  Between(key, time, time + 1) <= Maximum /\ Between(key, time, time + Window) < 2 * Maximum
  <2>1. Allowance(served[key])
    BY <1>4 DEF LimiterInd, NothingForgotten
  <2> QED BY <1>1, <2>1 DEF Allowance, BetweenIn, Between
<1> QED BY <1>2, <1>3, <1>4 DEF FairLimiter

(* For any requests, addresses, allowance, window and bound of the Map:    *)
(* what an entry counts was admitted in its window, the Map keeps its      *)
(* bound, and addresses that fit it are held to their allowance            *)
(* (createRateLimiter, server/rate-limit.ts).                              *)
THEOREM AllowanceIsKept ==
    ASSUME LegacyServerAssumption PROVE ServerSpec => []FairLimiter
BY LimiterInvariant, LimiterIsFair, PTL

-----------------------------------------------------------------------------
(* What the limiter forgets.  A window is opened at the end of the Map and *)
(* a request in it leaves it at its place, so that the Map is in the order *)
(* in which the windows end.                                               *)

OrderInd == LimiterInd /\ InOrder(entries)

LEMMA EntriesRest == ASSUME entries' = entries PROVE ForgetsOldest
<1>1. \A key \in Address : EntryOf(key)' = EntryOf(key)
  BY DEF EntryOf
<1> QED BY <1>1 DEF ForgetsOldest

LEMMA AdmittedInOrder ==
    ASSUME LegacyServerAssumption, OrderInd, NEW key \in Address, entries' = Consumed(key)
    PROVE  InOrder(entries') /\ ForgetsOldest
<1>1. /\ entries \in Seq(Entry) /\ Len(entries) <= MaximumKeys /\ OneEntryEach(entries)
      /\ InOrder(entries) /\ clock \in Nat
      /\ \A i \in DOMAIN entries : entries[i] \in Entry
  BY DEF OrderInd, LimiterInd, LimiterTypes, LimiterBound
<1>2. PICK new : new = Consumed(key) /\ new = entries'
  OBVIOUS
<1>3. \A k \in Address : \A j \in DOMAIN new : new[j].key = k => EntryOf(k)' # {}
  BY <1>2 DEF EntryOf
<1>4. CASE \E i \in EntryOf(key) : Live(entries[i])
  <2>1. PICK i \in DOMAIN entries : entries[i].key = key /\ Live(entries[i])
    BY <1>4 DEF EntryOf
  <2>2. /\ DOMAIN new = DOMAIN entries
        /\ \A j \in DOMAIN entries :
              new[j].key = entries[j].key /\ new[j].resetAt = entries[j].resetAt
    BY <1>1, <1>2, <2>1, ConsumedInWindow
  <2>3. InOrder(new)
    BY <1>1, <2>2 DEF InOrder
  <2>4. \A k \in Address : EntryOf(k) # {} => EntryOf(k)' # {}
    BY <1>3, <2>2 DEF EntryOf
  <2> QED BY <1>2, <2>3, <2>4 DEF ForgetsOldest
<1>5. CASE ~\E i \in EntryOf(key) : Live(entries[i])
  <2> DEFINE f == [key |-> key, count |-> 1, resetAt |-> clock + Window]
  <2>1. PICK d : d = Deleted(key)
    OBVIOUS
  <2>2. PICK s : s = MakeRoom(d)
    OBVIOUS
  <2>3. new = Append(s, f) /\ f \in Entry /\ f.key = key /\ f.resetAt = clock + Window
    BY <1>1, <1>2, <1>5, <2>1, <2>2, Numbers DEF Consumed, Entry
  <2> HIDE DEF f
  <2>4. /\ Part(d, entries) /\ InOrder(d) /\ (d = entries \/ Len(d) < Len(entries))
        /\ \A i \in DOMAIN entries : entries[i].key # key => \E j \in DOMAIN d : d[j] = entries[i]
    BY <1>1, <2>1, DeletedEntry
  <2>5. d \in Seq(Entry) /\ Len(d) \in Nat /\ Len(entries) \in Nat /\ Len(d) <= MaximumKeys
        /\ MaximumKeys \in Nat
    BY <1>1, <2>4, Numbers DEF Part
  <2>6. Part(s, d)
    BY <2>2, <2>5, RoomIsMade
  <2>7. /\ InOrder(s)
        /\ \/ \A i \in DOMAIN d : Live(d[i]) => \E j \in DOMAIN s : s[j] = d[i]
           \/ /\ Len(d) = MaximumKeys
              /\ \A i \in DOMAIN d : Live(d[i]) /\ (i # 1 => \E j \in DOMAIN s : s[j] = d[i])
    BY <2>2, <2>4, <2>5, RoomForOne
  <2>8. PICK n \in Nat : n = Len(s) /\ DOMAIN s = 1..n
    BY <2>6 DEF Part
  <2>9. /\ DOMAIN new = 1..n + 1 /\ new[n + 1] = f
        /\ \A j \in 1..n : new[j] = s[j]
    BY <2>3, <2>6, <2>8, AppendProperties DEF Part
  <2>10. \A j \in 1..n : s[j] \in Entry /\ s[j].resetAt <= f.resetAt
    <3> SUFFICES ASSUME NEW j \in 1..n PROVE s[j] \in Entry /\ s[j].resetAt <= f.resetAt
      OBVIOUS
    <3>1. PICK k \in DOMAIN d : s[j] = d[k]
      BY <2>6, <2>8 DEF Part
    <3>2. PICK i \in DOMAIN entries : s[j] = entries[i]
      BY <2>4, <3>1 DEF Part
    <3>3. Counted(entries[i], served[entries[i].key], clock)
      BY DEF OrderInd, LimiterInd, LimiterBound
    <3>4. entries[i] \in Entry /\ entries[i].resetAt - Window <= clock /\ entries[i].resetAt \in Nat
      BY <1>1, <3>3 DEF Counted, WindowOf, Entry
    <3> QED BY <1>1, <2>3, <3>2, <3>4, Numbers
  <2>11. InOrder(new)
    <3> SUFFICES ASSUME NEW i \in 1..n + 1, NEW j \in 1..n + 1, i <= j
                 PROVE  new[i].resetAt <= new[j].resetAt
      BY <2>9 DEF InOrder
    <3>1. CASE j \in 1..n
      <4>1. i \in 1..n
        BY <3>1
      <4> QED BY <2>7, <2>8, <2>9, <3>1, <4>1 DEF InOrder
    <3>2. CASE j = n + 1 /\ i \in 1..n
      BY <2>9, <2>10, <3>2
    <3>3. CASE j = n + 1 /\ i = n + 1
      <4>1. new[i] = f /\ new[j] = f /\ f.resetAt \in Nat
        BY <2>3, <2>9, <3>3 DEF Entry
      <4> QED BY <4>1
    <3>4. j = n + 1 \/ j \in 1..n
      OBVIOUS
    <3>5. i = n + 1 \/ i \in 1..n
      OBVIOUS
    <3>6. i = n + 1 => j = n + 1
      OBVIOUS
    <3> QED BY <3>1, <3>2, <3>3, <3>4, <3>5, <3>6
  <2>12. \A j \in 1..n : \A k \in Address : s[j].key = k => EntryOf(k)' # {}
    <3> SUFFICES ASSUME NEW j \in 1..n, NEW k \in Address, s[j].key = k PROVE EntryOf(k)' # {}
      OBVIOUS
    <3>1. j \in DOMAIN new /\ new[j].key = k
      BY <2>9
    <3> QED BY <1>3, <3>1
  <2>13. EntryOf(key)' # {}
    <3>1. n + 1 \in DOMAIN new /\ new[n + 1].key = key
      BY <2>3, <2>9
    <3> QED BY <1>3, <3>1
  <2>14. ForgetsOldest
    <3> SUFFICES ASSUME NEW gone \in Address, NEW i \in DOMAIN entries,
                        i \in EntryOf(gone), Live(entries[i]), EntryOf(gone)' = {}
                 PROVE  /\ Len(entries) = MaximumKeys
                        /\ \A other \in Address \ {gone}, j \in DOMAIN entries : j \in EntryOf(other) =>
                              /\ Live(entries[j]) /\ entries[i].resetAt <= entries[j].resetAt
                              /\ EntryOf(other)' # {}
      BY DEF ForgetsOldest
    <3>1. gone # key /\ entries[i].key = gone
      BY <2>13 DEF EntryOf
    <3>2. PICK k \in DOMAIN d : d[k] = entries[i]
      BY <2>4, <3>1
    <3>3. ~\E j \in DOMAIN s : s[j] = d[k]
      BY <2>8, <2>12, <3>1, <3>2
    <3>4. /\ Len(d) = MaximumKeys /\ k = 1
          /\ \A j \in DOMAIN d : Live(d[j]) /\ (j # 1 => \E l \in DOMAIN s : s[l] = d[j])
      BY <2>7, <3>2, <3>3
    <3>5. d = entries /\ Len(entries) = MaximumKeys
      BY <1>1, <2>4, <2>5, <3>4
    <3>6. i = 1
      BY <1>1, <3>2, <3>4, <3>5 DEF OneEntryEach
    <3>7. ASSUME NEW other \in Address \ {gone}, NEW j \in DOMAIN entries, j \in EntryOf(other)
          PROVE  /\ Live(entries[j]) /\ entries[i].resetAt <= entries[j].resetAt
                 /\ EntryOf(other)' # {}
      <4>1. entries[j].key = other /\ j # 1
        BY <3>1, <3>6, <3>7 DEF EntryOf
      <4>2. i <= j
        BY <1>1, <3>6
      <4>3. PICK l \in DOMAIN s : s[l] = entries[j]
        BY <3>4, <3>5, <4>1
      <4> QED BY <1>1, <2>8, <2>12, <3>4, <3>5, <4>1, <4>2, <4>3 DEF InOrder
    <3> QED BY <3>5, <3>7
  <2> QED BY <1>2, <2>11, <2>14
<1> QED BY <1>4, <1>5

LEMMA OrderNext ==
    ASSUME LegacyServerAssumption, OrderInd, [ServerNext]_serverVars
    PROVE  OrderInd' /\ ForgetsOldest
<1>1. LimiterInd'
  BY LimiterNext DEF OrderInd
<1>2. CASE entries' = entries
  BY <1>1, <1>2, EntriesRest DEF OrderInd
<1>3. ASSUME NEW r \in Request, NEW route, NEW key \in Address, NEW stage, Admitted(r, route, key, stage)
      PROVE  OrderInd' /\ ForgetsOldest
  BY <1>1, <1>3, AdmittedInOrder DEF Admitted, OrderInd
<1>4. CASE ServerNext
  <2>1. ASSUME NEW r \in Request,
               \/ \E route \in Route : \/ \E fault \in DOMAIN Refusal : Refused(r, route, fault)
                                       \/ \E key \in Address : Limited(r, route, key)
               \/ Ready(r)
               \/ \E content \in {"danger", "ungathered", "plain"} : BodyRead(r, content)
               \/ \E status \in {400, 413} : BodyRefused(r, status)
               \/ Valid(r) \/ Invalid(r) \/ \E status \in {502, 503, 504} : ProviderFails(r, status)
               \/ Recorded(r) \/ TransportAnswers(r) \/ TransportThrows(r) \/ ResponseClosed(r)
               \/ \E cut \in {"timeout", "client"} : Abort(r, cut)
        PROVE  entries' = entries
    BY <2>1, ZenonT(60) DEF Refused, Limited, Ready, BodyRead, BodyRefused, Valid, Invalid, ProviderFails,
                Recorded, TransportAnswers, TransportThrows, ResponseClosed, Abort
  <2>2. Tick => entries' = entries
    BY DEF Tick
  <2> QED BY <1>2, <1>3, <1>4, <2>1, <2>2 DEF ServerNext
<1>5. CASE UNCHANGED serverVars
  BY <1>2, <1>5 DEF serverVars
<1> QED BY <1>4, <1>5

(* For any requests, addresses, window and bound of the Map: a window that *)
(* still counts is forgotten only by a full limiter, when every other one  *)
(* it remembers counts too and ends no earlier, and no second one goes     *)
(* with it (makeRoom, server/rate-limit.ts).                               *)
THEOREM OldestIsForgotten ==
    ASSUME LegacyServerAssumption PROVE ServerSpec => OldestForgotten
<1>1. ServerInit => OrderInd
  <2>1. ServerInit => DOMAIN entries = {}
    BY DEF ServerInit
  <2> QED BY <2>1, LimiterInit DEF OrderInd, InOrder
<1>2. OrderInd /\ [ServerNext]_serverVars => OrderInd'
  BY OrderNext
<1>3. OrderInd /\ [ServerNext]_serverVars => [ForgetsOldest]_serverVars
  BY OrderNext
<1> QED BY <1>1, <1>2, <1>3, PTL DEF ServerSpec, OldestForgotten

-----------------------------------------------------------------------------
(* The handling of a request.                                              *)

Event == [outcome : {"valid", "invalid", "not_checked"}, success : BOOLEAN]
Handling == [stage : {"idle", "body", "handling", "provider", "recording", "closing", "done"},
             route : Route \cup {"none"}, cut : {"no", "timeout", "client"}, answer : Nat, to : Nat,
             attempts : 0..2, valid : BOOLEAN, log : Seq(Event), closes : 0..1]

(* An operation is recorded when its outcome is known, with the answer it  *)
(* will have; until then nothing was sent.  MCP executes no operation.     *)
HandledWell(q) ==
    /\ q \in Handling /\ Len(q.log) <= 1
    /\ q.stage \in {"body", "handling", "closing"} => q.attempts = 0 /\ q.log = <<>>
    /\ q.stage \in {"body", "handling", "provider", "recording"} => q.answer = 0
    /\ q.stage \in {"handling", "closing"} => q.route = "mcp"
    /\ q.stage = "idle" => q = Idle
    /\ q.stage = "provider" => q.log = <<>> /\ q.attempts > 0
    /\ q.stage = "recording" =>
          /\ Len(q.log) = 1 /\ q.log[1].success = (q.to = 200)
          /\ q.to = 200 /\ q.attempts > 0 => q.valid
    /\ q.stage = "done" =>
          /\ q.attempts > 0 => Len(q.log) = 1
          /\ Len(q.log) = 1 /\ q.answer # 0 => q.log[1].success = (q.answer = 200)
          /\ q.answer = 200 /\ q.attempts > 0 => q.valid
          /\ q.cut = "client" /\ q.route # "mcp" => q.answer = 0
RequestsInd == DOMAIN req = Request /\ \A r \in Request : HandledWell(req[r])

LEMMA IdleHandled == HandledWell(Idle)
<1>1. Idle \in Handling /\ Len(Idle.log) = 0 /\ Idle.stage = "idle"
  BY DEF Idle, Handling
<1> QED BY <1>1 DEF HandledWell

(* A request that has just come.                                           *)
LEMMA Begun ==
    ASSUME NEW route \in Route, NEW stage \in {"body", "handling"}, stage = "handling" => route = "mcp"
    PROVE  HandledWell([Idle EXCEPT !.route = route, !.stage = stage])
<1>1. PICK i \in Handling : i = Idle /\ i.log = <<>> /\ i.attempts = 0 /\ i.answer = 0
  BY IdleHandled DEF HandledWell, Idle
<1>2. PICK q : q = [i EXCEPT !.route = route, !.stage = stage]
  OBVIOUS
<1>3. /\ q \in Handling /\ q.log = <<>> /\ q.attempts = 0 /\ q.answer = 0
      /\ q.stage = stage /\ q.route = route
  BY <1>1, <1>2 DEF Handling
<1>4. Len(q.log) = 0
  BY <1>3
<1>5. HandledWell(q)
  BY <1>3, <1>4 DEF HandledWell
<1> QED BY <1>1, <1>2, <1>5

LEMMA RefusedAtOnce ==
    ASSUME NEW route \in Route, NEW status \in Nat
    PROVE  HandledWell(Sent([Idle EXCEPT !.route = route], status))
<1>1. PICK i \in Handling : i = Idle /\ i.log = <<>> /\ i.attempts = 0 /\ i.cut = "no"
  BY IdleHandled DEF HandledWell, Idle
<1>2. PICK p : p = [i EXCEPT !.route = route]
  OBVIOUS
<1>3. p \in Handling /\ p.log = <<>> /\ p.attempts = 0 /\ p.cut = "no"
  BY <1>1, <1>2 DEF Handling
<1>4. PICK q : q = Sent(p, status)
  OBVIOUS
<1>5. q = [p EXCEPT !.stage = "done", !.answer = status]
  BY <1>3, <1>4 DEF Sent
<1>6. q \in Handling /\ q.stage = "done" /\ q.log = <<>> /\ q.attempts = 0 /\ q.cut = "no"
  BY <1>3, <1>5 DEF Handling
<1>7. Len(q.log) = 0
  BY <1>6
<1>8. HandledWell(q)
  BY <1>6, <1>7 DEF HandledWell
<1> QED BY <1>1, <1>2, <1>4, <1>8

(* A body that ends in an answer, and an outcome that was recorded.        *)
LEMMA BodyAnswered ==
    ASSUME NEW q, HandledWell(q), q.stage = "body", NEW status \in Nat,
           NEW cut \in {"no", "timeout", "client"}, NEW p, p = [q EXCEPT !.cut = cut]
    PROVE  HandledWell(Sent(p, status))
<1>1. q \in Handling /\ q.attempts = 0 /\ q.log = <<>>
  BY DEF HandledWell
<1>3. p \in Handling /\ p.log = <<>> /\ p.attempts = 0 /\ p.cut = cut
  BY <1>1 DEF Handling
<1>4. PICK s : s = Sent(p, status)
  OBVIOUS
<1>5. PICK answer \in Nat : answer = IF cut = "client" THEN 0 ELSE status
  OBVIOUS
<1>6. s = [p EXCEPT !.stage = "done", !.answer = answer]
  BY <1>3, <1>4, <1>5 DEF Sent
<1>7. s \in Handling /\ s.stage = "done" /\ s.log = <<>> /\ s.attempts = 0 /\ s.cut = cut /\ s.answer = answer
  BY <1>3, <1>6 DEF Handling
<1>8. Len(s.log) = 0
  BY <1>7
<1>9. HandledWell(s)
  BY <1>5, <1>7, <1>8 DEF HandledWell
<1> QED BY <1>4, <1>9

LEMMA OutcomeRecorded ==
    ASSUME NEW q \in Handling, q.log = <<>>, q.answer = 0,
           NEW outcome \in {"valid", "invalid", "not_checked"}, NEW status \in Nat,
           status = 200 /\ q.attempts > 0 => q.valid
    PROVE  HandledWell(Recording(q, outcome, status))
<1>1. PICK s : s = Recording(q, outcome, status)
  OBVIOUS
<1>2. PICK e \in Event : e = [outcome |-> outcome, success |-> status = 200]
  <2>1. (status = 200) \in BOOLEAN
    OBVIOUS
  <2> QED BY <2>1, ZenonT(30) DEF Event
<1>3. s = [q EXCEPT !.stage = "recording", !.to = status, !.log = Append(q.log, e)]
  BY <1>1, <1>2 DEF Recording
<1>4. PICK l : l = Append(q.log, e)
  OBVIOUS
<1>5. l \in Seq(Event) /\ Len(l) = 1 /\ l[1] = e
  <2>1. q.log \in Seq(Event) /\ Len(q.log) = 0
    BY DEF Handling
  <2> QED BY <1>2, <1>4, <2>1, AppendProperties
<1>6. /\ s \in Handling /\ s.stage = "recording" /\ s.to = status /\ s.log = l
      /\ s.answer = 0 /\ s.attempts = q.attempts /\ s.valid = q.valid
  BY <1>3, <1>4, <1>5 DEF Handling
<1>7. l[1].success = (status = 200)
  BY <1>2, <1>5
<1>8. HandledWell(s)
  <2>0. s \in Handling /\ Len(s.log) = 1
    BY <1>5, <1>6, Zenon
  <2>1. s \in Handling /\ Len(s.log) = 1 /\ Len(s.log) <= 1
    BY <2>0
  <2>2. s.log[1].success = (s.to = 200)
    BY <1>6, <1>7, Zenon
  <2>3. s.to = 200 /\ s.attempts > 0 => s.valid
    BY <1>6
  <2>4. s.stage = "recording" /\ s.answer = 0
    BY <1>6
  <2> QED BY <2>1, <2>2, <2>3, <2>4, Zenon DEF HandledWell
<1> QED BY <1>1, <1>8

LEMMA OutcomeAnswered ==
    ASSUME NEW q, HandledWell(q), q.stage = "recording"
    PROVE  HandledWell(Sent(q, q.to))
<1>1. PICK s : s = Sent(q, q.to)
  OBVIOUS
<1>2. /\ q \in Handling /\ Len(q.log) = 1 /\ q.log[1].success = (q.to = 200)
      /\ q.to = 200 /\ q.attempts > 0 => q.valid
  BY DEF HandledWell
<1>3. s = [q EXCEPT !.stage = "done", !.answer = IF q.cut = "client" THEN 0 ELSE q.to]
  BY <1>1 DEF Sent
<1>6. PICK a \in Nat : a = IF q.cut = "client" THEN 0 ELSE q.to
  <2>1. q.to \in Nat
    BY <1>2 DEF Handling
  <2> QED BY <2>1
<1>7. s = [q EXCEPT !.stage = "done", !.answer = a]
  BY <1>3, <1>6
<1>0. q \in Handling
  BY <1>2
<1>8. s \in Handling
  BY <1>0, <1>7 DEF Handling
<1>9. /\ s.stage = "done" /\ s.log = q.log /\ s.attempts = q.attempts /\ s.valid = q.valid
      /\ s.cut = q.cut /\ s.answer = a
  BY <1>0, <1>7 DEF Handling
<1>4. /\ s.stage = "done" /\ s.log = q.log /\ s.attempts = q.attempts /\ s.valid = q.valid
      /\ s.cut = q.cut /\ s.answer = IF q.cut = "client" THEN 0 ELSE q.to
  BY <1>6, <1>9
<1>5. HandledWell(s)
  <2>0. s \in Handling /\ Len(s.log) = 1
    BY <1>2, <1>4, <1>8, Zenon
  <2>1. s \in Handling /\ Len(s.log) = 1 /\ Len(s.log) <= 1
    BY <2>0
  <2>2. ASSUME s.answer # 0 PROVE s.answer = q.to
    BY <1>4, <2>2
  <2>3. ASSUME s.answer # 0 PROVE s.log[1].success = (s.answer = 200)
    BY <1>2, <1>4, <2>2, <2>3, Zenon
  <2>4. ASSUME s.answer = 200, s.attempts > 0 PROVE s.valid
    BY <1>2, <1>4, <2>2, <2>4
  <2>5. s.stage = "done" /\ (s.cut = "client" => s.answer = 0)
    BY <1>4
  <2> QED BY <2>1, <2>3, <2>4, <2>5, Zenon DEF HandledWell
<1> QED BY <1>1, <1>5

(* The first and the repeated attempt.                                     *)
LEMMA Attempted ==
    ASSUME NEW s \in Handling, s.stage = "provider", s.log = <<>>, s.attempts > 0, s.answer = 0
    PROVE  HandledWell(s)
<1>1. Len(s.log) = 0
  OBVIOUS
<1> QED BY <1>1 DEF HandledWell

LEMMA RequestBecomes ==
    ASSUME RequestsInd, NEW r \in Request, NEW q, Becomes(r, q), HandledWell(q)
    PROVE  RequestsInd'
BY DEF RequestsInd, Becomes

(* The MCP transport's requests.                                           *)
LEMMA TransportHandled ==
    ASSUME NEW s \in Handling, s.route = "mcp", s.attempts = 0, s.log = <<>>,
           s.stage \in {"handling", "closing", "done"}, s.stage = "handling" => s.answer = 0
    PROVE  HandledWell(s)
<1>1. Len(s.log) = 0
  OBVIOUS
<1> QED BY <1>1 DEF HandledWell

LEMMA BodyReadHandled ==
    ASSUME RequestsInd, NEW r \in Request, NEW content, BodyRead(r, content) PROVE RequestsInd'
<1>1. PICK q : q = req[r]
  OBVIOUS
<1>2. q \in Handling /\ HandledWell(q) /\ q.stage = "body" /\ q.attempts = 0 /\ q.log = <<>> /\ q.answer = 0
  BY <1>1 DEF RequestsInd, BodyRead, HandledWell
<1>3. CASE q.route = "mcp"
  <2>1. PICK s : s = [q EXCEPT !.stage = "handling"]
    OBVIOUS
  <2>2. Becomes(r, s)
    BY <1>1, <1>3, <2>1 DEF BodyRead, Goes
  <2>3. /\ s \in Handling /\ s.route = "mcp" /\ s.attempts = 0 /\ s.log = <<>>
        /\ s.stage = "handling" /\ s.answer = 0
    BY <1>2, <1>3, <2>1 DEF Handling
  <2> QED BY <2>2, <2>3, TransportHandled, RequestBecomes
<1>4. CASE q.route # "mcp"
  <2>1. PICK s : Becomes(r, s) /\ (s = RealtimeCredential(q) \/ s = Execute(q, content))
    BY <1>1, <1>4 DEF BodyRead
  <2>2. HandledWell(Fails(q, 503)) /\ HandledWell(Recording(q, "valid", 200))
    BY <1>2, OutcomeRecorded DEF Fails
  <2>3. HandledWell([q EXCEPT !.stage = "provider", !.attempts = 1])
    <3>1. PICK p : p = [q EXCEPT !.stage = "provider", !.attempts = 1]
      OBVIOUS
    <3>2. p \in Handling /\ p.stage = "provider" /\ p.log = <<>> /\ p.attempts = 1 /\ p.answer = 0
      <4>1. PICK n \in 0..2 : n = 1
        OBVIOUS
      <4>2. p = [q EXCEPT !.stage = "provider", !.attempts = n]
        BY <3>1, <4>1
      <4>3. p \in Handling /\ p.stage = "provider" /\ p.log = <<>> /\ p.attempts = n /\ p.answer = 0
        BY <1>2, <4>2 DEF Handling
      <4> QED BY <4>1, <4>3
    <3>3. HandledWell(p)
      BY <3>2, Attempted
    <3> QED BY <3>1, <3>3
  <2>4. HandledWell(Sent(q, 502))
    <3>1. PICK cut \in {"no", "timeout", "client"} : q = [q EXCEPT !.cut = cut]
      BY <1>2 DEF Handling
    <3>2. 502 \in Nat
      OBVIOUS
    <3>3. HandledWell(q) /\ q.stage = "body"
      BY <1>2
    <3> QED BY <3>1, <3>2, <3>3, BodyAnswered
  <2>5. HandledWell(s)
    BY <2>1, <2>2, <2>3, <2>4 DEF RealtimeCredential, Execute
  <2> QED BY <2>1, <2>5, RequestBecomes
<1> QED BY <1>3, <1>4

LEMMA BodyRefusedHandled ==
    ASSUME RequestsInd, NEW r \in Request, NEW status, BodyRefused(r, status) PROVE RequestsInd'
<1>1. PICK q : q = req[r]
  OBVIOUS
<1>2. q \in Handling /\ HandledWell(q) /\ q.stage = "body" /\ status \in Nat
  BY <1>1 DEF RequestsInd, BodyRefused, HandledWell
<1>3. q.cut \in {"no", "timeout", "client"} /\ [q EXCEPT !.cut = q.cut] = q
  BY <1>2 DEF Handling
<1>4. HandledWell(Sent(q, status))
  BY <1>2, <1>3, BodyAnswered
<1> QED BY <1>1, <1>4, RequestBecomes DEF BodyRefused

LEMMA ProviderHandled ==
    ASSUME RequestsInd, NEW r \in Request,
           Valid(r) \/ Invalid(r) \/ \E status \in {502, 503, 504} : ProviderFails(r, status)
    PROVE  RequestsInd'
<1>1. PICK q : q = req[r]
  OBVIOUS
<1>2. q \in Handling /\ q.stage = "provider" /\ q.log = <<>> /\ q.answer = 0
  BY <1>1 DEF RequestsInd, HandledWell, Valid, Invalid, ProviderFails
<1>3. CASE Valid(r)
  <2>1. PICK p : p = [q EXCEPT !.valid = TRUE]
    OBVIOUS
  <2>2. p \in Handling /\ p.log = <<>> /\ p.answer = 0 /\ p.valid
    <3>1. PICK b \in BOOLEAN : b
      OBVIOUS
    <3>2. p = [q EXCEPT !.valid = b]
      BY <2>1, <3>1
    <3>3. p \in Handling /\ p.log = <<>> /\ p.answer = 0 /\ p.valid = b
      BY <1>2, <3>2 DEF Handling
    <3> QED BY <3>1, <3>3
  <2>3. HandledWell(Recording(p, "valid", 200))
    BY <2>2, OutcomeRecorded
  <2> QED BY <1>1, <1>3, <2>1, <2>3, RequestBecomes DEF Valid
<1>4. CASE Invalid(r)
  <2>1. CASE MayRepair(q)
    <3>1. q.attempts = 1
      BY <2>1 DEF MayRepair, Repairs
    <3>2. PICK s : s = [q EXCEPT !.attempts = @ + 1]
      OBVIOUS
    <3>3. s = [q EXCEPT !.attempts = 2]
      BY <3>1, <3>2
    <3>4. s \in Handling /\ s.stage = "provider" /\ s.log = <<>> /\ s.attempts = 2 /\ s.answer = 0
      BY <1>2, <3>3 DEF Handling
    <3>5. HandledWell(s)
      BY <3>4, Attempted
    <3> QED BY <1>1, <1>4, <2>1, <3>2, <3>5, RequestBecomes DEF Invalid
  <2>2. CASE ~MayRepair(q)
    <3>1. HandledWell(Recording(q, "invalid", 502))
      BY <1>2, OutcomeRecorded
    <3> QED BY <1>1, <1>4, <2>2, <3>1, RequestBecomes DEF Invalid
  <2> QED BY <2>1, <2>2
<1>5. ASSUME NEW status \in {502, 503, 504}, ProviderFails(r, status) PROVE RequestsInd'
  <2>1. HandledWell(Fails(q, status))
    BY <1>2, OutcomeRecorded DEF Fails
  <2> QED BY <1>1, <1>5, <2>1, RequestBecomes DEF ProviderFails
<1> QED BY <1>3, <1>4, <1>5

LEMMA TransportStepHandled ==
    ASSUME RequestsInd, NEW r \in Request, TransportAnswers(r) \/ TransportThrows(r) \/ ResponseClosed(r)
    PROVE  RequestsInd'
<1>1. PICK q : q = req[r]
  OBVIOUS
<1>2. q \in Handling /\ q.route = "mcp" /\ q.attempts = 0 /\ q.log = <<>>
  BY <1>1 DEF RequestsInd, HandledWell, TransportAnswers, TransportThrows, ResponseClosed
<1>3. CASE TransportAnswers(r)
  <2>0. PICK p : p = [q EXCEPT !.stage = "closing"]
    OBVIOUS
  <2>1. PICK s : s = [p EXCEPT !.answer = 200]
    OBVIOUS
  <2>2. s \in Handling /\ s.route = "mcp" /\ s.attempts = 0 /\ s.log = <<>> /\ s.stage = "closing"
    <3>1. p \in Handling /\ p.route = "mcp" /\ p.attempts = 0 /\ p.log = <<>> /\ p.stage = "closing"
      BY <1>2, <2>0 DEF Handling
    <3> QED BY <2>1, <3>1 DEF Handling
  <2>3. Becomes(r, s)
    BY <1>1, <1>3, <2>0, <2>1 DEF TransportAnswers, Goes
  <2> QED BY <2>2, <2>3, TransportHandled, RequestBecomes
<1>4. CASE TransportThrows(r)
  <2>1. PICK p : p = Close(q)
    OBVIOUS
  <2>2. p \in Handling /\ p.route = "mcp" /\ p.attempts = 0 /\ p.log = <<>>
    BY <1>2, <2>1 DEF Handling, Close
  <2>3. PICK status \in Nat : status = IF q.cut = "no" THEN 500 ELSE 504
    OBVIOUS
  <2>4. PICK t : t = Sent(p, status)
    OBVIOUS
  <2>5. PICK answer \in Nat : answer = IF p.cut = "client" THEN 0 ELSE status
    OBVIOUS
  <2>6. t = [p EXCEPT !.stage = "done", !.answer = answer]
    BY <2>4, <2>5 DEF Sent
  <2>7. t \in Handling /\ t.route = "mcp" /\ t.attempts = 0 /\ t.log = <<>>
    BY <2>2, <2>6 DEF Handling
  <2>8. PICK s : s = [t EXCEPT !.stage = "closing"]
    OBVIOUS
  <2>9. s \in Handling /\ s.route = "mcp" /\ s.attempts = 0 /\ s.log = <<>> /\ s.stage = "closing"
    BY <2>7, <2>8 DEF Handling
  <2>10. Becomes(r, s)
    BY <1>1, <1>4, <2>1, <2>3, <2>4, <2>8 DEF TransportThrows
  <2> QED BY <2>9, <2>10, TransportHandled, RequestBecomes
<1>5. CASE ResponseClosed(r)
  <2>0. PICK p : p = Close(q)
    OBVIOUS
  <2>1. PICK s : s = [p EXCEPT !.stage = "done"]
    OBVIOUS
  <2>2. s \in Handling /\ s.route = "mcp" /\ s.attempts = 0 /\ s.log = <<>> /\ s.stage = "done"
    <3>1. p \in Handling /\ p.route = "mcp" /\ p.attempts = 0 /\ p.log = <<>>
      BY <1>2, <2>0 DEF Handling, Close
    <3> QED BY <2>1, <3>1 DEF Handling
  <2>3. Becomes(r, s)
    BY <1>1, <1>5, <2>0, <2>1 DEF ResponseClosed
  <2> QED BY <2>2, <2>3, TransportHandled, RequestBecomes
<1> QED BY <1>3, <1>4, <1>5

LEMMA AbortHandled ==
    ASSUME RequestsInd, NEW r \in Request, NEW cut \in {"timeout", "client"}, Abort(r, cut) PROVE RequestsInd'
<1>1. PICK q : q = req[r]
  OBVIOUS
<1>2. q \in Handling /\ HandledWell(q) /\ q.stage \notin {"idle", "done"}
  BY <1>1 DEF RequestsInd, HandledWell, Abort, Free
<1>3. PICK p : p = [q EXCEPT !.cut = cut]
  OBVIOUS
<1>4. /\ p \in Handling /\ p.stage = q.stage /\ p.log = q.log /\ p.answer = q.answer /\ p.attempts = q.attempts
      /\ p.route = q.route /\ p.to = q.to /\ p.valid = q.valid
  BY <1>2, <1>3 DEF Handling
<1>5. Becomes(r, Aborted(r, cut))
  BY DEF Abort
<1>6. CASE q.stage = "body"
  <2>1. Aborted(r, cut) = Sent(p, 504)
    BY <1>1, <1>3, <1>4, <1>6 DEF Aborted
  <2>2. HandledWell(Sent(p, 504))
    <3>1. 504 \in Nat /\ cut \in {"no", "timeout", "client"}
      OBVIOUS
    <3> QED BY <1>2, <1>3, <1>6, <3>1, BodyAnswered
  <2> QED BY <1>5, <2>1, <2>2, RequestBecomes
<1>7. CASE q.stage = "provider"
  <2>1. Aborted(r, cut) = Fails(p, 504)
    BY <1>1, <1>3, <1>4, <1>7 DEF Aborted
  <2>2. p.log = <<>> /\ p.answer = 0
    BY <1>2, <1>4, <1>7 DEF HandledWell
  <2>3. HandledWell(Fails(p, 504))
    BY <1>4, <2>2, OutcomeRecorded DEF Fails
  <2> QED BY <1>5, <2>1, <2>3, RequestBecomes
<1>8. CASE q.stage = "handling"
  <2>1. PICK s : s = Close(p)
    OBVIOUS
  <2>2. Aborted(r, cut) = s
    BY <1>1, <1>3, <1>4, <1>8, <2>1 DEF Aborted
  <2>3. q.route = "mcp" /\ q.attempts = 0 /\ q.log = <<>> /\ q.answer = 0
    BY <1>2, <1>8 DEF HandledWell
  <2>4. s \in Handling /\ s.route = "mcp" /\ s.attempts = 0 /\ s.log = <<>> /\ s.stage = "handling" /\ s.answer = 0
    BY <1>4, <1>8, <2>1, <2>3 DEF Handling, Close
  <2> QED BY <1>5, <2>2, <2>4, TransportHandled, RequestBecomes
<1>9. CASE q.stage \in {"recording", "closing"}
  <2>1. Aborted(r, cut) = p
    BY <1>1, <1>3, <1>4, <1>9 DEF Aborted
  <2>2. CASE q.stage = "closing"
    <3>1. q.route = "mcp" /\ q.attempts = 0 /\ q.log = <<>>
      BY <1>2, <2>2 DEF HandledWell
    <3> QED BY <1>4, <1>5, <2>1, <2>2, <3>1, TransportHandled, RequestBecomes
  <2>3. CASE q.stage = "recording"
    <3>1. /\ Len(q.log) = 1 /\ q.log[1].success = (q.to = 200) /\ q.answer = 0
          /\ q.to = 200 /\ q.attempts > 0 => q.valid
      BY <1>2, <2>3 DEF HandledWell
    <3>2. Len(p.log) = 1 /\ p.answer = 0 /\ p.stage = "recording" /\ p \in Handling
      BY <1>4, <2>3, <3>1
    <3>3. p.log[1].success = (p.to = 200) /\ (p.to = 200 /\ p.attempts > 0 => p.valid)
      BY <1>4, <3>1, ZenonT(30)
    <3>4. Len(p.log) <= 1
      BY <3>2
    <3>5. HandledWell(p)
      BY <3>2, <3>3, <3>4, Zenon DEF HandledWell
    <3> QED BY <1>5, <2>1, <3>5, RequestBecomes
  <2> QED BY <1>9, <2>2, <2>3
<1>10. q.stage \in {"idle", "body", "handling", "provider", "recording", "closing", "done"}
  BY <1>2 DEF Handling
<1> QED BY <1>2, <1>6, <1>7, <1>8, <1>9, <1>10

LEMMA RequestsNext ==
    ASSUME RequestsInd, [ServerNext]_serverVars PROVE RequestsInd'
<1>1. CASE UNCHANGED req
  BY <1>1 DEF RequestsInd
<1>2. ASSUME NEW r \in Request, NEW route \in Route, NEW fault \in DOMAIN Refusal, Refused(r, route, fault)
      PROVE  RequestsInd'
  <2>1. Refusal[fault] \in Nat
    BY DEF Refusal
  <2> QED BY <1>2, <2>1, RefusedAtOnce, RequestBecomes DEF Refused
<1>3. ASSUME NEW r \in Request, NEW route \in Route, NEW key \in Address, Limited(r, route, key)
      PROVE  RequestsInd'
  BY <1>3, RefusedAtOnce, RequestBecomes DEF Limited
<1>4. ASSUME NEW r \in Request, NEW route \in Route, NEW key \in Address, NEW stage \in {"body", "handling"},
             Admitted(r, route, key, stage)
      PROVE  RequestsInd'
  BY <1>4, Begun, RequestBecomes DEF Admitted
<1>5. ASSUME NEW r \in Request, Ready(r) PROVE RequestsInd'
  <2>1. "readyz" \in Route
    BY DEF Route
  <2> QED BY <1>5, <2>1, RefusedAtOnce, RequestBecomes DEF Ready
<1>6. ASSUME NEW r \in Request, Recorded(r) PROVE RequestsInd'
  BY <1>6, OutcomeAnswered, RequestBecomes DEF Recorded, RequestsInd
<1>7. CASE Tick
  BY <1>1, <1>7 DEF Tick
<1>8. CASE ServerNext
  BY <1>2, <1>3, <1>4, <1>5, <1>6, <1>7, <1>8, BodyReadHandled, BodyRefusedHandled, ProviderHandled,
     TransportStepHandled, AbortHandled DEF ServerNext
<1> QED BY <1>1, <1>8 DEF serverVars

(* The invariant of a request in progress, at every await of its handler.  *)
THEOREM RequestsInvariant ==
    ServerSpec => []RequestsInd
<1>1. ServerInit => RequestsInd
  BY IdleHandled DEF ServerInit, RequestsInd
<1>2. RequestsInd /\ [ServerNext]_serverVars => RequestsInd'
  BY RequestsNext
<1> QED BY <1>1, <1>2, PTL DEF ServerSpec

LEMMA HandledIsHonest ==
    ASSUME NEW q, HandledWell(q)
    PROVE  /\ q.attempts <= 2
           /\ q.answer = 200 /\ q.attempts > 0 => q.valid
           /\ Len(q.log) <= 1
           /\ q.stage = "done" /\ q.attempts > 0 => Len(q.log) = 1
           /\ q.log # <<>> /\ q.answer # 0 => Head(q.log).success = (q.answer = 200)
           /\ q.cut = "client" /\ q.route # "mcp" => q.answer = 0
<1>1. /\ q.attempts \in 0..2 /\ q.log \in Seq(Event) /\ Len(q.log) <= 1
      /\ q.stage \in {"idle", "body", "handling", "provider", "recording", "closing", "done"}
  BY DEF HandledWell, Handling
<1>2. q.log # <<>> => Len(q.log) = 1 /\ Head(q.log) = q.log[1]
  <2>1. PICK l \in Seq(Event) : l = q.log /\ Len(l) <= 1
    BY <1>1
  <2>2. Head(l) = l[1] /\ Len(l) \in Nat
    BY <2>1
  <2>3. l # <<>> => Len(l) \in Nat \ {0}
    BY EmptySeq
  <2>4. \A n \in Nat : n <= 1 /\ n # 0 => n = 1
    OBVIOUS
  <2>5. l # <<>> => Len(l) = 1
    BY <2>1, <2>2, <2>3, <2>4, Zenon
  <2> QED BY <2>1, <2>2, <2>5, Zenon
<1>3. q.stage = "idle" => q.attempts = 0 /\ q.answer = 0
  BY DEF HandledWell, Idle
<1>4. q.stage \in {"idle", "body", "handling", "closing"} => q.attempts = 0
  BY <1>3 DEF HandledWell
<1>5. q.stage \in {"idle", "body", "handling", "provider", "recording"} => q.answer = 0
  BY <1>3 DEF HandledWell
<1>6. q.answer = 200 /\ q.attempts > 0 => q.valid
  <2>1. q.answer = 200 /\ q.attempts > 0 => q.stage = "done"
    BY <1>1, <1>4, <1>5
  <2> QED BY <2>1 DEF HandledWell
<1>7. q.log # <<>> /\ q.answer # 0 => Head(q.log).success = (q.answer = 200)
  <2>1. q.log # <<>> /\ q.answer # 0 => q.stage = "done"
    BY <1>1, <1>5 DEF HandledWell
  <2>2. q.stage = "done" /\ Len(q.log) = 1 /\ q.answer # 0 => q.log[1].success = (q.answer = 200)
    BY Zenon DEF HandledWell
  <2> QED BY <1>2, <2>1, <2>2, Zenon
<1>8. q.cut = "client" /\ q.route # "mcp" => q.answer = 0
  BY <1>1, <1>5 DEF HandledWell
<1>9. q.stage = "done" /\ q.attempts > 0 => Len(q.log) = 1
  BY DEF HandledWell
<1>10. q.attempts <= 2
  BY <1>1
<1> QED BY <1>1, <1>6, <1>7, <1>8, <1>9, <1>10, Zenon

(* Whatever the provider, the client, the deadline and the MCP transport   *)
(* do to any number of requests: the provider is asked at most twice, a    *)
(* success answers what was validated, and the one line an operation       *)
(* records says what its client was told (handleRequest, server/http.ts;   *)
(* execute, server/operation-service.ts).                                  *)
THEOREM AnswersAreHonest ==
    ServerSpec => []HonestAnswer
<1>1. RequestsInd => HonestAnswer
  <2> SUFFICES ASSUME RequestsInd, NEW r \in Request PROVE HandledWell(req[r])
    BY HandledIsHonest, Zenon DEF HonestAnswer
  <2> QED BY DEF RequestsInd
<1> QED BY <1>1, RequestsInvariant, PTL

(***************************************************************************)
(* The voice sessions.                                                     *)
(***************************************************************************)

-----------------------------------------------------------------------------
(* Sessions: one that was not cleaned up is the active one.                *)

Stages == {"none", "credential", "microphone", "joining", "settled"}
Hook == [active : BOOLEAN, thread : Thread \cup {0}, status : {"idle", "connecting", "listening"},
         error : BOOLEAN]

(* A session, whatever it accumulated of its events.                       *)
SessionWith(acc) ==
    [stage : Stages, cleaned : BOOLEAN, microphone : BOOLEAN, deadline : BOOLEAN, open : BOOLEAN,
     thread : Thread \cup {0}, acc : {acc}]
Known(s) == s \in SessionWith(s.acc)

(* The session s, numbered g, while on is active and hooked says whether   *)
(* the hook is.                                                            *)
OnlyActive(s, g, on, hooked) ==
    s.stage # "none" =>
       /\ ~s.cleaned <=> on = g
       /\ s.deadline \/ s.microphone \/ s.open => on = g
       /\ s.microphone => hooked
Orderly(sessions, on, speaks, hooked) ==
    /\ DOMAIN sessions = 1..MaxSessions
    /\ on = 0 \/ (on \in 1..MaxSessions /\ sessions[on].stage # "none" /\ hooked)
    /\ speaks \in {0, on}
    /\ \A g \in 1..MaxSessions : Known(sessions[g]) /\ OnlyActive(sessions[g], g, on, hooked)
ActiveInv == /\ Orderly(session, active, speech, hook.active)
             /\ hook \in Hook /\ thread \in Thread \cup {0}

LEMMA ReleasedIsQuiet ==
    ASSUME NEW s, Known(s), NEW t, t = Released(s)
    PROVE  /\ Known(t) /\ t.stage = s.stage /\ t.thread = s.thread
           /\ t.cleaned /\ ~t.microphone /\ ~t.deadline /\ ~t.open /\ t.acc = Empty
BY DEF Known, SessionWith, Released

LEMMA Staged ==
    ASSUME NEW s, Known(s), NEW stage \in Stages, NEW t, t = [s EXCEPT !.stage = stage]
    PROVE  /\ Known(t) /\ t.stage = stage /\ t.thread = s.thread /\ t.acc = s.acc
           /\ (t.cleaned <=> s.cleaned) /\ (t.microphone <=> s.microphone)
           /\ (t.deadline <=> s.deadline) /\ (t.open <=> s.open)
BY DEF Known, SessionWith

LEMMA ConnectedStill ==
    ASSUME NEW s, Known(s), NEW t, t = [s EXCEPT !.stage = "joining", !.microphone = TRUE]
    PROVE  /\ Known(t) /\ t.stage = "joining" /\ t.thread = s.thread /\ t.acc = s.acc
           /\ (t.cleaned <=> s.cleaned) /\ t.microphone
           /\ (t.deadline <=> s.deadline) /\ (t.open <=> s.open)
BY DEF Known, SessionWith, Stages

LEMMA OpenedChannel ==
    ASSUME NEW s, Known(s), NEW t, t = [s EXCEPT !.open = TRUE, !.deadline = FALSE]
    PROVE  /\ Known(t) /\ t.stage = s.stage /\ t.thread = s.thread /\ t.acc = s.acc
           /\ (t.cleaned <=> s.cleaned) /\ (t.microphone <=> s.microphone) /\ ~t.deadline /\ t.open
BY DEF Known, SessionWith

LEMMA Accumulated ==
    ASSUME NEW s, Known(s), NEW acc, NEW t, t = [s EXCEPT !.acc = acc]
    PROVE  /\ Known(t) /\ t.stage = s.stage /\ t.thread = s.thread /\ t.acc = acc
           /\ (t.cleaned <=> s.cleaned) /\ (t.microphone <=> s.microphone)
           /\ (t.deadline <=> s.deadline) /\ (t.open <=> s.open)
BY DEF Known, SessionWith

LEMMA NewSession ==
    ASSUME NEW at \in Thread \cup {0},
           NEW t, t = [NoSession EXCEPT !.stage = "credential", !.deadline = TRUE, !.thread = at]
    PROVE  /\ Known(t) /\ t.stage = "credential" /\ t.thread = at /\ t.acc = Empty
           /\ ~t.cleaned /\ ~t.microphone /\ t.deadline /\ ~t.open
BY DEF Known, SessionWith, Stages, NoSession

(* One session changes.                                                    *)
LEMMA Replaced ==
    ASSUME NEW sessions, NEW on, NEW speaks, NEW hooked, Orderly(sessions, on, speaks, hooked),
           NEW g \in 1..MaxSessions, NEW t, Known(t), t.stage # "none", OnlyActive(t, g, on, hooked),
           NEW new, new = [sessions EXCEPT ![g] = t]
    PROVE  Orderly(new, on, speaks, hooked)
<1>1. new[g] = t /\ \A h \in 1..MaxSessions : h # g => new[h] = sessions[h]
  BY DEF Orderly
<1> QED BY <1>1 DEF Orderly

(* cleanup of the active session.                                          *)
LEMMA CleanedAway ==
    ASSUME NEW sessions, NEW on, NEW speaks, NEW hooked, Orderly(sessions, on, speaks, hooked),
           NEW g \in 1..MaxSessions, on = g, Cleanup(sessions, g), active = on
    PROVE  Orderly(session', active', speech', FALSE)
<1>1. PICK t : t = Released(sessions[g])
  OBVIOUS
<1>2. Known(sessions[g]) /\ sessions[g].stage # "none" /\ DOMAIN sessions = 1..MaxSessions /\ g # 0
  BY DEF Orderly
<1>3. Known(t) /\ t.cleaned /\ ~t.microphone /\ ~t.deadline /\ ~t.open
  BY <1>1, <1>2, ReleasedIsQuiet
<1>4. session' = [sessions EXCEPT ![g] = t] /\ active' = 0 /\ speech' = 0
  BY <1>1, <1>2 DEF Cleanup
<1>5. session'[g] = t /\ (\A h \in 1..MaxSessions : h # g => session'[h] = sessions[h]) /\ DOMAIN session' = 1..MaxSessions
  BY <1>2, <1>4
<1>6. ASSUME NEW h \in 1..MaxSessions PROVE Known(session'[h]) /\ OnlyActive(session'[h], h, 0, FALSE)
  <2>1. CASE h = g
    BY <1>2, <1>3, <1>5, <2>1 DEF OnlyActive
  <2>2. CASE h # g
    <3>1. Known(sessions[h]) /\ OnlyActive(sessions[h], h, g, hooked) /\ session'[h] = sessions[h] /\ h # 0
      BY <1>5, <2>2 DEF Orderly
    <3> QED BY <2>2, <3>1 DEF OnlyActive
  <2> QED BY <2>1, <2>2
<1> QED BY <1>4, <1>5, <1>6 DEF Orderly

LEMMA FailsOrderly ==
    ASSUME NEW sessions, NEW speaks, Orderly(sessions, active, speaks, TRUE),
           NEW g \in 1..MaxSessions, active = g, Fail(sessions, g), UNCHANGED thread,
           thread \in Thread \cup {0}
    PROVE  ActiveInv'
<1>1. hook' = IdleHook(TRUE) /\ Orderly(session', active', speech', FALSE)
  BY CleanedAway DEF Fail
<1>2. hook' \in Hook /\ hook'.active = FALSE
  BY <1>1 DEF IdleHook, Hook
<1> QED BY <1>1, <1>2 DEF ActiveInv, Orderly, Known, SessionWith, OnlyActive

LEMMA KeepsOrderly ==
    ASSUME ActiveInv, NEW new, session' = new, Orderly(new, active, speech, hook.active),
           UNCHANGED <<active, speech, hook, thread>>
    PROVE  ActiveInv'
BY DEF ActiveInv, Orderly, Known, SessionWith, OnlyActive

LEMMA ActiveSession ==
    ASSUME ActiveInv, NEW g \in StartedSessions
    PROVE  /\ g \in 1..MaxSessions /\ session[g].stage # "none" /\ Known(session[g])
           /\ Orderly(session, active, speech, hook.active)
           /\ OnlyActive(session[g], g, active, hook.active)
           /\ IsActive(g) <=> active = g
           /\ active = g => hook.active = TRUE
<1>1. g \in 1..MaxSessions /\ session[g].stage # "none" /\ g # 0
  BY DEF StartedSessions
<1>2. hook.active \in BOOLEAN
  BY DEF ActiveInv, Hook
<1> QED BY <1>1, <1>2 DEF ActiveInv, Orderly, OnlyActive, IsActive

(* A step of a session's start: it goes on, fails or settles.              *)
LEMMA StagedOrderly ==
    ASSUME ActiveInv, NEW g \in StartedSessions, NEW stage \in Stages \ {"none"}
    PROVE  /\ Stage(g, stage) = [session EXCEPT ![g] = [session[g] EXCEPT !.stage = stage]]
           /\ Orderly(Stage(g, stage), active, speech, hook.active)
<1>1. PICK t : t = [session[g] EXCEPT !.stage = stage]
  OBVIOUS
<1>2. /\ g \in 1..MaxSessions /\ session[g].stage # "none" /\ Known(session[g])
      /\ OnlyActive(session[g], g, active, hook.active)
      /\ Orderly(session, active, speech, hook.active)
  BY ActiveSession
<1>3. /\ Known(t) /\ t.stage = stage /\ (t.cleaned <=> session[g].cleaned)
      /\ (t.microphone <=> session[g].microphone) /\ (t.deadline <=> session[g].deadline)
      /\ (t.open <=> session[g].open)
  BY <1>1, <1>2, Staged
<1>4. Stage(g, stage) = [session EXCEPT ![g] = t]
  BY <1>1, <1>2 DEF Stage
<1>5. OnlyActive(t, g, active, hook.active)
  BY <1>2, <1>3 DEF OnlyActive
<1>6. t.stage # "none"
  BY <1>3
<1>7. Orderly(Stage(g, stage), active, speech, hook.active)
  BY <1>2, <1>3, <1>4, <1>5, <1>6, Replaced
<1> QED BY <1>1, <1>4, <1>7

LEMMA StartsOrderly ==
    ASSUME RealtimeVoiceAssumption, ActiveInv, Start PROVE ActiveInv'
<1>1. Orderly(session, active, speech, hook.active) /\ hook.active \in BOOLEAN
  BY DEF ActiveInv, Hook
<1>2. active = 0 /\ speech = 0
  BY <1>1 DEF Start, Orderly
<1>3. PICK g : g = Cardinality(StartedSessions) + 1
  OBVIOUS
<1>4. g \in 1..MaxSessions
  <2>1. MaxSessions \in Nat /\ 1 \in Int /\ MaxSessions \in Int
    BY DEF RealtimeVoiceAssumption
  <2>2. StartedSessions \in SUBSET (1..MaxSessions)
    BY DEF StartedSessions
  <2>3. Cardinality(StartedSessions) \in Nat
    BY <2>1, <2>2, FS_Interval, FS_Subset, FS_CardinalityType
  <2> QED BY <1>3, <2>1, <2>3 DEF Start
<1>5. PICK t : t = [NoSession EXCEPT !.stage = "credential", !.deadline = TRUE, !.thread = thread]
  OBVIOUS
<1>6. thread \in Thread \cup {0}
  BY DEF ActiveInv
<1>7. Known(t) /\ t.stage = "credential" /\ ~t.cleaned /\ ~t.microphone
  BY <1>5, <1>6, NewSession
<1>8. session' = [session EXCEPT ![g] = t] /\ active' = g /\ speech' = 0
  BY <1>2, <1>3, <1>5 DEF Start
<1>9. hook' \in Hook /\ hook'.active = TRUE
  BY <1>6 DEF Start, Hook
<1>10. session'[g] = t /\ (\A h \in 1..MaxSessions : h # g => session'[h] = session[h]) /\ DOMAIN session' = 1..MaxSessions
  BY <1>1, <1>4, <1>8 DEF Orderly
<1>11. ASSUME NEW h \in 1..MaxSessions PROVE Known(session'[h]) /\ OnlyActive(session'[h], h, g, TRUE)
  <2>1. CASE h = g
    BY <1>7, <1>10, <2>1 DEF OnlyActive
  <2>2. CASE h # g
    <3>1. Known(session[h]) /\ OnlyActive(session[h], h, 0, hook.active) /\ session'[h] = session[h] /\ h # 0
      BY <1>1, <1>2, <1>10, <2>2 DEF Orderly
    <3> QED BY <2>2, <3>1 DEF OnlyActive
  <2> QED BY <2>1, <2>2
<1>12. Orderly(session', g, 0, TRUE)
  BY <1>4, <1>7, <1>10, <1>11 DEF Orderly
<1>13. thread' = thread
  BY DEF Start
<1> QED BY <1>6, <1>8, <1>9, <1>12, <1>13 DEF ActiveInv, Orderly, Known, SessionWith, OnlyActive

LEMMA CredentialOrderly ==
    ASSUME ActiveInv, NEW g \in StartedSessions, NEW ok \in BOOLEAN, Credential(g, ok) PROVE ActiveInv'
<1>1. thread' = thread /\ thread \in Thread \cup {0}
  BY DEF Credential, ActiveInv
<1>2. {"microphone", "settled"} \subseteq Stages \ {"none"}
  BY DEF Stages
<1>3. CASE IsActive(g) /\ ~ok
  <2>1. active = g /\ hook.active = TRUE /\ g \in 1..MaxSessions
    BY <1>3, ActiveSession
  <2>2. Orderly(Stage(g, "settled"), active, speech, TRUE)
    BY <1>2, <2>1, StagedOrderly
  <2>3. Fail(Stage(g, "settled"), g)
    BY <1>3 DEF Credential
  <2> QED BY <1>1, <2>1, <2>2, <2>3, FailsOrderly
<1>4. CASE ~(IsActive(g) /\ ~ok)
  <2>1. PICK stage \in {"microphone", "settled"} : session' = Stage(g, stage)
    BY <1>4 DEF Credential
  <2>2. UNCHANGED <<active, speech, hook>>
    BY <1>4 DEF Credential, Keeps
  <2>3. Orderly(Stage(g, stage), active, speech, hook.active)
    BY <1>2, StagedOrderly
  <2> QED BY <1>1, <2>1, <2>2, <2>3, KeepsOrderly
<1> QED BY <1>3, <1>4

LEMMA MicrophoneOrderly ==
    ASSUME ActiveInv, NEW g \in StartedSessions, NEW ok \in BOOLEAN, Microphone(g, ok) PROVE ActiveInv'
<1>1. thread' = thread /\ thread \in Thread \cup {0}
  BY DEF Microphone, ActiveInv
<1>2. {"joining", "settled"} \subseteq Stages \ {"none"}
  BY DEF Stages
<1>3. CASE IsActive(g) /\ ~ok
  <2>1. active = g /\ hook.active = TRUE /\ g \in 1..MaxSessions
    BY <1>3, ActiveSession
  <2>2. Orderly(Stage(g, "settled"), active, speech, TRUE)
    BY <1>2, <2>1, StagedOrderly
  <2>3. Fail(Stage(g, "settled"), g)
    BY <1>3 DEF Microphone
  <2> QED BY <1>1, <2>1, <2>2, <2>3, FailsOrderly
<1>4. CASE ~IsActive(g)
  <2>1. session' = Stage(g, "settled") /\ UNCHANGED <<active, speech, hook>>
    BY <1>4 DEF Microphone, Keeps
  <2>2. Orderly(Stage(g, "settled"), active, speech, hook.active)
    BY <1>2, StagedOrderly
  <2> QED BY <1>1, <2>1, <2>2, KeepsOrderly
<1>5. CASE IsActive(g) /\ ok
  <2>1. /\ active = g /\ hook.active = TRUE /\ g \in 1..MaxSessions /\ Known(session[g])
        /\ session[g].stage # "none"
        /\ Orderly(session, active, speech, hook.active) /\ OnlyActive(session[g], g, active, hook.active)
    BY <1>5, ActiveSession
  <2>2. PICK t : t = [session[g] EXCEPT !.stage = "joining", !.microphone = TRUE]
    OBVIOUS
  <2>3. session' = [session EXCEPT ![g] = t] /\ UNCHANGED <<active, speech, hook>>
    <3>1. session' = [Stage(g, "joining") EXCEPT ![g].microphone = TRUE] /\ UNCHANGED <<active, speech, hook>>
      BY <1>5 DEF Microphone, Keeps
    <3>2. DOMAIN session = 1..MaxSessions
      BY <2>1 DEF Orderly
    <3> QED BY <2>1, <2>2, <3>1, <3>2 DEF Stage
  <2>4. Known(t) /\ t.stage = "joining" /\ (t.cleaned <=> session[g].cleaned)
    BY <2>1, <2>2, ConnectedStill
  <2>5. OnlyActive(t, g, active, hook.active)
    BY <2>1, <2>4 DEF OnlyActive
  <2>6. t.stage # "none"
    BY <2>4
  <2>7. PICK new : new = [session EXCEPT ![g] = t]
    OBVIOUS
  <2>8. Orderly(new, active, speech, hook.active)
    BY <2>1, <2>4, <2>5, <2>6, <2>7, Replaced
  <2> QED BY <1>1, <2>3, <2>7, <2>8, KeepsOrderly
<1> QED BY <1>3, <1>4, <1>5

LEMMA JoinedOrderly ==
    ASSUME ActiveInv, NEW g \in StartedSessions, NEW ok \in BOOLEAN, Joined(g, ok) PROVE ActiveInv'
<1>1. thread' = thread /\ thread \in Thread \cup {0}
  BY DEF Joined, ActiveInv
<1>2. "settled" \in Stages \ {"none"}
  BY DEF Stages
<1>3. CASE IsActive(g) /\ ~ok
  <2>1. active = g /\ hook.active = TRUE /\ g \in 1..MaxSessions
    BY <1>3, ActiveSession
  <2>2. Orderly(Stage(g, "settled"), active, speech, TRUE)
    BY <1>2, <2>1, StagedOrderly
  <2>3. Fail(Stage(g, "settled"), g)
    BY <1>3 DEF Joined
  <2> QED BY <1>1, <2>1, <2>2, <2>3, FailsOrderly
<1>4. CASE ~(IsActive(g) /\ ~ok)
  <2>1. session' = Stage(g, "settled") /\ UNCHANGED <<active, speech, hook>>
    BY <1>4 DEF Joined, Keeps
  <2>2. Orderly(Stage(g, "settled"), active, speech, hook.active)
    BY <1>2, StagedOrderly
  <2> QED BY <1>1, <2>1, <2>2, KeepsOrderly
<1> QED BY <1>3, <1>4

LEMMA OpensOrderly ==
    ASSUME ActiveInv, NEW g \in StartedSessions, NEW sends \in BOOLEAN, ChannelOpens(g, sends) PROVE ActiveInv'
<1>1. thread' = thread /\ thread \in Thread \cup {0} /\ hook \in Hook
  BY DEF ChannelOpens, ActiveInv
<1>2. /\ g \in 1..MaxSessions /\ Known(session[g]) /\ session[g].stage # "none" /\ session[g].microphone
      /\ Orderly(session, active, speech, hook.active) /\ OnlyActive(session[g], g, active, hook.active)
  BY ActiveSession DEF ChannelOpens, Listening
<1>3. active = g /\ hook.active = TRUE
  BY <1>2, ActiveSession DEF OnlyActive
<1>4. PICK t : t = [session[g] EXCEPT !.open = TRUE, !.deadline = FALSE]
  OBVIOUS
<1>5. PICK new : new = [session EXCEPT ![g] = t]
  OBVIOUS
<1>6. [session EXCEPT ![g].open = TRUE, ![g].deadline = FALSE] = new
  BY <1>2, <1>4, <1>5 DEF Orderly
<1>7. Known(t) /\ t.stage = session[g].stage /\ (t.cleaned <=> session[g].cleaned)
  BY <1>2, <1>4, OpenedChannel
<1>8. OnlyActive(t, g, active, hook.active)
  BY <1>2, <1>3, <1>7 DEF OnlyActive
<1>9. Orderly(new, active, speech, hook.active)
  BY <1>2, <1>5, <1>7, <1>8, Replaced
<1>10. CASE ~sends
  BY <1>1, <1>2, <1>3, <1>6, <1>9, <1>10, FailsOrderly DEF ChannelOpens
<1>11. CASE sends
  <2>1. session' = new /\ hook' = [hook EXCEPT !.status = "listening"] /\ active' = active /\ speech' = speech
    BY <1>6, <1>11 DEF ChannelOpens
  <2>2. hook' \in Hook /\ hook'.active = hook.active
    BY <1>1, <2>1 DEF Hook
  <2> QED BY <1>1, <1>9, <2>1, <2>2 DEF ActiveInv, Orderly, Known, SessionWith, OnlyActive
<1> QED BY <1>10, <1>11

-----------------------------------------------------------------------------
(* Events and pairs.                                                       *)

Bindings == UNION {[R -> Assistant] : R \in SUBSET Response}
Declarations == UNION {[R -> SUBSET Assistant] : R \in SUBSET Response}
Status == [response : Response, status : {"completed", "cancelled"}]
Accumulator ==
    [created : SUBSET Item, heard : SUBSET UserItem, texts : Bindings, itemTexts : SUBSET Assistant,
     items : Bindings, statuses : Seq(Status), declared : Declarations, done : SUBSET Response,
     consumed : SUBSET UserItem]
Turn == [user : UserItem, assistant : Assistant]
Result == [acc : Accumulator, pairs : Seq(Turn)]

(* What emitCompleted leaves alone, and what it only adds to.              *)
Extends(later, acc) ==
    /\ later.created = acc.created /\ later.heard = acc.heard /\ later.texts = acc.texts
    /\ later.statuses = acc.statuses
    /\ acc.done \subseteq later.done /\ acc.consumed \subseteq later.consumed
NewPairs(result, acc) ==
    /\ \A k \in DOMAIN result.pairs :
          /\ result.pairs[k].user = TrueUser(result.pairs[k].assistant)
          /\ result.pairs[k].user \in result.acc.consumed \ acc.consumed
    /\ \A j, k \in DOMAIN result.pairs : result.pairs[j].user = result.pairs[k].user => j = k

LEMMA ItemIndex ==
    ASSUME NEW i \in Item PROVE Index(i) \in DOMAIN Said /\ Said[Index(i)] = i
BY DEF Item, ToSet, Index

(* The linked user item is the one the answer follows.                     *)
LEMMA LinkedIsTrue ==
    ASSUME RealtimeVoiceAssumption, NEW acc \in Accumulator, NEW a \in Assistant, NEW u \in LinkedUser(acc, a)
    PROVE  u \in UserItem /\ u = TrueUser(a)
<1>1. /\ u \in UserItem /\ Index(u) < Index(a)
      /\ \A k \in Index(u) + 1 .. Index(a) : Said[k] \notin UserItem
  BY DEF LinkedUser, Accumulator
<1>2. UserItem \subseteq Item /\ DOMAIN Said \subseteq Nat /\ a \in Item
  BY DEF RealtimeVoiceAssumption, Assistant
<1>3. Index(a) \in Nat /\ \A v \in UserItem : Index(v) \in Nat /\ Said[Index(v)] = v
  BY <1>2, ItemIndex
<1>4. ASSUME NEW v \in UserItem, Index(v) < Index(a) PROVE Index(v) <= Index(u)
  <2>1. ASSUME ~(Index(v) <= Index(u)) PROVE FALSE
    <3>1. Index(v) \in Index(u) + 1 .. Index(a)
      BY <1>1, <1>3, <1>4, <2>1
    <3> QED BY <1>1, <1>3, <3>1
  <2> QED BY <2>1
<1> DEFINE before == {v \in UserItem : Index(v) < Index(a)}
           Newest(w) == w \in before /\ \A v \in before : Index(v) <= Index(w)
           t == CHOOSE w \in before : \A v \in before : Index(v) <= Index(w)
<1>5. Newest(u)
  BY <1>1, <1>4
<1>6. Newest(t)
  BY <1>5
<1>7. t = TrueUser(a)
  BY DEF TrueUser
<1> HIDE DEF t
<1>8. t \in UserItem /\ Index(t) = Index(u)
  BY <1>1, <1>3, <1>5, <1>6
<1> QED BY <1>1, <1>3, <1>7, <1>8

LEMMA AnswersLinked ==
    ASSUME NEW acc \in Accumulator, NEW r, Answers(acc, r) # {}
    PROVE  /\ r \in DOMAIN acc.texts \ acc.done /\ acc.texts[r] \in Assistant /\ r \in Response
           /\ \A u \in Answers(acc, r) : u \in LinkedUser(acc, acc.texts[r]) \ acc.consumed
<1>1. r \in DOMAIN acc.texts \ acc.done /\ Answers(acc, r) = LinkedUser(acc, acc.texts[r]) \ acc.consumed
  BY DEF Answers
<1>2. acc.texts \in Bindings
  BY DEF Accumulator
<1>3. PICK R \in SUBSET Response : acc.texts \in [R -> Assistant]
  BY <1>2 DEF Bindings
<1> QED BY <1>1, <1>3

(* As an accumulator is extended, fewer answers wait.                      *)
LEMMA FewerAnswers ==
    ASSUME NEW acc, NEW later, Extends(later, acc), NEW r
    PROVE  Answers(later, r) \subseteq Answers(acc, r)
<1>1. StatusOf(later, r) = StatusOf(acc, r) /\ \A i : LinkedUser(later, i) = LinkedUser(acc, i)
  BY DEF Extends, StatusOf, LinkedUser
<1> QED BY <1>1 DEF Extends, Answers

(* One turn of emitCompleted.                                              *)
LEMMA EmitTurn ==
    ASSUME RealtimeVoiceAssumption, NEW q \in Result, NEW entry \in Status,
           NEW e, e = Emit(q, entry), NEW acc, acc.consumed \subseteq q.acc.consumed
    PROVE  /\ e \in Result /\ Extends(e.acc, q.acc) /\ Answers(e.acc, entry.response) = {}
           /\ NewPairs(q, acc) => NewPairs(e, acc)
<1> DEFINE r == entry.response
           users == Answers(q.acc, r)
<1>1. q.acc \in Accumulator /\ q.pairs \in Seq(Turn) /\ r \in Response
  BY DEF Result, Status
<1>2. CASE users = {}
  <2>1. e = q
    BY <1>2 DEF Emit
  <2> QED BY <1>2, <2>1 DEF Extends
<1>3. CASE users # {}
  <2>1. PICK u \in users : u = CHOOSE v \in users : TRUE
    BY <1>3
  <2>2. PICK a : a = q.acc.texts[r]
    OBVIOUS
  <2>3. a \in Assistant /\ u \in LinkedUser(q.acc, a) /\ u \notin q.acc.consumed
    BY <1>1, <1>3, <2>1, <2>2, AnswersLinked
  <2>4. u \in UserItem /\ u = TrueUser(a)
    BY <1>1, <2>3, LinkedIsTrue
  <2>5. PICK p : p = [user |-> u, assistant |-> a]
    OBVIOUS
  <2>6. p \in Turn /\ p.user = u /\ p.assistant = a
    BY <2>3, <2>4, <2>5 DEF Turn
  <2>7. PICK c : c = [q.acc EXCEPT !.done = @ \cup {r}, !.consumed = @ \cup {u}]
    OBVIOUS
  <2>8. /\ c \in Accumulator /\ Extends(c, q.acc) /\ r \in c.done
        /\ c.consumed = q.acc.consumed \cup {u}
    <3>1. /\ c.created = q.acc.created /\ c.heard = q.acc.heard /\ c.texts = q.acc.texts
          /\ c.statuses = q.acc.statuses /\ c.done = q.acc.done \cup {r}
          /\ c.consumed = q.acc.consumed \cup {u}
      BY <1>1, <2>7 DEF Accumulator
    <3>2. q.acc.done \cup {r} \in SUBSET Response /\ q.acc.consumed \cup {u} \in SUBSET UserItem
      BY <1>1, <2>4 DEF Accumulator
    <3>3. c \in Accumulator
      BY <1>1, <2>7, <3>2 DEF Accumulator
    <3> QED BY <3>1, <3>3 DEF Extends
  <2>9. PICK l : l = Append(q.pairs, p)
    OBVIOUS
  <2>10. e = [acc |-> c, pairs |-> l]
    BY <1>3, <2>1, <2>2, <2>5, <2>7, <2>9 DEF Emit
  <2>11. PICK n \in Nat : n = Len(q.pairs) /\ DOMAIN q.pairs = 1..n
    BY <1>1
  <2>12. /\ l \in Seq(Turn) /\ DOMAIN l = 1..n + 1 /\ l[n + 1] = p
         /\ \A k \in 1..n : l[k] = q.pairs[k]
    BY <1>1, <2>6, <2>9, <2>11, AppendProperties
  <2>13. e \in Result /\ e.acc = c /\ e.pairs = l
    BY <2>8, <2>10, <2>12 DEF Result
  <2>14. Answers(c, r) = {}
    BY <2>8 DEF Answers
  <2>15. ASSUME NewPairs(q, acc) PROVE NewPairs(e, acc)
    <3>1. \A k \in 1..n + 1 : k = n + 1 \/ k \in 1..n
      BY <2>11
    <3>2. \A k \in 1..n : q.pairs[k].user = TrueUser(q.pairs[k].assistant)
                       /\ q.pairs[k].user \in q.acc.consumed \ acc.consumed
      BY <2>11, <2>15 DEF NewPairs
    <3>3. \A j, k \in 1..n : q.pairs[j].user = q.pairs[k].user => j = k
      BY <2>11, <2>15 DEF NewPairs
    <3>4. u \notin acc.consumed
      BY <2>3
    <3>5. ASSUME NEW k \in 1..n + 1
          PROVE  l[k].user = TrueUser(l[k].assistant) /\ l[k].user \in c.consumed \ acc.consumed
      BY <2>4, <2>6, <2>8, <2>12, <3>1, <3>2, <3>4
    <3>6. ASSUME NEW j \in 1..n + 1, NEW k \in 1..n + 1, l[j].user = l[k].user PROVE j = k
      <4>1. CASE j \in 1..n /\ k \in 1..n
        BY <2>12, <3>3, <3>6, <4>1
      <4>2. CASE j = n + 1 /\ k \in 1..n
        BY <2>3, <2>6, <2>12, <3>2, <3>6, <4>2
      <4>3. CASE k = n + 1 /\ j \in 1..n
        BY <2>3, <2>6, <2>12, <3>2, <3>6, <4>3
      <4> QED BY <3>1, <4>1, <4>2, <4>3
    <3> QED BY <2>12, <2>13, <3>5, <3>6 DEF NewPairs
  <2> QED BY <2>8, <2>13, <2>14, <2>15
<1> QED BY <1>2, <1>3

(* emitCompleted is a loop over the statuses.                              *)
EmitTurns(loop, acc, s, N) ==
    /\ loop \in [0..N -> Result] /\ loop[0] = Quiet(acc) /\ Emitted(acc) = loop[N]
    /\ \A n \in 1..N : loop[n] = Emit(loop[n - 1], s[n])

LEMMA EmitLoop ==
    ASSUME RealtimeVoiceAssumption, NEW acc \in Accumulator, NEW s, s = acc.statuses, NEW N, N = Len(s)
    PROVE  \E loop : EmitTurns(loop, acc, s, N)
<1> DEFINE turn == [n \in 1..N |-> [q \in Result |-> Emit(q, s[n])]]
           Loops(f) == f = [n \in 0..N |-> IF n = 0 THEN Quiet(acc) ELSE Emit(f[n - 1], s[n])]
           loop == CHOOSE f : Loops(f)
<1>1. s \in Seq(Status) /\ N \in Nat /\ DOMAIN s = 1..N /\ \A n \in 1..N : s[n] \in Status
  <2>1. s \in Seq(Status)
    BY DEF Accumulator
  <2> QED BY <2>1
<1>2. \A n \in 1..N : \A q \in Result : Emit(q, s[n]) \in Result
  <2> SUFFICES ASSUME NEW n \in 1..N, NEW q \in Result PROVE Emit(q, s[n]) \in Result
    OBVIOUS
  <2>1. PICK e : e = Emit(q, s[n])
    OBVIOUS
  <2>2. q.acc.consumed \subseteq q.acc.consumed /\ s[n] \in Status
    BY <1>1
  <2>3. e \in Result
    BY <2>1, <2>2, EmitTurn
  <2> QED BY <2>1, <2>3
<1>3. turn \in [1..N -> [Result -> Result]]
  BY <1>2
<1>4. Quiet(acc) \in Result
  BY DEF Quiet, Result
<1>5. \A n \in 1..N : \A q \in Result : turn[n][q] = Emit(q, s[n])
  OBVIOUS
<1> HIDE DEF turn
<1>6. PICK f : Unrolls(f, N, Result, Quiet(acc), turn)
  BY <1>1, <1>3, <1>4, LoopEnds
<1>7. f \in [0..N -> Result] /\ f[0] = Quiet(acc) /\ \A n \in 1..N : f[n] = turn[n][f[n - 1]]
  BY <1>6 DEF Unrolls
<1>8. \A n \in 1..N : n \in 0..N /\ n # 0 /\ n - 1 \in 0..N
  BY <1>1
<1>9. \A n \in 1..N : f[n] = Emit(f[n - 1], s[n])
  BY <1>5, <1>7, <1>8
<1>10. Loops(f)
  <2>1. \A n \in 0..N : n # 0 => n \in 1..N
    BY <1>1
  <2> QED BY <1>7, <1>9, <2>1
<1>11. Loops(loop)
  <2> HIDE DEF Loops
  <2> QED BY <1>10
<1>12. Emitted(acc) = loop[N]
  BY DEF Emitted
<1> HIDE DEF loop
<1>13. /\ loop[0] = Quiet(acc) /\ loop = [n \in 0..N |-> loop[n]]
       /\ \A n \in 1..N : loop[n] = Emit(loop[n - 1], s[n])
  <2>1. 0 \in 0..N
    BY <1>1
  <2> QED BY <1>8, <1>11, <2>1
<1>14. \A n \in 0..N : loop[n] = f[n]
  <2> DEFINE Bad == {n \in 0..N : loop[n] # f[n]}
  <2>1. SUFFICES ASSUME Bad # {} PROVE FALSE
    OBVIOUS
  <2>2. PICK n \in Bad : \A k \in Bad : n <= k
    <3>1. Bad \in SUBSET Nat
      BY <1>1
    <3> HIDE DEF Bad
    <3> QED BY <2>1, <3>1, LeastOf
  <2>3. n # 0 /\ n \in 1..N /\ n - 1 \in 0..N /\ n \in Nat
    BY <1>1, <1>7, <1>13
  <2>4. n - 1 \notin Bad
    BY <2>2, <2>3
  <2>5. loop[n - 1] = f[n - 1]
    BY <2>3, <2>4
  <2>6. loop[n] = f[n]
    BY <1>9, <1>13, <2>3, <2>5
  <2> QED BY <2>6
<1>15. loop \in [0..N -> Result] /\ loop[0] = Quiet(acc)
  BY <1>7, <1>13, <1>14
<1>16. EmitTurns(loop, acc, s, N)
  BY <1>12, <1>13, <1>15 DEF EmitTurns
<1> QED BY <1>16

(* Once it ran, no answer waits whose parts are all known.                 *)
LEMMA NothingWaits ==
    ASSUME RealtimeVoiceAssumption, NEW acc \in Accumulator, NEW e, e = Emitted(acc)
    PROVE  /\ e \in Result /\ Extends(e.acc, acc) /\ NewPairs(e, acc)
           /\ \A r \in Response : Answers(e.acc, r) = {}
<1>1. PICK s : s = acc.statuses
  OBVIOUS
<1>2. PICK N : N = Len(s)
  OBVIOUS
<1>3. s \in Seq(Status) /\ N \in Nat /\ DOMAIN s = 1..N /\ \A n \in 1..N : s[n] \in Status
  <2>1. s \in Seq(Status)
    BY <1>1 DEF Accumulator
  <2> QED BY <1>2, <2>1
<1>0. PICK loop : EmitTurns(loop, acc, s, N)
  BY <1>1, <1>2, EmitLoop
<1>4. /\ loop \in [0..N -> Result] /\ loop[0] = Quiet(acc) /\ Emitted(acc) = loop[N]
      /\ \A n \in 1..N : loop[n] = Emit(loop[n - 1], s[n])
  BY <1>0 DEF EmitTurns
<1> DEFINE Good(n) == /\ Extends(loop[n].acc, acc) /\ NewPairs(loop[n], acc)
                      /\ \A j \in 1..n : Answers(loop[n].acc, s[j].response) = {}
           Bad == {n \in 0..N : ~Good(n)}
<1>5. Bad = {}
  <2>1. SUFFICES ASSUME Bad # {} PROVE FALSE
    OBVIOUS
  <2>2. PICK n \in Bad : \A k \in Bad : n <= k
    <3>1. Bad \in SUBSET Nat
      BY <1>3
    <3> HIDE DEF Bad
    <3> QED BY <2>1, <3>1, LeastOf
  <2>3. ~Good(n) /\ n \in 0..N
    OBVIOUS
  <2>4. CASE n = 0
    <3>1. loop[0].acc = acc /\ loop[0].pairs = <<>> /\ DOMAIN loop[0].pairs = {} /\ 1..0 = {}
      BY <1>4 DEF Quiet
    <3>2. Good(0)
      BY <3>1 DEF Extends, NewPairs
    <3> QED BY <2>3, <2>4, <3>2
  <2>5. CASE n # 0
    <3>1. n - 1 \in 0..N /\ n \in 1..N /\ n \in Nat /\ ~(n <= n - 1)
      BY <1>3, <2>3, <2>5
    <3>2. Good(n - 1)
      BY <2>2, <3>1
    <3>3. PICK q \in Result : q = loop[n - 1]
      BY <1>4, <3>1
    <3>4. PICK e1 \in Result : e1 = loop[n]
      BY <1>4, <2>3
    <3>5. e1 = Emit(q, s[n]) /\ s[n] \in Status
      BY <1>3, <1>4, <3>1, <3>3, <3>4
    <3>6. Extends(q.acc, acc) /\ NewPairs(q, acc) /\ \A j \in 1..n - 1 : Answers(q.acc, s[j].response) = {}
      BY <3>2, <3>3
    <3>7. acc.consumed \subseteq q.acc.consumed
      BY <3>6 DEF Extends
    <3>8. Extends(e1.acc, q.acc) /\ Answers(e1.acc, s[n].response) = {} /\ NewPairs(e1, acc)
      BY <3>5, <3>6, <3>7, EmitTurn
    <3>9. Extends(e1.acc, acc)
      BY <3>6, <3>8 DEF Extends
    <3>10. ASSUME NEW j \in 1..n PROVE Answers(e1.acc, s[j].response) = {}
      <4>1. CASE j = n
        BY <3>8, <4>1
      <4>2. CASE j # n
        <5>1. j \in 1..n - 1
          BY <3>1, <4>2
        <5> QED BY <3>6, <3>8, <5>1, FewerAnswers
      <4> QED BY <4>1, <4>2
    <3> QED BY <2>3, <3>4, <3>8, <3>9, <3>10
  <2> QED BY <2>4, <2>5
<1>6. /\ Extends(e.acc, acc) /\ NewPairs(e, acc) /\ e \in Result
      /\ \A j \in 1..N : Answers(e.acc, s[j].response) = {}
  <2>1. N \in 0..N
    BY <1>3
  <2>2. Good(N)
    BY <1>5, <2>1
  <2>3. e = loop[N] /\ loop[N] \in Result
    BY <1>4, <2>1
  <2> QED BY <2>2, <2>3
<1>7. ASSUME NEW r \in Response PROVE Answers(e.acc, r) = {}
  <2>1. e.acc.statuses = s
    BY <1>1, <1>6 DEF Extends
  <2>2. CASE \E j \in 1..N : s[j].response = r
    BY <1>6, <2>2
  <2>3. CASE ~\E j \in 1..N : s[j].response = r
    <3>1. StatusOf(e.acc, r) = {}
      BY <1>3, <2>1, <2>3 DEF StatusOf
    <3> QED BY <3>1 DEF Answers
  <2> QED BY <2>2, <2>3
<1> QED BY <1>6, <1>7

(* A message that is accepted leaves no pair waiting; the exchanges it     *)
(* completes are true, and use items no exchange used before.              *)
Settled(result, acc) ==
    /\ result.acc \in Accumulator /\ result.pairs \in Seq(Turn)
    /\ acc.consumed \subseteq result.acc.consumed /\ NewPairs(result, acc)
    /\ \A r \in Response : Answers(result.acc, r) = {}

LEMMA EmptyIsQuiet ==
    Empty \in Accumulator /\ \A r \in Response : Answers(Empty, r) = {}
<1>1. Unbound \in [{} -> Assistant] /\ Unbound \in [{} -> SUBSET Assistant]
  BY DEF Unbound
<1>2. Unbound \in Bindings /\ Unbound \in Declarations
  BY <1>1 DEF Bindings, Declarations
<1>3. Empty \in Accumulator
  BY <1>2 DEF Empty, Accumulator
<1>4. \A r \in Response : StatusOf(Empty, r) = {}
  BY DEF StatusOf, Empty
<1> QED BY <1>3, <1>4 DEF Answers

LEMMA EmittedSettles ==
    ASSUME RealtimeVoiceAssumption, NEW known \in Accumulator, NEW acc, known.consumed = acc.consumed
    PROVE  Settled(Handled(Emitted(known)), acc) /\ Handled(Emitted(known)).malformed = FALSE
<1>1. PICK e : e = Emitted(known)
  OBVIOUS
<1>2. e \in Result /\ Extends(e.acc, known) /\ NewPairs(e, known) /\ \A r \in Response : Answers(e.acc, r) = {}
  BY <1>1, NothingWaits
<1>3. PICK h : h = Handled(e)
  OBVIOUS
<1>4. h.acc = e.acc /\ h.pairs = e.pairs /\ h.malformed = FALSE
  BY <1>3 DEF Handled
<1>5. h.acc \in Accumulator /\ h.pairs \in Seq(Turn) /\ acc.consumed \subseteq h.acc.consumed
  BY <1>2, <1>4 DEF Result, Extends
<1>6. NewPairs(h, acc)
  BY <1>2, <1>4 DEF NewPairs
<1>7. Settled(h, acc)
  BY <1>2, <1>4, <1>5, <1>6 DEF Settled
<1> QED BY <1>1, <1>3, <1>4, <1>7

LEMMA QuietSettles ==
    ASSUME NEW known \in Accumulator, NEW acc, known.consumed = acc.consumed,
           \A r \in Response : Answers(known, r) = {}
    PROVE  Settled(Handled(Quiet(known)), acc) /\ Handled(Quiet(known)).malformed = FALSE
<1>1. PICK h : h = Handled(Quiet(known))
  OBVIOUS
<1>2. h.acc = known /\ h.pairs = <<>> /\ h.malformed = FALSE
  BY <1>1 DEF Handled, Quiet
<1>3. DOMAIN h.pairs = {} /\ h.pairs \in Seq(Turn)
  BY <1>2
<1>4. Settled(h, acc)
  BY <1>2, <1>3 DEF Settled, NewPairs
<1> QED BY <1>1, <1>2, <1>4

LEMMA BoundIsBinding ==
    ASSUME NEW f \in Bindings, NEW r \in Response, NEW i \in Assistant
    PROVE  Bound(f, r, i) \in Bindings
<1>1. PICK R \in SUBSET Response : f \in [R -> Assistant]
  BY DEF Bindings
<1>2. PICK Q \in SUBSET Response : Q = R \cup {r}
  OBVIOUS
<1>3. Bound(f, r, i) \in [Q -> Assistant]
  BY <1>1, <1>2 DEF Bound
<1> QED BY <1>3 DEF Bindings

LEMMA BoundIsDeclaration ==
    ASSUME NEW f \in Declarations, NEW r \in Response, NEW o \in SUBSET Assistant
    PROVE  Bound(f, r, o) \in Declarations
<1>1. PICK R \in SUBSET Response : f \in [R -> SUBSET Assistant]
  BY DEF Declarations
<1>2. PICK Q \in SUBSET Response : Q = R \cup {r}
  OBVIOUS
<1>3. Bound(f, r, o) \in [Q -> SUBSET Assistant]
  BY <1>1, <1>2 DEF Bound
<1> QED BY <1>3 DEF Declarations

LEMMA TranscriptSettles ==
    ASSUME RealtimeVoiceAssumption, NEW acc \in Accumulator, \A r \in Response : Answers(acc, r) = {},
           NEW i \in UserItem, NEW result, result = UserTranscript(acc, i), ~result.malformed
    PROVE  Settled(result, acc)
<1>1. CASE i \in acc.heard
  BY <1>1, QuietSettles DEF UserTranscript
<1>2. CASE i \notin acc.heard
  <2>1. PICK known : known = [acc EXCEPT !.heard = @ \cup {i}]
    OBVIOUS
  <2>2. known \in Accumulator /\ known.consumed = acc.consumed
    BY <2>1 DEF Accumulator
  <2>3. result = Handled(Emitted(known))
    BY <1>2, <2>1 DEF UserTranscript
  <2> QED BY <2>2, <2>3, EmittedSettles
<1> QED BY <1>1, <1>2

LEMMA CreationSettles ==
    ASSUME RealtimeVoiceAssumption, NEW acc \in Accumulator,
           NEW i \in Item, NEW result, result = ItemCreated(acc, i)
    PROVE  Settled(result, acc)
<1>1. PICK known : known = [acc EXCEPT !.created = @ \cup {i}]
  OBVIOUS
<1>2. known \in Accumulator /\ known.consumed = acc.consumed
  BY <1>1 DEF Accumulator
<1>3. result = Handled(Emitted(known))
  BY <1>1 DEF ItemCreated
<1> QED BY <1>2, <1>3, EmittedSettles

LEMMA TextSettles ==
    ASSUME RealtimeVoiceAssumption, NEW acc \in Accumulator, \A q \in Response : Answers(acc, q) = {},
           NEW r \in Response, NEW i \in Assistant,
           NEW result, result = RecordAssistant(acc, r, i), ~result.malformed
    PROVE  Settled(result, acc)
<1>1. ~(r \in DOMAIN acc.items /\ acc.items[r] # i)
  BY DEF RecordAssistant, Malformed
<1>2. CASE \/ r \in DOMAIN acc.texts \/ i \in acc.itemTexts
           \/ StatusOf(acc, r) \notin {{}, {"completed"}} \/ r \in acc.done
  <2>1. result = Handled(Quiet(acc))
    BY <1>1, <1>2 DEF RecordAssistant
  <2> QED BY <2>1, QuietSettles
<1>3. CASE ~(\/ r \in DOMAIN acc.texts \/ i \in acc.itemTexts
             \/ StatusOf(acc, r) \notin {{}, {"completed"}} \/ r \in acc.done)
  <2>1. PICK known : known = [acc EXCEPT !.itemTexts = @ \cup {i}, !.items = Bound(@, r, i),
                                         !.texts = Bound(@, r, i)]
    OBVIOUS
  <2>2. Bound(acc.items, r, i) \in Bindings /\ Bound(acc.texts, r, i) \in Bindings
    BY BoundIsBinding DEF Accumulator
  <2>3. known \in Accumulator /\ known.consumed = acc.consumed
    BY <2>1, <2>2 DEF Accumulator
  <2>4. result = Handled(Emitted(known))
    BY <1>1, <1>3, <2>1 DEF RecordAssistant
  <2> QED BY <2>3, <2>4, EmittedSettles
<1> QED BY <1>2, <1>3

LEMMA StatusSettles ==
    ASSUME RealtimeVoiceAssumption, NEW acc \in Accumulator, \A q \in Response : Answers(acc, q) = {},
           NEW r \in Response, NEW status \in {"completed", "cancelled"}, NEW outputs \in SUBSET Assistant,
           NEW result, result = RecordResponseStatus(acc, r, status, outputs), ~result.malformed
    PROVE  Settled(result, acc)
<1>1. ~\E i \in outputs : \E f \in {acc.texts, acc.items} : r \in DOMAIN f /\ f[r] # i
  BY DEF RecordResponseStatus, Malformed
<1>2. CASE StatusOf(acc, r) # {}
  <2>1. result = Handled(Quiet(acc))
    BY <1>1, <1>2 DEF RecordResponseStatus, Malformed
  <2> QED BY <2>1, QuietSettles
<1>3. CASE StatusOf(acc, r) = {}
  <2>1. PICK items : items = IF outputs = {} THEN acc.items ELSE Bound(acc.items, r, CHOOSE i \in outputs : TRUE)
    OBVIOUS
  <2>2. items \in Bindings
    <3>1. acc.items \in Bindings
      BY DEF Accumulator
    <3>2. CASE outputs # {}
      <4>1. PICK i \in Assistant : i = CHOOSE j \in outputs : TRUE
        BY <3>2
      <4>2. items = Bound(acc.items, r, i)
        BY <2>1, <3>2, <4>1
      <4> QED BY <3>1, <4>2, BoundIsBinding
    <3> QED BY <2>1, <3>1, <3>2
  <2>3. PICK entry \in Status : entry = [response |-> r, status |-> status]
    BY DEF Status
  <2>4. PICK s : s = Append(acc.statuses, entry)
    OBVIOUS
  <2>5. PICK declared \in Declarations : declared = Bound(acc.declared, r, outputs)
    BY BoundIsDeclaration DEF Accumulator
  <2>6. PICK known : known = [acc EXCEPT !.statuses = s, !.declared = declared, !.items = items]
    OBVIOUS
  <2>7. acc.statuses \in Seq(Status) /\ s \in Seq(Status)
    BY <2>3, <2>4, AppendProperties DEF Accumulator
  <2>8. /\ known \in Accumulator /\ known.consumed = acc.consumed /\ known.statuses = s
        /\ known.texts = acc.texts /\ known.done = acc.done /\ known.created = acc.created
        /\ known.heard = acc.heard
    BY <2>2, <2>6, <2>7 DEF Accumulator
  <2>9. CASE status = "completed"
    <3>1. result = Handled(Emitted(known))
      BY <1>1, <1>3, <2>1, <2>3, <2>4, <2>5, <2>6, <2>9 DEF RecordResponseStatus
    <3> QED BY <2>8, <3>1, EmittedSettles
  <2>10. CASE status # "completed"
    <3>1. PICK texts : texts = Restrict(known.texts, DOMAIN known.texts \ {r})
      OBVIOUS
    <3>2. PICK left : left = [known EXCEPT !.texts = texts]
      OBVIOUS
    <3>3. result = Handled(Quiet(left))
      BY <1>1, <1>3, <2>1, <2>3, <2>4, <2>5, <2>6, <2>10, <3>1, <3>2 DEF RecordResponseStatus
    <3>4. /\ texts \in Bindings /\ DOMAIN texts = DOMAIN acc.texts \ {r}
          /\ \A q \in DOMAIN texts : texts[q] = acc.texts[q]
      <4>1. PICK R \in SUBSET Response : acc.texts \in [R -> Assistant]
        BY DEF Accumulator, Bindings
      <4>2. PICK Q \in SUBSET Response : Q = R \ {r}
        OBVIOUS
      <4>3. texts \in [Q -> Assistant] /\ \A q \in Q : texts[q] = acc.texts[q]
        BY <2>8, <3>1, <4>1, <4>2 DEF Restrict
      <4> QED BY <4>1, <4>2, <4>3 DEF Bindings
    <3>5. /\ left \in Accumulator /\ left.consumed = acc.consumed /\ left.statuses = s
          /\ left.texts = texts /\ left.done = acc.done /\ left.created = acc.created
          /\ left.heard = acc.heard
      BY <2>8, <3>2, <3>4 DEF Accumulator
    <3>6. ASSUME NEW q \in Response PROVE Answers(left, q) = {}
      <4>1. CASE q = r
        <5>1. q \notin DOMAIN left.texts
          BY <3>4, <3>5, <4>1
        <5> QED BY <5>1 DEF Answers
      <4>2. CASE q # r
        <5>1. PICK n \in Nat : n = Len(acc.statuses) /\ DOMAIN acc.statuses = 1..n
          BY <2>7
        <5>2. DOMAIN s = 1..n + 1 /\ s[n + 1] = entry /\ \A k \in 1..n : s[k] = acc.statuses[k]
          BY <2>3, <2>4, <2>7, <5>1, AppendProperties
        <5>3. \A k \in 1..n + 1 : k = n + 1 \/ k \in 1..n
          BY <5>1
        <5>4. {j \in DOMAIN s : s[j].response = q} = {j \in DOMAIN acc.statuses : acc.statuses[j].response = q}
          BY <2>3, <4>2, <5>1, <5>2, <5>3
        <5>5. \A k \in {j \in DOMAIN s : s[j].response = q} : s[k] = acc.statuses[k]
          BY <5>1, <5>2, <5>4
        <5>6. StatusOf(left, q) = StatusOf(acc, q)
          BY <3>5, <5>4, <5>5 DEF StatusOf
        <5>7. \A i : LinkedUser(left, i) = LinkedUser(acc, i)
          BY <3>5 DEF LinkedUser
        <5>8. q \in DOMAIN left.texts => q \in DOMAIN acc.texts /\ left.texts[q] = acc.texts[q]
          BY <3>4, <3>5
        <5>9. Answers(acc, q) = {}
          OBVIOUS
        <5> QED BY <3>5, <5>6, <5>7, <5>8, <5>9 DEF Answers
      <4> QED BY <4>1, <4>2
    <3> QED BY <3>3, <3>5, <3>6, QuietSettles
  <2> QED BY <2>9, <2>10
<1> QED BY <1>2, <1>3

-----------------------------------------------------------------------------
(* The queue.                                                              *)

Exchange == [session : 1..MaxSessions, thread : Thread \cup {0}, user : UserItem, assistant : Assistant]

(* The session s of the queued exchange x has used x's item, unless it was *)
(* cleaned up since.                                                       *)
Remembers(s, x) == /\ s.stage # "none" /\ (s.open \/ s.cleaned)
                   /\ s.open => x.user \in s.acc.consumed
QuietAccumulator(acc) == acc \in Accumulator /\ \A r \in Response : Answers(acc, r) = {}
TruePairs(q) == \A k \in DOMAIN q : q[k].user = TrueUser(q[k].assistant)
UsedOnce(q) == \A j, k \in DOMAIN q : q[j].session = q[k].session /\ q[j].user = q[k].user => j = k
PairsInv ==
    /\ \A g \in 1..MaxSessions : QuietAccumulator(session[g].acc)
    /\ \E n \in 0..MaxSessions : \A g \in 1..MaxSessions : session[g].stage # "none" <=> g <= n
    /\ queue \in Seq(Exchange) /\ TruePairs(queue) /\ UsedOnce(queue)
    /\ \A k \in DOMAIN queue : Remembers(session[queue[k].session], queue[k])

(* The session g changes, and the queue's exchanges stay remembered.       *)
Gentle(g) == \E t : /\ session' = [session EXCEPT ![g] = t]
                    /\ t.stage # "none" /\ QuietAccumulator(t.acc)
                    /\ \A x : Remembers(session[g], x) => Remembers(t, x)

LEMMA TailKept ==
    ASSUME NEW q \in Seq(Exchange), TruePairs(q), UsedOnce(q), q # <<>>,
           NEW t, t = Tail(q)
    PROVE  /\ t \in Seq(Exchange) /\ TruePairs(t) /\ UsedOnce(t)
           /\ \A k \in DOMAIN t : \E j \in DOMAIN q : t[k] = q[j]
<1>1. PICK n \in Nat : n = Len(t) /\ DOMAIN t = 1..n /\ DOMAIN q = 1..n + 1
  BY HeadTailProperties
<1>2. t \in Seq(Exchange) /\ \A k \in 1..n : t[k] = q[k + 1] /\ k + 1 \in 1..n + 1
  BY <1>1, HeadTailProperties
<1>3. \A j, k \in 1..n : j + 1 = k + 1 => j = k
  OBVIOUS
<1>4. UsedOnce(t)
  BY <1>1, <1>2, <1>3 DEF UsedOnce
<1> QED BY <1>1, <1>2, <1>4 DEF TruePairs

LEMMA GentlyKept ==
    ASSUME ActiveInv, PairsInv, NEW g \in StartedSessions, Gentle(g),
           queue' = queue \/ (queue # <<>> /\ queue' = Tail(queue))
    PROVE  PairsInv'
<1>1. PICK t : /\ session' = [session EXCEPT ![g] = t]
               /\ t.stage # "none" /\ QuietAccumulator(t.acc)
               /\ \A x : Remembers(session[g], x) => Remembers(t, x)
  BY DEF Gentle
<1>2. DOMAIN session = 1..MaxSessions /\ g \in 1..MaxSessions /\ session[g].stage # "none"
  BY DEF ActiveInv, Orderly, StartedSessions
<1>3. session'[g] = t /\ \A h \in 1..MaxSessions : h # g => session'[h] = session[h]
  BY <1>1, <1>2
<1>4. \A h \in 1..MaxSessions : (session'[h].stage # "none" <=> session[h].stage # "none")
  BY <1>1, <1>2, <1>3
<1>5. /\ queue' \in Seq(Exchange) /\ TruePairs(queue') /\ UsedOnce(queue')
      /\ \A k \in DOMAIN queue' : \E j \in DOMAIN queue : queue'[k] = queue[j]
  BY TailKept DEF PairsInv
<1>6. ASSUME NEW k \in DOMAIN queue' PROVE Remembers(session'[queue'[k].session], queue'[k])
  <2>1. PICK j \in DOMAIN queue : queue'[k] = queue[j]
    BY <1>5
  <2>2. queue[j] \in Exchange /\ Remembers(session[queue[j].session], queue[j])
    BY DEF PairsInv
  <2>3. queue[j].session \in 1..MaxSessions
    BY <2>2 DEF Exchange
  <2> QED BY <1>1, <1>3, <2>1, <2>2, <2>3
<1>7. \A h \in 1..MaxSessions : QuietAccumulator(session'[h].acc)
  BY <1>1, <1>3 DEF PairsInv
<1>8. \E n \in 0..MaxSessions : \A h \in 1..MaxSessions : session'[h].stage # "none" <=> h <= n
  BY <1>4 DEF PairsInv
<1>9. TruePairs(queue)' /\ UsedOnce(queue)'
  BY <1>5 DEF TruePairs, UsedOnce, TrueUser
<1>10. \A h \in 1..MaxSessions : QuietAccumulator(session[h].acc)'
  BY <1>7 DEF QuietAccumulator, Answers, StatusOf, LinkedUser
<1>11. \A k \in DOMAIN queue' : Remembers(session[queue[k].session], queue[k])'
  BY <1>6 DEF Remembers
<1> QED BY <1>5, <1>8, <1>9, <1>10, <1>11 DEF PairsInv

LEMMA SessionsKept ==
    ASSUME ActiveInv, PairsInv, session' = session, queue' = queue \/ (queue # <<>> /\ queue' = Tail(queue))
    PROVE  PairsInv'
<1>1. /\ queue' \in Seq(Exchange) /\ TruePairs(queue') /\ UsedOnce(queue')
      /\ \A k \in DOMAIN queue' : \E j \in DOMAIN queue : queue'[k] = queue[j]
  BY TailKept DEF PairsInv
<1>2. \A k \in DOMAIN queue' : Remembers(session[queue'[k].session], queue'[k])
  BY <1>1 DEF PairsInv
<1>3. TruePairs(queue)' /\ UsedOnce(queue)'
  BY <1>1 DEF TruePairs, UsedOnce, TrueUser
<1>4. \A h \in 1..MaxSessions : QuietAccumulator(session[h].acc)'
  <2>1. \A h \in 1..MaxSessions : QuietAccumulator(session'[h].acc)
    BY DEF PairsInv
  <2> QED BY <2>1 DEF QuietAccumulator, Answers, StatusOf, LinkedUser
<1>5. \A k \in DOMAIN queue' : Remembers(session[queue[k].session], queue[k])'
  BY <1>2 DEF Remembers
<1> QED BY <1>1, <1>3, <1>4, <1>5 DEF PairsInv

(* Cleaning up is gentle, and so is a step of the start.                   *)
LEMMA ReleaseIsGentle ==
    ASSUME ActiveInv, NEW g \in StartedSessions, NEW s, Known(s), s.stage # "none",
           session' = [session EXCEPT ![g] = Released(s)]
    PROVE  Gentle(g)
<1>1. PICK t : t = Released(s)
  OBVIOUS
<1>2. t.stage # "none" /\ t.cleaned /\ ~t.open /\ t.acc = Empty
  BY <1>1, ReleasedIsQuiet
<1> QED BY <1>1, <1>2, EmptyIsQuiet DEF Gentle, Remembers, QuietAccumulator

LEMMA StageIsGentle ==
    ASSUME ActiveInv, PairsInv, NEW g \in StartedSessions, NEW stage \in Stages \ {"none"}, session' = Stage(g, stage)
    PROVE  Gentle(g)
<1>1. PICK t : t = [session[g] EXCEPT !.stage = stage]
  OBVIOUS
<1>2. session' = [session EXCEPT ![g] = t] /\ Known(session[g]) /\ g \in 1..MaxSessions
  BY <1>1, ActiveSession, StagedOrderly
<1>3. /\ t.stage = stage /\ t.acc = session[g].acc
      /\ (t.cleaned <=> session[g].cleaned) /\ (t.open <=> session[g].open)
  BY <1>1, <1>2, Staged
<1>4. QuietAccumulator(t.acc)
  BY <1>2, <1>3 DEF PairsInv
<1>5. \A x : Remembers(session[g], x) => Remembers(t, x)
  BY <1>3 DEF Remembers
<1>6. t.stage # "none"
  BY <1>3
<1> QED BY <1>2, <1>4, <1>5, <1>6 DEF Gentle

LEMMA StageFailsGently ==
    ASSUME ActiveInv, NEW g \in StartedSessions, NEW stage \in Stages \ {"none"}, Fail(Stage(g, stage), g)
    PROVE  Gentle(g)
<1>1. PICK s : s = [session[g] EXCEPT !.stage = stage]
  OBVIOUS
<1>2. Stage(g, stage) = [session EXCEPT ![g] = s] /\ Known(session[g])
  BY <1>1, ActiveSession, StagedOrderly
<1>3. Known(s) /\ s.stage # "none"
  BY <1>1, <1>2, Staged
<1>4. DOMAIN session = 1..MaxSessions /\ g \in 1..MaxSessions
  BY DEF ActiveInv, Orderly, StartedSessions
<1>5. session' = [session EXCEPT ![g] = Released(s)]
  <2>1. session' = [Stage(g, stage) EXCEPT ![g] = Released(@)]
    BY DEF Fail, Cleanup
  <2> HIDE DEF Released
  <2> QED BY <1>2, <1>4, <2>1
<1> QED BY <1>3, <1>5, ReleaseIsGentle

LEMMA FailsGently ==
    ASSUME ActiveInv, NEW g \in StartedSessions, Cleanup(session, g) PROVE Gentle(g)
<1>1. Known(session[g]) /\ session[g].stage # "none"
  BY ActiveSession
<1>2. session' = [session EXCEPT ![g] = Released(session[g])]
  BY DEF Cleanup
<1> QED BY <1>1, <1>2, ReleaseIsGentle

-----------------------------------------------------------------------------
(* The actions, one after the other: what is active.                       *)

LEMMA HookKept ==
    ASSUME ActiveInv, UNCHANGED <<session, active, thread>>, speech' \in {0, active},
           hook' \in Hook, hook'.active = hook.active
    PROVE  ActiveInv'
BY DEF ActiveInv, Orderly, Known, SessionWith, OnlyActive

LEMMA ActiveFails ==
    ASSUME ActiveInv, NEW g \in StartedSessions, IsActive(g), Fail(session, g), UNCHANGED thread
    PROVE  ActiveInv'
<1>1. active = g /\ hook.active = TRUE /\ g \in 1..MaxSessions /\ Orderly(session, active, speech, hook.active)
  BY ActiveSession
<1>2. Orderly(session, active, speech, TRUE) /\ thread \in Thread \cup {0}
  BY <1>1 DEF ActiveInv
<1> QED BY <1>1, <1>2, FailsOrderly

(* What has a deadline, a microphone or an open channel is active.         *)
LEMMA HoldsActive ==
    ASSUME ActiveInv, NEW g \in StartedSessions,
           session[g].deadline \/ session[g].microphone \/ session[g].open
    PROVE  IsActive(g)
BY ActiveSession DEF OnlyActive

LEMMA AcceptOrderly ==
    ASSUME ActiveInv, NEW g \in StartedSessions, NEW result, Accept(g, result) PROVE ActiveInv'
<1>1. IsActive(g) /\ UNCHANGED thread
  BY HoldsActive DEF Accept
<1>2. CASE result.malformed
  BY <1>1, <1>2, ActiveFails DEF Accept
<1>3. CASE ~result.malformed
  <2>1. /\ g \in 1..MaxSessions /\ Known(session[g]) /\ session[g].stage # "none"
        /\ Orderly(session, active, speech, hook.active) /\ OnlyActive(session[g], g, active, hook.active)
    BY ActiveSession
  <2>2. PICK t : t = [session[g] EXCEPT !.acc = result.acc]
    OBVIOUS
  <2>3. session' = [session EXCEPT ![g] = t] /\ UNCHANGED <<active, speech, hook>>
    <3>1. session' = [session EXCEPT ![g].acc = result.acc] /\ UNCHANGED <<active, speech, hook>>
      BY <1>3 DEF Accept, Keeps
    <3> QED BY <2>2, <3>1
  <2>4. /\ Known(t) /\ t.stage = session[g].stage
        /\ (t.cleaned <=> session[g].cleaned) /\ (t.microphone <=> session[g].microphone)
        /\ (t.deadline <=> session[g].deadline) /\ (t.open <=> session[g].open)
    BY <2>1, <2>2, Accumulated
  <2>5. OnlyActive(t, g, active, hook.active)
    BY <2>1, <2>4 DEF OnlyActive
  <2>6. PICK new : new = [session EXCEPT ![g] = t]
    OBVIOUS
  <2>7. Orderly(new, active, speech, hook.active)
    BY <2>1, <2>4, <2>5, <2>6, Replaced
  <2> QED BY <1>1, <2>3, <2>6, <2>7, KeepsOrderly
<1> QED BY <1>2, <1>3

LEMMA HeadStarted ==
    ASSUME PairsInv, queue # <<>> PROVE Head(queue).session \in StartedSessions
<1>1. queue \in Seq(Exchange)
  BY DEF PairsInv
<1>2. 1 \in DOMAIN queue /\ Head(queue) = queue[1] /\ queue[1] \in Exchange
  BY <1>1
<1>3. queue[1].session \in 1..MaxSessions
  BY <1>2 DEF Exchange
<1> QED BY <1>2, <1>3 DEF PairsInv, Remembers, StartedSessions

LEMMA SaveFailsOrderly ==
    ASSUME ActiveInv, NEW g \in StartedSessions, SaveFails(g), UNCHANGED thread PROVE ActiveInv'
<1>1. CASE IsActive(g)
  BY <1>1, ActiveFails DEF SaveFails
<1>2. CASE ~IsActive(g)
  <2>1. hook' = [hook EXCEPT !.error = TRUE] /\ UNCHANGED <<session, active, speech>>
    BY <1>2 DEF SaveFails
  <2>2. hook \in Hook /\ speech \in {0, active}
    BY DEF ActiveInv, Orderly
  <2>3. hook' \in Hook /\ hook'.active = hook.active
    BY <2>1, <2>2 DEF Hook
  <2> QED BY <2>1, <2>2, <2>3, HookKept
<1> QED BY <1>1, <1>2

LEMMA SpeakOrderly ==
    ASSUME ActiveInv, NEW g \in StartedSessions, NEW speaks \in BOOLEAN, Speak(g, speaks), UNCHANGED thread
    PROVE  ActiveInv'
<1>1. hook \in Hook /\ speech \in {0, active}
  BY DEF ActiveInv, Orderly
<1>2. CASE IsActive(g) /\ ~speaks
  BY <1>2, ActiveFails DEF Speak
<1>3. CASE ~(IsActive(g) /\ ~speaks)
  <2>1. UNCHANGED <<session, active, hook>> /\ speech' \in {0, active}
    BY <1>1, <1>3 DEF Speak, IsActive
  <2> QED BY <1>1, <2>1, HookKept
<1> QED BY <1>2, <1>3

LEMMA SaveBeginsOrderly ==
    ASSUME ActiveInv, PairsInv, SaveBegins PROVE ActiveInv'
<1>1. Head(queue).session \in StartedSessions
  BY HeadStarted DEF SaveBegins
<1>2. CASE Head(queue).thread = thread
  <2>1. UNCHANGED <<session, active, speech, hook, thread>>
    BY <1>2 DEF SaveBegins
  <2>2. hook \in Hook /\ speech \in {0, active}
    BY DEF ActiveInv, Orderly
  <2> QED BY <2>1, <2>2, HookKept
<1>3. CASE Head(queue).thread # thread
  BY <1>1, <1>3, SaveFailsOrderly DEF SaveBegins
<1> QED BY <1>2, <1>3

LEMMA SaveEndsOrderly ==
    ASSUME ActiveInv, PairsInv, queue # <<>>, NEW ok \in BOOLEAN, NEW speaks \in BOOLEAN, SaveEnds(ok, speaks)
    PROVE  ActiveInv'
<1>1. Head(queue).session \in StartedSessions
  BY HeadStarted
<1> QED BY <1>1, SaveFailsOrderly, SpeakOrderly DEF SaveEnds

(* An active session is a started one, and then the hook is active.        *)
LEMMA ActiveStarted ==
    ASSUME ActiveInv, active # 0 PROVE active \in StartedSessions /\ hook.active = TRUE
BY DEF ActiveInv, Orderly, StartedSessions, Hook

LEMMA StopOrderly ==
    ASSUME ActiveInv, NEW error \in BOOLEAN, StopController(error) PROVE ActiveInv'
<1>1. hook' = IdleHook(error) /\ thread' = thread /\ thread \in Thread \cup {0}
  BY DEF StopController, ActiveInv
<1>2. hook' \in Hook /\ hook'.active = FALSE
  BY <1>1 DEF IdleHook, Hook
<1>3. Orderly(session', active', speech', FALSE)
  <2>1. CASE active # 0
    <3>1. active \in 1..MaxSessions /\ hook.active = TRUE
      BY <2>1, ActiveStarted DEF StartedSessions
    <3>2. Cleanup(session, active) /\ Orderly(session, active, speech, hook.active)
      BY <2>1, <3>1 DEF StopController, ActiveInv
    <3> QED BY <3>1, <3>2, CleanedAway
  <2>2. CASE active = 0
    <3>1. UNCHANGED <<session, active, speech>>
      BY <2>2 DEF StopController
    <3>2. ASSUME NEW h \in 1..MaxSessions PROVE Known(session[h]) /\ OnlyActive(session[h], h, 0, FALSE)
      <4>1. Known(session[h]) /\ OnlyActive(session[h], h, 0, hook.active) /\ h # 0
        BY <2>2 DEF ActiveInv, Orderly
      <4> QED BY <4>1 DEF OnlyActive
    <3> QED BY <2>2, <3>1, <3>2 DEF ActiveInv, Orderly
  <2> QED BY <2>1, <2>2
<1> QED BY <1>1, <1>2, <1>3 DEF ActiveInv, Orderly, Known, SessionWith, OnlyActive

LEMMA ThreadOrderly ==
    ASSUME ActiveInv, NEW t \in Thread \cup {0}, ThreadChanges(t) PROVE ActiveInv'
BY DEF ThreadChanges, ActiveInv, Orderly, Known, SessionWith, OnlyActive

LEMMA SpeechEndsOrderly ==
    ASSUME ActiveInv, SpeechEnds PROVE ActiveInv'
<1>1. hook \in Hook /\ UNCHANGED <<session, active, thread, hook>> /\ speech' \in {0, active}
  BY DEF ActiveInv, SpeechEnds
<1> QED BY <1>1, HookKept

-----------------------------------------------------------------------------
(* The actions, one after the other: the pairs.                            *)

LEMMA StartPairs ==
    ASSUME RealtimeVoiceAssumption, ActiveInv, PairsInv, Start PROVE PairsInv'
<1>1. MaxSessions \in Nat
  BY DEF RealtimeVoiceAssumption
<1>2. PICK n \in 0..MaxSessions : \A g \in 1..MaxSessions : session[g].stage # "none" <=> g <= n
  BY DEF PairsInv
<1>3. Cardinality(StartedSessions) = n
  <2>1. StartedSessions = 1..n /\ n \in Nat
    BY <1>1, <1>2 DEF StartedSessions
  <2>2. Cardinality(1..n) = n
    <3>1. 1 \in Int /\ n \in Int
      BY <2>1
    <3>2. Cardinality(1..n) = IF 1 > n THEN 0 ELSE n - 1 + 1
      BY <3>1, FS_Interval
    <3> QED BY <2>1, <3>2
  <2> QED BY <2>1, <2>2
<1>4. PICK g : g = n + 1
  OBVIOUS
<1>5. g \in 1..MaxSessions /\ session[g].stage = "none"
  <2>1. n < MaxSessions /\ ~(n + 1 <= n)
    BY <1>2, <1>3 DEF Start
  <2>2. g \in 1..MaxSessions
    BY <1>1, <1>4, <2>1
  <2> QED BY <1>2, <1>4, <2>1, <2>2
<1>6. PICK t : t = [NoSession EXCEPT !.stage = "credential", !.deadline = TRUE, !.thread = thread]
  OBVIOUS
<1>7. t.stage = "credential" /\ t.acc = Empty
  BY <1>6, NewSession DEF ActiveInv
<1>8. active = 0 /\ DOMAIN session = 1..MaxSessions
  BY DEF Start, ActiveInv, Orderly
<1>9. session' = [session EXCEPT ![g] = t] /\ queue' = queue
  BY <1>3, <1>4, <1>6, <1>8 DEF Start
<1>10. session'[g] = t /\ \A h \in 1..MaxSessions : h # g => session'[h] = session[h]
  BY <1>5, <1>8, <1>9
<1>11. g \in 0..MaxSessions /\ \A h \in 1..MaxSessions : session'[h].stage # "none" <=> h <= g
  <2>1. ASSUME NEW h \in 1..MaxSessions PROVE session'[h].stage # "none" <=> h <= g
    <3>1. CASE h = g
      BY <1>1, <1>5, <1>7, <1>10, <3>1
    <3>2. CASE h # g
      <4>1. h <= n <=> h <= g
        BY <1>1, <1>4, <3>2
      <4> QED BY <1>2, <1>10, <3>2, <4>1
    <3> QED BY <3>1, <3>2
  <2> QED BY <1>1, <1>5, <2>1
<1>12. \A h \in 1..MaxSessions : QuietAccumulator(session'[h].acc)
  BY <1>7, <1>10, EmptyIsQuiet DEF PairsInv, QuietAccumulator
<1>13. ASSUME NEW k \in DOMAIN queue PROVE Remembers(session'[queue[k].session], queue[k])
  <2>1. queue[k] \in Exchange /\ Remembers(session[queue[k].session], queue[k])
    BY DEF PairsInv
  <2>2. queue[k].session \in 1..MaxSessions
    BY <2>1 DEF Exchange
  <2>3. queue[k].session # g
    BY <1>5, <2>1 DEF Remembers
  <2> QED BY <1>10, <2>1, <2>2, <2>3
<1>14. /\ queue' \in Seq(Exchange) /\ TruePairs(queue)' /\ UsedOnce(queue)'
  BY <1>9 DEF PairsInv, TruePairs, UsedOnce, TrueUser
<1>15. \A h \in 1..MaxSessions : QuietAccumulator(session[h].acc)'
  BY <1>12 DEF QuietAccumulator, Answers, StatusOf, LinkedUser
<1>16. \A k \in DOMAIN queue' : Remembers(session[queue[k].session], queue[k])'
  BY <1>9, <1>13 DEF Remembers
<1> QED BY <1>11, <1>14, <1>15, <1>16 DEF PairsInv

LEMMA FailsKept ==
    ASSUME ActiveInv, PairsInv, NEW g \in StartedSessions, Cleanup(session, g),
           queue' = queue \/ (queue # <<>> /\ queue' = Tail(queue))
    PROVE  PairsInv'
BY FailsGently, GentlyKept

LEMMA StageKept ==
    ASSUME ActiveInv, PairsInv, NEW g \in StartedSessions, NEW stage \in Stages \ {"none"},
           session' = Stage(g, stage) \/ Fail(Stage(g, stage), g), queue' = queue
    PROVE  PairsInv'
BY StageIsGentle, StageFailsGently, GentlyKept

LEMMA CredentialPairs ==
    ASSUME ActiveInv, PairsInv, NEW g \in StartedSessions, NEW ok \in BOOLEAN, Credential(g, ok) PROVE PairsInv'
<1>1. {"microphone", "settled"} \subseteq Stages \ {"none"}
  BY DEF Stages
<1>2. PICK stage \in {"microphone", "settled"} : session' = Stage(g, stage) \/ Fail(Stage(g, stage), g)
  BY DEF Credential
<1>3. queue' = queue
  BY DEF Credential
<1> QED BY <1>1, <1>2, <1>3, StageKept

LEMMA JoinedPairs ==
    ASSUME ActiveInv, PairsInv, NEW g \in StartedSessions, NEW ok \in BOOLEAN, Joined(g, ok) PROVE PairsInv'
<1>1. "settled" \in Stages \ {"none"}
  BY DEF Stages
<1>2. session' = Stage(g, "settled") \/ Fail(Stage(g, "settled"), g)
  BY DEF Joined
<1>3. queue' = queue
  BY DEF Joined
<1> QED BY <1>1, <1>2, <1>3, StageKept

LEMMA MicrophonePairs ==
    ASSUME ActiveInv, PairsInv, NEW g \in StartedSessions, NEW ok \in BOOLEAN, Microphone(g, ok) PROVE PairsInv'
<1>1. "settled" \in Stages \ {"none"} /\ queue' = queue
  BY DEF Stages, Microphone
<1>2. CASE ~(ok /\ IsActive(g))
  <2>1. session' = Stage(g, "settled") \/ Fail(Stage(g, "settled"), g)
    BY <1>2 DEF Microphone
  <2> QED BY <1>1, <2>1, StageKept
<1>3. CASE ok /\ IsActive(g)
  <2>1. PICK t : t = [session[g] EXCEPT !.stage = "joining", !.microphone = TRUE]
    OBVIOUS
  <2>2. DOMAIN session = 1..MaxSessions /\ Known(session[g]) /\ g \in 1..MaxSessions
    BY ActiveSession DEF Orderly
  <2>3. session' = [session EXCEPT ![g] = t]
    <3>1. session' = [Stage(g, "joining") EXCEPT ![g].microphone = TRUE]
      BY <1>3 DEF Microphone
    <3> QED BY <2>1, <2>2, <3>1 DEF Stage
  <2>4. /\ t.stage = "joining" /\ t.acc = session[g].acc
        /\ (t.cleaned <=> session[g].cleaned) /\ (t.open <=> session[g].open)
    <3>1. PICK s : s = session[g]
      OBVIOUS
    <3>2. Known(s) /\ t = [s EXCEPT !.stage = "joining", !.microphone = TRUE]
      BY <2>1, <2>2, <3>1
    <3>3. t.stage = "joining" /\ t.acc = s.acc /\ (t.cleaned <=> s.cleaned) /\ (t.open <=> s.open)
      BY <3>2, ConnectedStill, Zenon
    <3> QED BY <3>1, <3>3, Zenon
  <2>5. QuietAccumulator(t.acc)
    BY <2>2, <2>4 DEF PairsInv
  <2>6. \A x : Remembers(session[g], x) => Remembers(t, x)
    BY <2>4 DEF Remembers
  <2>7. t.stage # "none"
    BY <2>4
  <2>8. Gentle(g)
    BY <2>3, <2>5, <2>6, <2>7 DEF Gentle
  <2> QED BY <1>1, <2>8, GentlyKept
<1> QED BY <1>2, <1>3

LEMMA OpensPairs ==
    ASSUME ActiveInv, PairsInv, NEW g \in StartedSessions, NEW sends \in BOOLEAN, ChannelOpens(g, sends) PROVE PairsInv'
<1>1. ~session[g].cleaned /\ ~session[g].open /\ queue' = queue
  BY DEF ChannelOpens, Listening
<1>2. DOMAIN session = 1..MaxSessions /\ Known(session[g]) /\ g \in 1..MaxSessions /\ session[g].stage # "none"
  BY ActiveSession DEF Orderly
<1>3. PICK t : t = [session[g] EXCEPT !.open = TRUE, !.deadline = FALSE]
  OBVIOUS
<1>4. PICK opened : opened = [session EXCEPT ![g] = t]
  OBVIOUS
<1>5. [session EXCEPT ![g].open = TRUE, ![g].deadline = FALSE] = opened
  BY <1>2, <1>3, <1>4
<1>6. t.stage # "none" /\ t.acc = session[g].acc /\ Known(t)
  BY <1>2, <1>3, OpenedChannel
<1>7. CASE sends
  <2>1. session' = [session EXCEPT ![g] = t]
    BY <1>4, <1>5, <1>7 DEF ChannelOpens
  <2>2. QuietAccumulator(t.acc)
    BY <1>2, <1>6 DEF PairsInv
  <2>3. \A x : ~Remembers(session[g], x)
    BY <1>1 DEF Remembers
  <2>4. Gentle(g)
    BY <1>6, <2>1, <2>2, <2>3 DEF Gentle
  <2> QED BY <1>1, <2>4, GentlyKept
<1>8. CASE ~sends
  <2>1. session' = [opened EXCEPT ![g] = Released(@)]
    BY <1>5, <1>8 DEF ChannelOpens, Fail, Cleanup
  <2>2. session' = [session EXCEPT ![g] = Released(t)]
    BY <1>2, <1>4, <2>1
  <2>3. Gentle(g)
    BY <1>6, <2>2, ReleaseIsGentle
  <2> QED BY <1>1, <2>3, GentlyKept
<1> QED BY <1>7, <1>8

LEMMA SaveFailsPairs ==
    ASSUME ActiveInv, PairsInv, NEW g \in StartedSessions, SaveFails(g), queue # <<>>, queue' = Tail(queue)
    PROVE  PairsInv'
<1>1. CASE IsActive(g)
  BY <1>1, FailsKept DEF SaveFails, Fail
<1>2. CASE ~IsActive(g)
  BY <1>2, SessionsKept DEF SaveFails
<1> QED BY <1>1, <1>2

LEMMA SaveBeginsPairs ==
    ASSUME ActiveInv, PairsInv, SaveBegins PROVE PairsInv'
<1>1. Head(queue).session \in StartedSessions /\ queue # <<>>
  BY HeadStarted DEF SaveBegins
<1>2. CASE Head(queue).thread = thread
  BY <1>2, SessionsKept DEF SaveBegins
<1>3. CASE Head(queue).thread # thread
  BY <1>1, <1>3, SaveFailsPairs DEF SaveBegins
<1> QED BY <1>2, <1>3

LEMMA SaveEndsPairs ==
    ASSUME ActiveInv, PairsInv, queue # <<>>, NEW ok \in BOOLEAN, NEW speaks \in BOOLEAN, SaveEnds(ok, speaks)
    PROVE  PairsInv'
<1>1. Head(queue).session \in StartedSessions /\ queue' = Tail(queue)
  BY HeadStarted DEF SaveEnds
<1>2. CASE ~ok
  BY <1>1, <1>2, SaveFailsPairs DEF SaveEnds
<1>3. CASE ok
  <2>1. Speak(Head(queue).session, speaks)
    BY <1>3 DEF SaveEnds
  <2>2. CASE session' = session
    BY <1>1, <2>2, SessionsKept
  <2>3. CASE Fail(session, Head(queue).session)
    BY <1>1, <2>3, FailsKept DEF Fail
  <2> QED BY <2>1, <2>2, <2>3 DEF Speak
<1> QED BY <1>2, <1>3

LEMMA StopPairs ==
    ASSUME ActiveInv, PairsInv, NEW error, StopController(error) PROVE PairsInv'
<1>1. queue' = queue
  BY DEF StopController
<1>2. CASE hook.active /\ active # 0
  <2>1. active \in StartedSessions /\ Cleanup(session, active)
    BY <1>2, ActiveStarted DEF StopController
  <2> QED BY <1>1, <2>1, FailsKept
<1>3. CASE ~(hook.active /\ active # 0)
  <2>1. session' = session
    BY <1>3 DEF StopController
  <2> QED BY <1>1, <2>1, SessionsKept
<1> QED BY <1>2, <1>3

(* The exchanges a message completes join the queue.                       *)
LEMMA AcceptPairs ==
    ASSUME ActiveInv, PairsInv, NEW g \in StartedSessions, NEW result, Accept(g, result),
           result.malformed \/ Settled(result, session[g].acc)
    PROVE  PairsInv' /\ (queue # <<>> => queue' # <<>>)
<1>1. CASE result.malformed
  BY <1>1, FailsKept DEF Accept, Fail
<1>2. CASE ~result.malformed
  <2>1. PICK q : q = Exchanges(g, result.pairs)
    OBVIOUS
  <2>2. session[g].open /\ session' = [session EXCEPT ![g].acc = result.acc] /\ queue' = queue \o q
    BY <1>2, <2>1 DEF Accept
  <2>3. Settled(result, session[g].acc)
    BY <1>2
  <2>4. DOMAIN session = 1..MaxSessions /\ Known(session[g]) /\ g \in 1..MaxSessions /\ session[g].stage # "none"
    BY ActiveSession DEF Orderly
  <2>5. PICK t : t = [session[g] EXCEPT !.acc = result.acc]
    OBVIOUS
  <2>6. t.stage = session[g].stage /\ t.acc = result.acc /\ t.open
    BY <2>2, <2>4, <2>5, Accumulated
  <2>7. session' = [session EXCEPT ![g] = t]
    BY <2>2, <2>5
  <2>8. session'[g] = t /\ \A h \in 1..MaxSessions : h # g => session'[h] = session[h]
    BY <2>4, <2>7
  <2>9. PICK m \in Nat : m = Len(result.pairs) /\ DOMAIN result.pairs = 1..m /\ \A k \in 1..m : result.pairs[k] \in Turn
    BY <2>3 DEF Settled
  <2>10. \A k \in 1..m : result.pairs[k].user \in UserItem /\ result.pairs[k].assistant \in Assistant
    BY <2>9 DEF Turn
  <2>11. session[g].thread \in Thread \cup {0}
    BY <2>4 DEF Known, SessionWith
  <2>12. /\ q \in Seq(Exchange) /\ Len(q) = m /\ DOMAIN q = 1..m
         /\ \A k \in 1..m : q[k].session = g /\ q[k].user = result.pairs[k].user
                            /\ q[k].assistant = result.pairs[k].assistant
    <3>1. q = [k \in 1..m |-> [session |-> g, thread |-> session[g].thread,
                               user |-> result.pairs[k].user, assistant |-> result.pairs[k].assistant]]
      BY <2>1, <2>9 DEF Exchanges
    <3>2. q \in [1..m -> Exchange]
      BY <2>4, <2>10, <2>11, <3>1 DEF Exchange
    <3>3. q \in Seq(Exchange) /\ Len(q) = m
      BY <2>9, <3>2
    <3> QED BY <3>1, <3>3
  <2>13. PICK n \in Nat : n = Len(queue) /\ DOMAIN queue = 1..n /\ queue \in Seq(Exchange)
    BY DEF PairsInv
  <2>14. PICK w : w = queue \o q
    OBVIOUS
  <2>15. /\ w \in Seq(Exchange) /\ DOMAIN w = 1..n + m
         /\ \A k \in 1..n : w[k] = queue[k]
         /\ \A k \in 1..n + m : k \notin 1..n => k - n \in 1..m /\ w[k] = q[k - n]
    <3>1. w \in Seq(Exchange) /\ Len(w) = n + m
      BY <2>12, <2>13, <2>14, ConcatProperties
    <3>2. DOMAIN w = 1..n + m
      BY <2>13, <2>9, <3>1
    <3>3. \A k \in 1..n + m : w[k] = IF k <= n THEN queue[k] ELSE q[k - n]
      BY <2>12, <2>13, <2>14, <2>9, ConcatProperties
    <3>4. \A k \in 1..n + m : k \notin 1..n => ~(k <= n) /\ k - n \in 1..m
      BY <2>9, <2>13
    <3>5. \A k \in 1..n : k <= n /\ k \in 1..n + m
      BY <2>9, <2>13
    <3> QED BY <3>1, <3>2, <3>3, <3>4, <3>5
  <2>16. \A k \in 1..n : /\ w[k].user = TrueUser(w[k].assistant) /\ queue[k] \in Exchange
                         /\ Remembers(session[w[k].session], w[k])
    BY <2>13, <2>15 DEF PairsInv, TruePairs
  <2>17. \A k \in 1..m : /\ q[k].user = TrueUser(q[k].assistant)
                         /\ q[k].user \in result.acc.consumed \ session[g].acc.consumed
    BY <2>3, <2>9, <2>12 DEF Settled, NewPairs
  <2>18. \A j, k \in 1..m : q[j].user = q[k].user => j = k
    BY <2>3, <2>9, <2>12 DEF Settled, NewPairs
  <2>19. TruePairs(w)
    BY <2>15, <2>16, <2>17 DEF TruePairs
  (* An exchange of the session that waits has used its item already.      *)
  <2>20. \A k \in 1..n : w[k].session = g => w[k].user \in session[g].acc.consumed
    BY <2>2, <2>16 DEF Remembers
  <2>21. UsedOnce(w)
    <3>1. ASSUME NEW j \in 1..n + m, NEW k \in 1..n + m, w[j].session = w[k].session, w[j].user = w[k].user
          PROVE  j = k
      <4>1. CASE j \in 1..n /\ k \in 1..n
        BY <2>13, <2>15, <3>1, <4>1 DEF PairsInv, UsedOnce
      <4>2. CASE j \in 1..n /\ k \notin 1..n
        BY <2>12, <2>15, <2>17, <2>20, <3>1, <4>2
      <4>3. CASE j \notin 1..n /\ k \in 1..n
        BY <2>12, <2>15, <2>17, <2>20, <3>1, <4>3
      <4>4. CASE j \notin 1..n /\ k \notin 1..n
        <5>1. j - n \in 1..m /\ k - n \in 1..m /\ q[j - n].user = q[k - n].user
          BY <2>15, <3>1, <4>4
        <5>2. j - n = k - n
          BY <2>18, <5>1
        <5> QED BY <2>9, <2>13, <5>2
      <4> QED BY <4>1, <4>2, <4>3, <4>4
    <3> QED BY <2>15, <3>1 DEF UsedOnce
  <2>22. ASSUME NEW k \in 1..n + m PROVE Remembers(session'[w[k].session], w[k])
    <3>1. CASE k \in 1..n
      <4>1. Remembers(session[w[k].session], w[k]) /\ w[k].session \in 1..MaxSessions
        BY <2>15, <2>16, <3>1 DEF Exchange
      <4>2. CASE w[k].session = g
        <5>1. w[k].user \in result.acc.consumed
          BY <2>3, <2>20, <3>1, <4>2 DEF Settled
        <5> QED BY <2>4, <2>6, <2>8, <4>2, <5>1 DEF Remembers
      <4>3. CASE w[k].session # g
        BY <2>8, <4>1, <4>3
      <4> QED BY <4>2, <4>3
    <3>2. CASE k \notin 1..n
      <4>1. w[k].session = g /\ w[k].user \in result.acc.consumed
        BY <2>12, <2>15, <2>17, <3>2
      <4> QED BY <2>4, <2>6, <2>8, <4>1 DEF Remembers
    <3> QED BY <3>1, <3>2
  <2>23. QuietAccumulator(t.acc)
    BY <2>3, <2>6 DEF Settled, QuietAccumulator
  <2>24. \A h \in 1..MaxSessions : QuietAccumulator(session'[h].acc)
    BY <2>8, <2>23 DEF PairsInv
  <2>25. \A h \in 1..MaxSessions : (session'[h].stage # "none" <=> session[h].stage # "none")
    BY <2>4, <2>6, <2>8
  <2>26. \E i \in 0..MaxSessions : \A h \in 1..MaxSessions : session'[h].stage # "none" <=> h <= i
    BY <2>25 DEF PairsInv
  <2>27. queue' = w
    BY <2>2, <2>14
  <2>28. TruePairs(queue)' /\ UsedOnce(queue)'
    BY <2>19, <2>21, <2>27 DEF TruePairs, UsedOnce, TrueUser
  <2>29. \A h \in 1..MaxSessions : QuietAccumulator(session[h].acc)'
    BY <2>24 DEF QuietAccumulator, Answers, StatusOf, LinkedUser
  <2>30. \A k \in DOMAIN queue' : Remembers(session[queue[k].session], queue[k])'
    BY <2>15, <2>22, <2>27 DEF Remembers
  <2>31. queue' \in Seq(Exchange)
    BY <2>15, <2>27
  <2>32. ASSUME queue # <<>> PROVE w # <<>>
    <3>1. n # 0
      BY <2>13, <2>32
    <3>2. 1 \in DOMAIN w
      BY <2>9, <2>13, <2>15, <3>1
    <3> QED BY <3>2
  <2> QED BY <2>26, <2>27, <2>28, <2>29, <2>30, <2>31, <2>32 DEF PairsInv
<1> QED BY <1>1, <1>2

(* Every event the provider may send is accepted so, or is malformed.      *)
LEMMA MessageAccepted ==
    ASSUME RealtimeVoiceAssumption, ActiveInv, PairsInv, NEW g \in StartedSessions, Message(g)
    PROVE  \E result : Accept(g, result) /\ (result.malformed \/ Settled(result, session[g].acc))
<1>1. PICK acc : acc = session[g].acc
  OBVIOUS
<1>2. acc \in Accumulator /\ \A r \in Response : Answers(acc, r) = {}
  BY <1>1 DEF PairsInv, QuietAccumulator, StartedSessions
<1>3. CASE \E i \in UserItem \ acc.heard : Accept(g, UserTranscript(acc, i))
  BY <1>1, <1>2, <1>3, TranscriptSettles
<1>4. CASE \E i \in Item \ acc.created : Accept(g, ItemCreated(acc, i))
  BY <1>1, <1>2, <1>4, CreationSettles
<1>5. CASE \E pair \in Texts : Accept(g, RecordAssistant(acc, pair[1], pair[2]))
  <2>1. PICK pair \in Texts : Accept(g, RecordAssistant(acc, pair[1], pair[2]))
    BY <1>5
  <2>2. pair[1] \in Response /\ pair[2] \in Assistant
    BY DEF RealtimeVoiceAssumption
  <2> QED BY <1>1, <1>2, <2>1, <2>2, TextSettles
<1>6. CASE \E pair \in Declared, status \in {"completed", "cancelled"} :
             Accept(g, RecordResponseStatus(acc, pair[1], status, pair[2]))
  <2>1. PICK pair \in Declared, status \in {"completed", "cancelled"} :
          Accept(g, RecordResponseStatus(acc, pair[1], status, pair[2]))
    BY <1>6
  <2>2. pair[1] \in Response /\ pair[2] \in SUBSET Assistant
    BY DEF RealtimeVoiceAssumption
  <2> QED BY <1>1, <1>2, <2>1, <2>2, StatusSettles
<1> QED BY <1>1, <1>3, <1>4, <1>5, <1>6 DEF Message

-----------------------------------------------------------------------------
(* The invariant, and the properties.                                      *)

VoiceInv == ActiveInv /\ PairsInv /\ (saving => queue # <<>>)

LEMMA InitiallyOrderly == ASSUME RealtimeVoiceAssumption, VoiceInit PROVE VoiceInv
<1>1. MaxSessions \in Nat /\ MaxSessions > 0
  BY DEF RealtimeVoiceAssumption
<1>2. /\ session = [g \in 1..MaxSessions |-> NoSession] /\ active = 0 /\ queue = <<>> /\ saving = FALSE
      /\ speech = 0 /\ hook = IdleHook(FALSE) /\ thread \in Thread
  BY DEF VoiceInit
<1>3. hook \in Hook /\ hook.active = FALSE
  BY <1>2 DEF IdleHook, Hook
<1>4. Known(NoSession) /\ NoSession.stage = "none" /\ NoSession.acc = Empty
  BY DEF Known, SessionWith, NoSession, Stages
<1>5. Orderly(session, active, speech, hook.active)
  BY <1>2, <1>4 DEF Orderly, OnlyActive
<1>6. \A g \in 1..MaxSessions : QuietAccumulator(session[g].acc)
  BY <1>2, <1>4, EmptyIsQuiet DEF QuietAccumulator
<1>7. \E n \in 0..MaxSessions : \A g \in 1..MaxSessions : session[g].stage # "none" <=> g <= n
  <2>1. 0 \in 0..MaxSessions /\ \A g \in 1..MaxSessions : session[g].stage # "none" <=> g <= 0
    BY <1>1, <1>2, <1>4
  <2> QED BY <2>1
<1>8. queue \in Seq(Exchange) /\ DOMAIN queue = {}
  BY <1>2
<1>9. PairsInv
  BY <1>6, <1>7, <1>8 DEF PairsInv, TruePairs, UsedOnce
<1> QED BY <1>2, <1>3, <1>5, <1>9 DEF VoiceInv, ActiveInv

LEMMA VoiceStep ==
    ASSUME RealtimeVoiceAssumption, VoiceInv, VoiceNext PROVE VoiceInv'
<1>1. ActiveInv /\ PairsInv /\ (saving => queue # <<>>)
  BY DEF VoiceInv
<1>2. CASE Start
  <2>1. ActiveInv' /\ PairsInv'
    BY <1>1, <1>2, StartsOrderly, StartPairs
  <2> QED BY <1>1, <1>2, <2>1 DEF Start, VoiceInv
<1>3. ASSUME NEW error \in BOOLEAN, StopController(error) PROVE VoiceInv'
  <2>1. ActiveInv' /\ PairsInv'
    BY <1>1, <1>3, StopOrderly, StopPairs
  <2> QED BY <1>1, <1>3, <2>1 DEF StopController, VoiceInv
<1>4. CASE Stop
  BY <1>3, <1>4 DEF Stop
<1>5. CASE Effect
  BY <1>3, <1>5 DEF Effect
<1>6. CASE SaveBegins
  <2>1. ActiveInv' /\ PairsInv'
    BY <1>1, <1>6, SaveBeginsOrderly, SaveBeginsPairs
  <2> QED BY <1>1, <1>6, <2>1 DEF SaveBegins, VoiceInv
<1>7. CASE SpeechEnds
  <2>1. ActiveInv'
    BY <1>1, <1>7, SpeechEndsOrderly
  <2>2. PairsInv'
    BY <1>1, <1>7, SessionsKept DEF SpeechEnds
  <2> QED BY <1>1, <1>7, <2>1, <2>2 DEF SpeechEnds, VoiceInv
<1>8. ASSUME NEW t \in Thread \cup {0}, ThreadChanges(t) PROVE VoiceInv'
  <2>1. ActiveInv'
    BY <1>1, <1>8, ThreadOrderly
  <2>2. PairsInv'
    BY <1>1, <1>8, SessionsKept DEF ThreadChanges
  <2> QED BY <1>1, <1>8, <2>1, <2>2 DEF ThreadChanges, VoiceInv
<1>9. ASSUME NEW ok \in BOOLEAN, NEW speaks \in BOOLEAN, SaveEnds(ok, speaks) PROVE VoiceInv'
  <2>1. queue # <<>> /\ saving' = FALSE
    BY <1>1, <1>9 DEF SaveEnds
  <2>2. ActiveInv' /\ PairsInv'
    BY <1>1, <1>9, <2>1, SaveEndsOrderly, SaveEndsPairs
  <2> QED BY <2>1, <2>2 DEF VoiceInv
<1>10. ASSUME NEW g \in StartedSessions, Deadline(g) \/ Breaks(g) PROVE VoiceInv'
  <2>1. IsActive(g) /\ Fail(session, g) /\ UNCHANGED <<queue, saving, thread>>
    BY <1>1, <1>10, HoldsActive DEF Deadline, Breaks, Listening
  <2>2. ActiveInv' /\ PairsInv'
    BY <1>1, <2>1, ActiveFails, FailsKept DEF Fail
  <2> QED BY <1>1, <2>1, <2>2 DEF VoiceInv
<1>11. ASSUME NEW g \in StartedSessions, Message(g) PROVE VoiceInv'
  <2>1. PICK result : Accept(g, result) /\ (result.malformed \/ Settled(result, session[g].acc))
    BY <1>1, <1>11, MessageAccepted
  <2>2. ActiveInv' /\ PairsInv' /\ (queue # <<>> => queue' # <<>>)
    BY <1>1, <2>1, AcceptOrderly, AcceptPairs
  <2> QED BY <1>1, <2>1, <2>2 DEF Accept, VoiceInv
<1>12. ASSUME NEW g \in StartedSessions, NEW ok \in BOOLEAN,
              Credential(g, ok) \/ Microphone(g, ok) \/ Joined(g, ok) \/ ChannelOpens(g, ok)
       PROVE  VoiceInv'
  <2>1. ActiveInv'
    BY <1>1, <1>12, CredentialOrderly, MicrophoneOrderly, JoinedOrderly, OpensOrderly
  <2>2. PairsInv'
    BY <1>1, <1>12, CredentialPairs, MicrophonePairs, JoinedPairs, OpensPairs
  <2>3. UNCHANGED <<queue, saving>>
    BY <1>12 DEF Credential, Microphone, Joined, ChannelOpens
  <2> QED BY <1>1, <2>1, <2>2, <2>3 DEF VoiceInv
<1> QED BY <1>2, <1>4, <1>5, <1>6, <1>7, <1>8, <1>9, <1>10, <1>11, <1>12 DEF VoiceNext

LEMMA VoiceStutter == ASSUME VoiceInv, UNCHANGED voiceVars PROVE VoiceInv'
<1>1. UNCHANGED <<session, active, queue, saving, speech, hook, thread>>
  BY DEF voiceVars
<1>2. hook \in Hook /\ speech \in {0, active} /\ ActiveInv /\ PairsInv
  BY DEF VoiceInv, ActiveInv, Orderly
<1>3. ActiveInv'
  BY <1>1, <1>2, HookKept
<1>4. PairsInv'
  BY <1>1, <1>2, SessionsKept
<1> QED BY <1>1, <1>3, <1>4 DEF VoiceInv

(* The invariant of the voice sessions: the session that is not cleaned up *)
(* is the active one; and what each accumulated leaves no answer waiting,  *)
(* and remembers the items of the exchanges that wait to be saved.         *)
THEOREM VoiceInvariant ==
    ASSUME RealtimeVoiceAssumption PROVE VoiceSpec => []VoiceInv
<1>1. VoiceInit => VoiceInv
  BY InitiallyOrderly
<1>2. VoiceInv /\ [VoiceNext]_voiceVars => VoiceInv'
  BY VoiceStep, VoiceStutter
<1> QED BY <1>1, <1>2, PTL DEF VoiceSpec

(* With no active hook no microphone is on and nothing is spoken, in every *)
(* interleaving of starts, stops and late answers.                         *)
THEOREM InactiveIsSilent ==
    ASSUME RealtimeVoiceAssumption PROVE VoiceSpec => []SilentWhenInactive
<1>1. VoiceInv => SilentWhenInactive
  <2> SUFFICES ASSUME VoiceInv PROVE SilentWhenInactive
    OBVIOUS
  <2>1. ActiveInv
    BY DEF VoiceInv
  <2>2. ASSUME NEW g \in StartedSessions, session[g].microphone \/ speech = g PROVE IsActive(g) /\ hook.active
    <3>1. active = g
      <4>1. speech \in {0, active} /\ g # 0
        BY <2>1 DEF ActiveInv, Orderly, StartedSessions
      <4>2. CASE session[g].microphone
        BY <2>1, <4>2, HoldsActive DEF IsActive
      <4> QED BY <2>2, <4>1, <4>2
    <3> QED BY <2>1, <3>1, ActiveSession
  <2>3. ~hook.active => active = 0
    BY <2>1, ActiveStarted
  <2> QED BY <2>2, <2>3 DEF SilentWhenInactive
<1> QED BY <1>1, VoiceInvariant, PTL

(* Events in any order pair an answer with the user item it follows, use   *)
(* an item once, and leave no pair waiting whose parts are known.          *)
THEOREM PairsFollowLinks ==
    ASSUME RealtimeVoiceAssumption PROVE VoiceSpec => []PairedByLinks
<1>1. VoiceInv => PairedByLinks
  <2> SUFFICES ASSUME VoiceInv PROVE PairedByLinks
    OBVIOUS
  <2>1. PairsInv /\ \A g \in StartedSessions : g \in 1..MaxSessions
    BY DEF VoiceInv, StartedSessions
  <2>2. \A g \in StartedSessions : \A r \in Response : Answers(session[g].acc, r) = {}
    BY <2>1 DEF PairsInv, QuietAccumulator
  <2> QED BY <2>1, <2>2 DEF PairsInv, TruePairs, UsedOnce, PairedByLinks
<1> QED BY <1>1, VoiceInvariant, PTL
=============================================================================
