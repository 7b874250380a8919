--------------------------- MODULE LocalDatabase ----------------------------
(* The life of the local database: opening and migrating it, remembering a *)
(* failed migration, recovering and resetting (src/storage/indexed-db.ts), *)
(* the effect of useSpecular that owns a page's connection                 *)
(* (src/app/use-specular.ts), and the product telemetry kept in its        *)
(* preferences (src/application/product-telemetry.ts).                     *)
(*                                                                         *)
(* A page runs the effect once per mount and once per reset; a run that    *)
(* was cleaned up may still be waiting for the browser to open the         *)
(* database.  Telemetry events are written as the consent they were        *)
(* recorded under, which the code does not store.                          *)
EXTENDS Naturals, Sequences, FiniteSets

CONSTANTS Page, MaxRuns, MaxEvents, MaxConsents, None

ASSUME LocalDatabaseAssumption == {MaxRuns, MaxEvents, MaxConsents} \subseteq Nat \ {0}

VARIABLES disk,      \* the database: None, or the stored pair of preferences
          run,       \* the runs of each page's effect
          deps,      \* dependenciesRef: the run whose repositories a page uses
          failed,    \* the page remembers a failed migration
          view,      \* what the page shows: initialized, recovery, error
          unlocked,  \* a recovery copy was downloaded in this recovery
          requests,  \* the browser's requests for the database, in order
          consent    \* how often telemetry was switched on

vars == <<disk, run, deps, failed, view, unlocked, requests, consent>>

NoRun == [stage |-> "none", active |-> FALSE, open |-> FALSE]
InitialView == [initialized |-> FALSE, recovery |-> FALSE, error |-> FALSE]
Recovering == [initialized |-> TRUE, recovery |-> TRUE, error |-> FALSE]
Fresh == [on |-> FALSE, events |-> <<>>]
Runs(p) == {g \in 1..MaxRuns : run[p][g].stage # "none"}
Latest(p) == Cardinality(Runs(p))

(* A request is the opening of one run of a page, or its deletion of the   *)
(* database; the browser serves them one after the other.                  *)
ToOpen(p, g) == <<p, g>>
ToDelete(p) == <<p, 0>>
First(request) == requests # <<>> /\ Head(requests) = request
Resetting(p) == ToDelete(p) \in {requests[i] : i \in DOMAIN requests}

(***************************************************************************)
(* The effect.  Its cleanup marks the run inactive, forgets its            *)
(* repositories and closes a connection it already owns; a run that opens  *)
(* the database after its cleanup closes the connection itself.            *)
(***************************************************************************)
MarkedInactive(runs, g) == IF g = 0 THEN runs ELSE [runs EXCEPT ![g].active = FALSE]  \* mutant
CleanedUp(runs, g) == IF g = 0 THEN runs
                      ELSE [runs EXCEPT ![g].active = FALSE, ![g].open = FALSE]

(* The effect runs again, with the view its cause has set.                 *)
Started(p, stage, shown) ==
    /\ Latest(p) < MaxRuns
    /\ run' = [run EXCEPT ![p] = [CleanedUp(@, Latest(p)) EXCEPT ![Latest(p) + 1] =
                 [stage |-> stage, active |-> TRUE, open |-> FALSE]]]
    /\ deps' = [deps EXCEPT ![p] = 0]
    /\ view' = [view EXCEPT ![p] = shown]

(* createLocalRepositories refuses at once a database whose migration is   *)
(* remembered as failed.                                                   *)
Mount(p) == /\ ~Resetting(p)
            /\ IF failed[p]
               THEN Started(p, "done", Recovering) /\ UNCHANGED requests
               ELSE /\ Started(p, "opening", InitialView)
                    /\ requests' = Append(requests, ToOpen(p, Latest(p) + 1))
            /\ unlocked' = [unlocked EXCEPT ![p] = FALSE]
            /\ UNCHANGED <<disk, failed, consent>>

Opening(p, g) == /\ run[p][g].stage = "opening" /\ First(ToOpen(p, g))
                 /\ requests' = Tail(requests)

Opened(p, g) ==
    /\ Opening(p, g)
    /\ disk' = IF disk = None THEN Fresh ELSE disk
    /\ run' = [run EXCEPT ![p][g].stage = IF run[p][g].active THEN "reading" ELSE "done",
                          ![p][g].open = run[p][g].active]
    /\ deps' = IF run[p][g].active THEN [deps EXCEPT ![p] = g] ELSE deps
    /\ UNCHANGED <<failed, view, unlocked, consent>>

(* What ends a run without its having read: a run still wanted forgets     *)
(* its repositories and shows why.                                         *)
Caught(p, g, shown) ==
    /\ run' = [run EXCEPT ![p][g].stage = "done"]
    /\ IF run[p][g].active
       THEN deps' = [deps EXCEPT ![p] = 0] /\ view' = [view EXCEPT ![p] = shown]
       ELSE UNCHANGED <<deps, view>>
    /\ UNCHANGED <<disk, unlocked, consent>>
Erring(p) == [view[p] EXCEPT !.initialized = TRUE, !.error = TRUE]

(* The upgrade of an absent database aborts: nothing is created, the page  *)
(* remembers it and, if the run is still wanted, offers recovery.          *)
MigrationFails(p, g) ==
    /\ Opening(p, g) /\ disk = None
    /\ failed' = [failed EXCEPT ![p] = TRUE]
    /\ Caught(p, g, Recovering)

(* The database does not open, and no upgrade was attempted.               *)
OpenFails(p, g) == Opening(p, g) /\ Caught(p, g, Erring(p)) /\ UNCHANGED failed

(* The stored conversation is read; a transaction begun before its         *)
(* connection was closed still completes.  The recovery screen goes.       *)
Read(p, g) ==
    /\ run[p][g].stage = "reading"
    /\ run' = [run EXCEPT ![p][g].stage = "done"]
    /\ IF run[p][g].active
       THEN /\ view' = [view EXCEPT ![p] = [InitialView EXCEPT !.initialized = TRUE]]
            /\ unlocked' = [unlocked EXCEPT ![p] = FALSE]
       ELSE UNCHANGED <<view, unlocked>>
    /\ UNCHANGED <<disk, deps, failed, requests, consent>>

(* A read fails, of a closed connection or of an open one, which stays     *)
(* open until the cleanup.                                                 *)
ReadFails(p, g) ==
    /\ run[p][g].stage = "reading"
    /\ Caught(p, g, Erring(p))
    /\ UNCHANGED <<failed, requests>>

(***************************************************************************)
(* Recovery and reset, offered while recoveryRequired is set: also while a *)
(* page reloads after a reset, and beside the error if that load fails.    *)
(* The deletion waits until every connection has answered "versionchange"  *)
(* by closing.                                                             *)
(***************************************************************************)
DownloadRecovery(p) == /\ view[p].recovery /\ ~Resetting(p)
                       /\ unlocked' = [unlocked EXCEPT ![p] = TRUE]
                       /\ UNCHANGED <<disk, run, deps, failed, view, requests, consent>>

ForgetAtOnce(p) == /\ view[p].recovery /\ unlocked[p] /\ ~Resetting(p)   \* mutant
                   /\ Latest(p) < MaxRuns
                   /\ requests' = Append(requests, ToDelete(p))
                   /\ failed' = [failed EXCEPT ![p] = FALSE]
                   /\ UNCHANGED <<disk, run, deps, view, unlocked, consent>>
ResetLocalData(p) == /\ view[p].recovery /\ unlocked[p] /\ ~Resetting(p)
                     /\ Latest(p) < MaxRuns
                     /\ requests' = Append(requests, ToDelete(p))
                     /\ UNCHANGED <<disk, run, deps, failed, view, unlocked, consent>>

Unheard(p, g) == FALSE /\ UNCHANGED vars  \* mutant
VersionChange(p, g) == /\ \E q \in Page : First(ToDelete(q))
                       /\ run[p][g].open
                       /\ run' = [run EXCEPT ![p][g].open = FALSE]
                       /\ UNCHANGED <<disk, deps, failed, view, unlocked, requests, consent>>

DatabaseDeleted(p) == /\ First(ToDelete(p))
                      /\ \A q \in Page : \A g \in Runs(q) : ~run[q][g].open
                      /\ disk' = None
                      /\ failed' = [failed EXCEPT ![p] = FALSE]
                      /\ Started(p, "opening", [InitialView EXCEPT !.recovery = TRUE])
                      /\ requests' = Append(Tail(requests), ToOpen(p, Latest(p) + 1))
                      /\ UNCHANGED <<unlocked, consent>>

ResetFails(p) == /\ First(ToDelete(p))
                 /\ requests' = Tail(requests)
                 /\ UNCHANGED <<disk, run, deps, failed, view, unlocked, consent>>

(***************************************************************************)
(* Telemetry: each operation is one mutatePair transaction over both       *)
(* preferences, through the page's connection and unless writes are        *)
(* refused.                                                                *)
(***************************************************************************)
Connected(p) == deps[p] # 0 /\ run[p][deps[p]].open /\ ~failed[p]
MutatePair(p, pair) == /\ Connected(p)
                       /\ disk' = pair
                       /\ UNCHANGED <<run, deps, failed, view, unlocked, requests>>

(* isEnabled and listEvents write back what they find, without events when *)
(* telemetry is off.                                                       *)
Normalized == IF disk.on THEN disk ELSE Fresh
IsEnabled(p) == disk # None /\ MutatePair(p, Normalized) /\ UNCHANGED consent

SetEnabled(p, enabled) ==
    /\ disk # None
    /\ enabled /\ ~disk.on => consent < MaxConsents
    /\ MutatePair(p, IF enabled THEN [Normalized EXCEPT !.on = TRUE] ELSE Fresh)
    /\ consent' = IF enabled /\ ~disk.on THEN consent + 1 ELSE consent

QueueAll(events, event) == Append(events, event)  \* mutant
Queued(events, event) ==
    LET all == Append(events, event) IN
    IF Len(all) > MaxEvents THEN SubSeq(all, Len(all) - MaxEvents + 1, Len(all)) ELSE all
RecordUnread(p) == /\ disk # None      \* mutant
                   /\ MutatePair(p, [disk EXCEPT !.events = Queued(@, consent)])
                   /\ UNCHANGED consent
Record(p) == /\ disk # None
             /\ MutatePair(p, IF disk.on THEN [disk EXCEPT !.events = Queued(@, consent)] ELSE Fresh)
             /\ UNCHANGED consent

(***************************************************************************)
(* The specification.                                                      *)
(***************************************************************************)
Init == /\ disk = None
        /\ run = [p \in Page |-> [g \in 1..MaxRuns |-> NoRun]]
        /\ deps = [p \in Page |-> 0]
        /\ failed = [p \in Page |-> FALSE]
        /\ view = [p \in Page |-> InitialView]
        /\ unlocked = [p \in Page |-> FALSE]
        /\ requests = <<>>
        /\ consent = 0

BrowserAnswers(p, g) == \/ Opened(p, g) \/ MigrationFails(p, g) \/ OpenFails(p, g)
                        \/ Read(p, g) \/ ReadFails(p, g) \/ VersionChange(p, g)

Next == \E p \in Page :
            \/ Mount(p) \/ DownloadRecovery(p) \/ ResetLocalData(p)
            \/ DatabaseDeleted(p) \/ ResetFails(p)
            \/ IsEnabled(p) \/ Record(p) \/ \E enabled \in BOOLEAN : SetEnabled(p, enabled)
            \/ \E g \in Runs(p) : BrowserAnswers(p, g)

Spec == Init /\ [][Next]_vars
(* The browser answers what it was asked, one request after the other: it  *)
(* opens, reads, delivers "versionchange" and deletes once nothing is      *)
(* open.  Nobody has to mount, reset or record.                            *)
FairSpec == Spec /\ \A p \in Page :
                /\ \A g \in 1..MaxRuns : WF_vars(BrowserAnswers(p, g))
                /\ WF_vars(DatabaseDeleted(p))

(***************************************************************************)
(* Properties.                                                             *)
(***************************************************************************)

(* Runs, references and the stored pair have the shape of the code's.      *)
TypeOK ==
    /\ disk \in {None} \cup [on : BOOLEAN, events : UNION {[1..n -> 1..MaxConsents] : n \in 0..MaxEvents}]
    /\ \A p \in Page : /\ deps[p] \in 0..MaxRuns
                       /\ view[p] \in [initialized : BOOLEAN, recovery : BOOLEAN, error : BOOLEAN]
                       /\ \A g \in 1..MaxRuns :
                             run[p][g].stage \in {"none", "opening", "reading", "done"}

(* However mounts, cleanups, openings and resets interleave, a run that    *)
(* was cleaned up holds no connection, so it cannot block a later deletion *)
(* or reset; and a page uses only its current run (the initialize effect,  *)
(* use-specular.ts:257).                                                   *)
OnlyCurrentRunOwns == \A p \in Page :
    /\ \A g \in Runs(p) : run[p][g].open => g = Latest(p)
    /\ deps[p] \in {0, Latest(p)}

(* A page whose effect has ended in recovery or in an error has no         *)
(* repositories to write with; and while no error stands beside it, the    *)
(* recovery rests on a remembered failure, which refuses every write until *)
(* the data is reset (assertWritesAllowed; StorageRecovery.tsx: "Local     *)
(* changes are paused").  After a reset recovery stays on the screen with  *)
(* nothing remembered, while the page loads and if that load fails.        *)
RecoveryIsPaused == \A p \in Page : view[p].initialized =>
    /\ view[p].recovery \/ view[p].error => deps[p] = 0 /\ ~Connected(p)
    /\ view[p].recovery /\ ~view[p].error => failed[p]

(* The types, the ownership of connections and the pause of writing hold   *)
(* however the runs of two pages interleave.                               *)
LocalDatabaseInv == TypeOK /\ OnlyCurrentRunOwns /\ RecoveryIsPaused

(* No event outlives the consent it was recorded under: whatever two pages *)
(* record while another opts out and in again, the stored events are those *)
(* of the present consent, and there are none without it                   *)
(* (product-telemetry.ts; conversation-service.test.ts:1394).              *)
OptOutIsFinal == disk # None =>
    /\ ~disk.on => disk.events = <<>>
    /\ \A i \in DOMAIN disk.events : disk.events[i] = consent

(* A page that is loading or resetting comes to rest, ready, in recovery   *)
(* or in its error, whatever connections other pages hold when it starts.  *)
Working(p) == Resetting(p) \/ (~view[p].initialized /\ Runs(p) # {})
ResetEnds == \A p \in Page : Working(p) ~> ~Working(p)
=============================================================================
