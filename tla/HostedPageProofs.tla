-------------------------- MODULE HostedPageProofs --------------------------
(* Theorems about HostedPage, for any pages, bounds and plans, under what  *)
(* the author is assumed not to do while an answer is awaited: what the    *)
(* panel shows of a published page is true of it (PagesAsShown), and what  *)
(* was written when the author left is kept (LeavingKeepsWords).           *)
(*                                                                         *)
(* PagesAsShown is inductive once every stored, queued and cached          *)
(* workspace is known to agree with the pages it links to, and every       *)
(* publication under way to have a page of its own (PagesInd).             *)
(* LeavingKeepsWords is, once words are known only to grow on their way    *)
(* from the server over the device to the page, and each await of a way    *)
(* out to keep what it promised (LeavingInd).                              *)
EXTENDS HostedPage, FiniteSetTheorems, SequenceTheorems, WellFoundedInduction, TLAPS

Reader == {"signed_in", "public"}
Stage == {"sent", "ok", "refused", "unauthorized"}
Workspace == [words : Nat, link : Slug \cup {0}, readers : Reader]
Record == [ws : Workspace, pending : BOOLEAN]
Saved == [ws : Workspace, by : {"timer", "online", "leave"}]
Opening == [open : {TRUE}, ws : Workspace, timer : BOOLEAN]
Page == [state : {"free", "live", "revoked", "erased"}, readers : Reader]
Asked == [kind : {"publish"}, slug : Slug, readers : Reader, at : Stage]
         \cup [kind : {"revoke", "library"}, slug : Slug, readers : {"none"}, at : Stage]
         \cup [kind : {"erase"}, slug : {0}, readers : {"none"}, at : Stage]
Way == [kind : {"none", "signOut", "update", "erase"}, step : {"none", "ask", "save", "clear", "go"},
        ws : Workspace, covered : BOOLEAN]

Types ==
    /\ stored \in Workspace /\ device \in {None} \cup Record /\ files \subseteq Workspace
    /\ pages \in [Slug -> Page]
    /\ app \in {Closed} \cup Opening
    /\ saves \in Seq(Saved)
    /\ base \in {None} \cup Workspace
    /\ calls \subseteq Asked /\ adrift \subseteq Asked /\ told \subseteq Slug
    /\ calls # {} => app.open
    /\ leave \in Way

-----------------------------------------------------------------------------
(* The next page's slug is one of those that are left.                     *)
LEMMA LeastIsOne == ASSUME NEW S \in SUBSET Nat, S # {} PROVE Min(S) \in S
<1>0. PICK n : n \in S
  OBVIOUS
<1> DEFINE T == {x \in S : x <= n}
           Below(k) == {x \in T : x < k}
           Belows == {Below(k) : k \in T}
           R == StrictSubsetOrdering(T)
<1>a. n \in Nat /\ \A x \in S : x \in Nat
  BY <1>0
<1>1. IsFiniteSet(T)
  <2>1. IsFiniteSet(0 .. n)
    BY <1>a, FS_Interval
  <2>2. \A x \in T : x \in 0 .. n
    BY <1>a
  <2> QED
    BY <2>1, <2>2, FS_Subset
<1>2. IsWellFoundedOn(R, SUBSET T)
  <2>1. IsWellFoundedOn(R, FiniteSubsetsOf(T))
    BY FS_StrictSubsetOrderingWellFounded
  <2>2. FiniteSubsetsOf(T) = SUBSET T
    BY <1>1, FS_FiniteSubsetsOfFinite
  <2> QED
    BY <2>1, <2>2
<1>3. PICK least \in Belows : \A A \in Belows : ~(<<A, least>> \in R)
  <2>1. Belows # {}
    <3>1. n \in T
      BY <1>0
    <3>2. Below(n) \in Belows
      BY <3>1
    <3> QED
      BY <3>2
  <2>2. Belows \in SUBSET (SUBSET T)
    OBVIOUS
  <2> HIDE DEF Belows, R
  <2> QED
    BY <1>2, <2>1, <2>2, WFMin
<1>4. PICK m \in T : least = Below(m)
  OBVIOUS
<1>5. ASSUME NEW y \in T PROVE m <= y
  <2>1. CASE y < m
    <3> DEFINE A == Below(y)
               B == Below(m)
    <3>1. y \in Int /\ m \in Int /\ \A x \in T : x \in Int
      OBVIOUS
    <3>2. A \in Belows /\ A \in SUBSET T /\ B \in SUBSET T /\ least = B
      BY <1>4
    <3> HIDE DEF Belows
    <3>3. A \subseteq B
      <4> SUFFICES ASSUME NEW x \in T, x < y PROVE x < m
        OBVIOUS
      <4>1. x \in Int
        BY <3>1
      <4> HIDE DEF T
      <4> QED
        BY <2>1, <3>1, <4>1
    <3>5. y \in B /\ y \notin A
      BY <2>1, <3>1
    <3>6. A # B
      BY <3>5
    <3> HIDE DEF A, B, Below
    <3>4. <<A, B>> \in R
      BY <3>2, <3>3, <3>5, <3>6 DEF StrictSubsetOrdering
    <3> QED
      BY <1>3, <3>2, <3>4
  <2> QED
    BY <2>1
<1>6. m \in S /\ \A y \in S : m <= y
  <2>1. m \in S /\ m <= n /\ n \in Nat /\ m \in Nat
    BY <1>a
  <2>2. ASSUME NEW y \in S PROVE m <= y
    <3>1. CASE y <= n
      BY <1>5, <3>1
    <3>2. CASE ~(y <= n)
      BY <1>a, <2>1, <3>2
    <3> QED
      BY <3>1, <3>2
  <2> QED
    BY <2>1, <2>2
<1> QED
  BY <1>6 DEF Min

LEMMA UnusedSlug == Unused # {} => Min(Unused) \in Unused
<1>1. Unused \in SUBSET Nat
  BY HostedPageAssumption DEF Unused
<1> QED
  BY <1>1, LeastIsOne

-----------------------------------------------------------------------------
(* Types.                                                                  *)
LEMMA OpenApp == Types => (app.open => app \in Opening) /\ (~app.open => app = Closed)
<1> SUFFICES ASSUME Types PROVE (app.open => app \in Opening) /\ (~app.open => app = Closed)
  OBVIOUS
<1>1. app = Closed \/ app \in Opening
  BY DEF Types
<1>2. ~Closed.open
  BY DEF Closed
<1>3. app \in Opening => app.open = TRUE
  BY DEF Opening
<1> QED
  BY <1>1, <1>2, <1>3

LEMMA ShownOpen == ASSUME NEW ws, app \in Opening, Shown(ws) PROVE app' = Opened(ws)
  BY DEF Shown, Opened, Opening

LEMMA OpenedIs == \A ws : Opened(ws).open /\ Opened(ws).ws = ws
  BY DEF Opened

LEMMA OpenedTypes == \A ws \in Workspace : Opened(ws) \in Opening
  BY DEF Opened, Opening

LEMMA StayingIsWay == Staying \in Way
<1>1. Blank \in Workspace
  BY DEF Blank, Workspace, Reader
<1> QED
  BY <1>1 DEF Staying, Leaving, Way

LEMMA AfterSaveIsWay == ASSUME NEW way \in Way, NEW result PROVE AfterSave(way, result) \in Way
<1>1. [way EXCEPT !.step = "go"] \in Way /\ [way EXCEPT !.step = "clear"] \in Way
  BY DEF Way
<1> QED
  BY <1>1, StayingIsWay DEF AfterSave

(* A step that leaves the rows, and asks nothing of the Worker.            *)
Workspaces == /\ stored' \in Workspace /\ device' \in {None} \cup Record
              /\ app' \in Opening /\ saves' \in Seq(Saved) /\ base' \in {None} \cup Workspace
              /\ leave' \in Way /\ files' \subseteq Workspace
LEMMA WorkspacesTypes == ASSUME Types, Workspaces, UNCHANGED <<pages, calls, adrift, told>> PROVE Types'
  BY DEF Types, Workspaces, Opening

LEMMA ClosesTypes ==
    ASSUME Types, NEW way \in Way, Unmounts(way), device' \in {None} \cup Record,
           UNCHANGED <<stored, pages, files, told>>
    PROVE  Types'
<1>1. leave' \in Way
  BY StayingIsWay DEF Unmounts
<1>2. saves' \in Seq(Saved)
  BY DEF Unmounts
<1>3. adrift' \subseteq Asked /\ calls' = {}
  BY DEF Unmounts, Types
<1> QED
  BY <1>1, <1>2, <1>3 DEF Types, Unmounts

(* What the gate's steps do to the page.                                   *)
LEMMA GateStep ==
    ASSUME Verification \/ VerificationFails \/ Again
    PROVE  /\ UNCHANGED <<stored, pages, erased, files, told, left>>
           /\ \/ app.open /\ Unmounts(leave) /\ UNCHANGED device
              \/ ~app.open /\ leave = Staying /\ ~erased /\ Mounts
              \/ UNCHANGED <<app, kept, calls, adrift>>
<1>1. Follows /\ UNCHANGED <<stored, pages, erased, files, told, left>>
  BY DEF Verification, VerificationFails, Again, hosted, history
<1> QED
  BY <1>1 DEF Follows

LEMMA MountsTypes ==
    ASSUME Types, ~app.open, Mounts, UNCHANGED <<stored, pages, files, told>> PROVE Types'
<1> DEFINE ws == IF Pending THEN device.ws ELSE stored
<1>1. ws \in Workspace
  BY DEF Types, Pending, Record
<1>2. app' = Opened(ws) /\ UNCHANGED <<saves, leave, calls, adrift>>
  BY DEF Mounts
<1>3. app' \in Opening
  BY <1>1, <1>2, OpenedTypes
<1>4. base' \in {None} \cup Workspace /\ device' \in {None} \cup Record
  BY DEF Mounts, Types, Record
<1> HIDE DEF ws
<1> QED
  BY <1>2, <1>3, <1>4, WorkspacesTypes DEF Types, Workspaces

LEMMA GateTypes == ASSUME Types, Verification \/ VerificationFails \/ Again PROVE Types'
<1>1. CASE app.open /\ Unmounts(leave) /\ UNCHANGED device
  BY <1>1, GateStep, ClosesTypes DEF Types
<1>2. CASE ~app.open /\ Mounts
  BY <1>2, GateStep, MountsTypes
<1>3. CASE UNCHANGED <<app, kept, calls, adrift>>
  BY <1>3, GateStep DEF Types, kept
<1> QED
  BY <1>1, <1>2, <1>3, GateStep

(* Writing and saving.                                                     *)
LEMMA EnqueueTypes ==
    ASSUME Types, NEW ws \in Workspace, NEW by \in {"timer", "online", "leave"}, Enqueue(ws, by)
    PROVE  saves' \in Seq(Saved) /\ device' \in {None} \cup Record /\ base' \in {None} \cup Workspace
<1>1. [ws |-> ws, by |-> by] \in Saved
  BY DEF Saved
<1> QED
  BY <1>1 DEF Enqueue, Types, Record

LEMMA WritingTypes ==
    ASSUME Types, Write \/ AutoSave \/ Retry \/ Downloads
                  \/ \E who \in {"signed_in", "public"} : Readers(who)
    PROVE  Types'
<1>0. app.open /\ app \in Opening /\ app.ws \in Workspace
  <2>1. app.open
    BY DEF Write, AutoSave, Retry, Downloads, Readers, MaySave
  <2> QED
    BY <2>1, OpenApp DEF Opening
<1>1. CASE Write
  <2>1. [app.ws EXCEPT !.words = @ + 1] \in Workspace
    BY <1>0 DEF Workspace
  <2>2. app' \in Opening
    BY <1>0, <1>1, <2>1, ShownOpen, OpenedTypes DEF Write
  <2> QED
    BY <1>1, <2>2, WorkspacesTypes DEF Write, Types, Workspaces, hosted, kept, history
<1>2. CASE \E who \in {"signed_in", "public"} : Readers(who)
  <2>1. PICK who \in {"signed_in", "public"} : Readers(who)
    BY <1>2
  <2>2. [app.ws EXCEPT !.readers = who] \in Workspace
    BY <1>0 DEF Workspace, Reader
  <2>3. app' \in Opening
    BY <1>0, <2>1, <2>2, ShownOpen, OpenedTypes DEF Readers
  <2> QED
    BY <2>1, <2>3, WorkspacesTypes DEF Readers, Types, Workspaces, hosted, kept, history
<1>3. CASE AutoSave
  <2>1. app' \in Opening
    BY <1>0, <1>3 DEF AutoSave, Opening
  <2>2. saves' \in Seq(Saved) /\ device' \in {None} \cup Record /\ base' \in {None} \cup Workspace
    BY <1>0, <1>3, EnqueueTypes DEF AutoSave, Types
  <2> QED
    BY <1>3, <2>1, <2>2, WorkspacesTypes DEF AutoSave, Types, Workspaces, hosted, history
<1>4. CASE Retry
  <2>1. saves' \in Seq(Saved) /\ device' \in {None} \cup Record /\ base' \in {None} \cup Workspace
    BY <1>0, <1>4, EnqueueTypes DEF Retry
  <2> QED
    BY <1>0, <1>4, <2>1, WorkspacesTypes DEF Retry, Types, Workspaces, hosted, history
<1>5. CASE Downloads
  BY <1>0, <1>5, WorkspacesTypes DEF Downloads, Types, Workspaces, hosted, kept
<1> QED
  BY <1>1, <1>2, <1>3, <1>4, <1>5

LEMMA HeadOfSaves ==
    Types /\ saves # <<>> => Head(saves) \in Saved /\ Head(saves).ws \in Workspace /\ Tail(saves) \in Seq(Saved)
<1> SUFFICES ASSUME Types, saves # <<>>
             PROVE  Head(saves) \in Saved /\ Head(saves).ws \in Workspace /\ Tail(saves) \in Seq(Saved)
  OBVIOUS
<1>1. Head(saves) \in Saved /\ Tail(saves) \in Seq(Saved)
  BY HeadTailProperties DEF Types
<1> QED
  BY <1>1 DEF Saved

LEMMA SavingTypes ==
    ASSUME Types, SaveArrives \/ \E result \in {"synchronized", "unsynced"} : SaveEnds(result)
    PROVE  Types'
<1>0. Head(saves).ws \in Workspace /\ Tail(saves) \in Seq(Saved)
  BY HeadOfSaves DEF SaveArrives, SaveEnds
<1>1. CASE SaveArrives
  BY <1>0, <1>1 DEF SaveArrives, Types, kept, history
<1>2. CASE \E result \in {"synchronized", "unsynced"} : SaveEnds(result)
  <2>1. PICK result : SaveEnds(result)
    BY <1>2
  <2>2. leave' \in Way
    BY <2>1, AfterSaveIsWay DEF SaveEnds, Types
  <2>3. base' \in {None} \cup Workspace /\ device' \in {None} \cup Record /\ saves' \in Seq(Saved)
    BY <1>0, <2>1 DEF SaveEnds, Types, Record
  <2> QED
    BY <2>1, <2>2, <2>3 DEF SaveEnds, Types, hosted, history
<1> QED
  BY <1>1, <1>2

LEMMA RefusedTypes ==
    ASSUME Types, SaveRefused \/ \E c \in calls : Unauthorized(c) PROVE Types'
<1>1. CASE SaveRefused
  <2> DEFINE way == IF Head(saves).by = "leave" THEN AfterSave(leave, "locked") ELSE leave
             on == [way EXCEPT !.step = "go"]
  <2>1. way \in Way
    BY AfterSaveIsWay DEF Types
  <2>2. on \in Way
    BY <2>1 DEF Way
  <2>3. UNCHANGED <<stored, pages, files, told>>
    BY <1>1 DEF SaveRefused, hosted, history
  <2>4. (Unmounts(way) /\ UNCHANGED device) \/ (Unmounts(on) /\ device' = None)
    BY <1>1 DEF SaveRefused
  <2>5. device' \in {None} \cup Record
    BY <2>4 DEF Types
  <2> HIDE DEF way, on
  <2> QED
    BY <2>1, <2>2, <2>3, <2>4, <2>5, ClosesTypes
<1>2. CASE \E c \in calls : Unauthorized(c)
  <2>1. Unmounts(leave) /\ UNCHANGED <<device, stored, pages, files, told>>
    BY <1>2 DEF Unauthorized, hosted, history
  <2> QED
    BY <2>1, ClosesTypes DEF Types
<1> QED
  BY <1>1, <1>2

(* Requests and their answers.                                             *)
LEMMA AskedIs ==
    \A c \in Asked : /\ \A at \in Stage : [c EXCEPT !.at = at] \in Asked
                     /\ c.kind \in {"publish", "revoke", "library", "erase"} /\ c.at \in Stage
                     /\ c.kind # "erase" => c.slug \in Slug
                     /\ c.kind = "publish" => c.readers \in Reader
  BY DEF Asked, Stage

LEMMA OutcomeIsStage == \A c : Outcome(c) \in Stage
  BY DEF Outcome, Stage

LEMMA EffectTypes == ASSUME Types, NEW c \in Asked, c.kind # "erase" PROVE Effect(c) \in [Slug -> Page]
<1>1. pages \in [Slug -> Page] /\ c.slug \in Slug
  BY AskedIs DEF Types
<1>2. CASE c.kind = "publish"
  <2> DEFINE row == [state |-> "live", readers |-> c.readers]
  <2>1. row \in Page
    BY <1>2, AskedIs DEF Page
  <2>2. Effect(c) = [pages EXCEPT ![c.slug] = row]
    BY <1>2 DEF Effect
  <2> HIDE DEF row
  <2> QED
    BY <1>1, <2>1, <2>2
<1>3. CASE c.kind # "publish"
  <2> DEFINE row == [pages[c.slug] EXCEPT !.state = "revoked"]
  <2>1. row \in Page
    BY <1>1 DEF Page
  <2>2. Effect(c) \in {pages, [pages EXCEPT ![c.slug] = row]}
    BY <1>1, <1>3 DEF Effect
  <2> HIDE DEF row
  <2> QED
    BY <1>1, <2>1, <2>2
<1> QED
  BY <1>2, <1>3

LEMMA AsksTypes == ASSUME Types, NEW c \in Asked, Asks(c), app.open PROVE Types'
  BY DEF Asks, Types, hosted, kept, history

LEMMA AskingTypes ==
    ASSUME Types, Publish \/ Revoke \/ \E s \in Slug : RevokeListed(s) PROVE Types'
<1>0. app.open /\ app.ws \in Workspace
  <2>1. app.open
    BY DEF Publish, Revoke, RevokeListed
  <2> QED
    BY <2>1, OpenApp DEF Opening
<1>1. CASE Publish
  <2> DEFINE c == Call("publish", Min(Unused), app.ws.readers)
  <2>1. Min(Unused) \in Slug
    BY <1>1, UnusedSlug DEF Publish, Unused
  <2>2. c \in Asked
    BY <1>0, <2>1 DEF Call, Asked, Stage, Workspace
  <2>3. Asks(c)
    BY <1>1 DEF Publish
  <2> QED
    BY <1>0, <2>2, <2>3, AsksTypes
<1>2. CASE Revoke
  <2> DEFINE c == Call("revoke", app.ws.link, "none")
  <2>1. c \in Asked
    BY <1>0, <1>2 DEF Revoke, Call, Asked, Stage, Workspace
  <2>2. Asks(c)
    BY <1>2 DEF Revoke
  <2> QED
    BY <1>0, <2>1, <2>2, AsksTypes
<1>3. CASE \E s \in Slug : RevokeListed(s)
  <2>1. PICK s \in Slug : RevokeListed(s)
    BY <1>3
  <2> DEFINE c == Call("library", s, "none")
  <2>2. c \in Asked
    BY DEF Call, Asked, Stage
  <2>3. Asks(c)
    BY <2>1 DEF RevokeListed
  <2> QED
    BY <1>0, <2>2, <2>3, AsksTypes
<1> QED
  BY <1>1, <1>2, <1>3

LEMMA ServingTypes ==
    ASSUME Types, NEW c \in calls \cup adrift,
           Serve(c) \/ Arrives(c) \/ ServeErase(c) \/ EraseAnswered(c) \/ Lost(c)
    PROVE  Types'
<1>0. c \in Asked /\ [c EXCEPT !.at = Outcome(c)] \in Asked
  BY AskedIs, OutcomeIsStage DEF Types
<1>1. CASE Serve(c) \/ Arrives(c)
  <2>1. pages' \in [Slug -> Page] /\ stored' = stored /\ erased' = erased
    BY <1>0, <1>1, EffectTypes DEF Serve, Arrives, Reaches, Types
  <2>2. calls' \subseteq Asked /\ adrift' \subseteq Asked /\ app' = app /\ (calls' # {} => calls # {})
    BY <1>0, <1>1 DEF Serve, Arrives, Types
  <2>3. UNCHANGED <<kept, history>>
    BY <1>1 DEF Serve, Arrives
  <2> QED
    BY <2>1, <2>2, <2>3 DEF Types, kept, history
<1>2. CASE ServeErase(c)
  <2>1. AllPages \in [Slug -> Page]
    <3>1. \A s \in Slug : pages[s] \in Page /\ [pages[s] EXCEPT !.state = "erased"] \in Page
      BY DEF Types, Page
    <3> QED
      BY <3>1 DEF AllPages
  <2>2. Blank \in Workspace
    BY DEF Blank, Workspace, Reader
  <2>3. pages' \in [Slug -> Page] /\ stored' \in Workspace
    BY <1>2, <2>1, <2>2 DEF ServeErase, Erased, hosted, Types
  <2>4. calls' \subseteq Asked /\ adrift' \subseteq Asked /\ app' = app /\ (calls' # {} => calls # {})
    BY <1>0, <1>2 DEF ServeErase, Types
  <2>5. UNCHANGED <<kept, history>>
    BY <1>2 DEF ServeErase
  <2> QED
    BY <2>3, <2>4, <2>5 DEF Types, kept, history
<1>3. CASE EraseAnswered(c)
  <2>1. leave' \in Way
    BY <1>3 DEF EraseAnswered, Types, Way
  <2> QED
    BY <1>3, <2>1 DEF EraseAnswered, Types, hosted, history
<1>4. CASE Lost(c)
  <2>1. leave' \in Way
    BY <1>4, StayingIsWay DEF Lost, Types
  <2> QED
    BY <1>0, <1>4, <2>1 DEF Lost, Types, hosted
<1> QED
  BY <1>1, <1>2, <1>3, <1>4

LEMMA AnswerTypes == ASSUME Types, NEW c \in calls, Answer(c) PROVE Types'
<1>0. app.open /\ app \in Opening /\ app.ws \in Workspace /\ c \in Asked /\ c.kind # "erase" /\ c.slug \in Slug
  BY OpenApp, AskedIs DEF Answer, Types, Opening
<1>1. UNCHANGED <<hosted, kept, adrift, files>> /\ calls' \subseteq calls
  BY DEF Answer
<1>2. [app.ws EXCEPT !.link = c.slug] \in Workspace /\ Unlinked \in Workspace
  BY <1>0 DEF Workspace, Unlinked
<1>3. app' \in Opening /\ told' \subseteq Slug
  <2>1. CASE c.at # "ok"
    BY <1>0, <2>1 DEF Answer, Types
  <2>2. CASE c.at = "ok" /\ c.kind = "publish"
    BY <1>0, <1>2, <2>2, ShownOpen, OpenedTypes DEF Answer, Applied, Types
  <2>3. CASE c.at = "ok" /\ c.kind = "revoke"
    BY <1>0, <1>2, <2>3, ShownOpen, OpenedTypes DEF Answer, Applied, Types
  <2>4. CASE c.at = "ok" /\ c.kind = "library"
    BY <1>0, <1>2, <2>4, ShownOpen, OpenedTypes DEF Answer, Applied, Types
  <2> QED
    BY <1>0, <2>1, <2>2, <2>3, <2>4, AskedIs
<1> QED
  BY <1>1, <1>3 DEF Types, Opening, hosted, kept

(* Leaving.                                                                *)
LEMMA LeavingTypes ==
    ASSUME Types, Erase \/ Clear \/ Goes \/ \E kind \in {"signOut", "update"} : Begins(kind)
    PROVE  Types'
<1>1. CASE Erase
  <2>1. app.ws \in Workspace /\ app.open
    BY <1>1, OpenApp DEF Erase, Opening
  <2>2. leave' \in Way
    BY <1>1, <2>1 DEF Erase, Leaving, Way
  <2>3. Call("erase", 0, "none") \in Asked
    BY DEF Call, Asked, Stage
  <2> QED
    BY <1>1, <2>1, <2>2, <2>3 DEF Erase, Types, hosted
<1>2. CASE Clear
  <2>1. leave' \in Way /\ device' \in {None, device}
    BY <1>2, StayingIsWay DEF Clear, Types, Way
  <2> QED
    BY <1>2, <2>1 DEF Clear, Types, hosted, history
<1>3. CASE Goes
  <2>1. Unmounts(Staying) /\ UNCHANGED <<stored, pages, files, told, device>>
    BY <1>3 DEF Goes, hosted
  <2> QED
    BY <2>1, StayingIsWay, ClosesTypes DEF Types
<1>4. CASE \E kind \in {"signOut", "update"} : Begins(kind)
  <2>1. PICK kind \in {"signOut", "update"} : Begins(kind)
    BY <1>4
  <2> DEFINE way == Leaving(kind, "save", app.ws, app.ws \in files)
  <2>2. app.open /\ app \in Opening /\ app.ws \in Workspace
    BY <2>1, OpenApp DEF Begins, Opening
  <2>3. way \in Way
    BY <2>2 DEF Leaving, Way
  <2>4. \/ leave' = AfterSave(way, status) /\ UNCHANGED <<device, saves, status, base>>
        \/ leave' = way /\ Enqueue(app.ws, "leave")
    BY <2>1 DEF Begins
  <2>5. UNCHANGED <<stored, pages, app, calls, adrift, files, told>>
    BY <2>1 DEF Begins, hosted
  <2> HIDE DEF way
  <2>6. leave' \in Way
    BY <2>3, <2>4, AfterSaveIsWay
  <2>7. saves' \in Seq(Saved) /\ device' \in {None} \cup Record /\ base' \in {None} \cup Workspace
    BY <2>2, <2>4, EnqueueTypes DEF Types
  <2> QED
    BY <2>2, <2>5, <2>6, <2>7, WorkspacesTypes DEF Types, Workspaces
<1> QED
  BY <1>1, <1>2, <1>3, <1>4

LEMMA TypesStep == ASSUME Types, [Next]_vars PROVE Types'
<1>1. CASE Environment
  BY <1>1 DEF Environment, Types, hosted, kept
<1>2. CASE UNCHANGED vars
  BY <1>2 DEF vars, Types, hosted, kept, history
<1>3. ASSUME NEW c \in calls \cup adrift, Answer(c) \/ Unauthorized(c) PROVE Types'
  BY <1>3, AnswerTypes, RefusedTypes DEF Answer, Unauthorized
<1>4. ASSUME NEW c \in calls \cup adrift,
             Serve(c) \/ Arrives(c) \/ ServeErase(c) \/ EraseAnswered(c) \/ Lost(c)
      PROVE  Types'
  BY <1>4, ServingTypes
<1> QED
  BY <1>1, <1>2, <1>3, <1>4, GateTypes, WritingTypes, SavingTypes, RefusedTypes, AskingTypes, LeavingTypes
  DEF Next

-----------------------------------------------------------------------------
(* What was published.  A workspace with a link agrees with its page; a    *)
(* publication under way has a page to itself, which is free until the     *)
(* request is served; what was revoked stays so.                           *)
FaithfulTo(ws, rows) == ws.link # 0 => /\ rows[ws.link].state # "free"
                                       /\ rows[ws.link].readers = ws.readers
GoneIn(s, rows) == rows[s].state \in {"revoked", "erased"}
IsPublication(c) == c.kind = "publish"
IsRevocation(c) == c.kind \in {"revoke", "library"}
PublicationIn(c, rows) ==
    /\ c.at = "sent" => rows[c.slug].state = "free"
    /\ c.at = "ok" => rows[c.slug].state # "free" /\ rows[c.slug].readers = c.readers

PublishedInv ==
    /\ FaithfulTo(stored, pages)
    /\ device # None => FaithfulTo(device.ws, pages)
    /\ app.open => FaithfulTo(app.ws, pages)
    /\ \A k \in DOMAIN saves : FaithfulTo(saves[k].ws, pages)
CallsInv ==
    /\ \A c \in adrift : c.at = "sent"
    /\ \A c \in calls \cup adrift : IsPublication(c) => PublicationIn(c, pages)
    /\ \A c \in calls : IsPublication(c) => app.ws.readers = c.readers
    /\ \A c, d \in calls : IsPublication(c) /\ IsPublication(d) => c = d
    /\ \A c \in calls, d \in adrift : IsPublication(c) /\ IsPublication(d) => c.slug # d.slug
    /\ \A c, d \in adrift : IsPublication(c) /\ IsPublication(d) /\ c.slug = d.slug => c = d
    /\ \A c \in calls : IsRevocation(c) /\ c.at = "ok" => GoneIn(c.slug, pages)
ErasedInv ==
    /\ erased => Pendings("publish") = {} /\ \A s \in Slug : pages[s].state # "live"
    /\ Pendings("publish") = {} \/ Pendings("erase") = {}
ToldInv == \A s \in told : GoneIn(s, pages)
PagesInd == Types /\ PublishedInv /\ CallsInv /\ ErasedInv /\ ToldInv

(* The author changes no readers and publishes nothing while asking.       *)
PatientPublisher == "readers" \notin Overlap /\ "publish" \notin Overlap

LEMMA PagesIndIsPagesAsShown == PagesInd => PagesAsShown
<1> SUFFICES ASSUME PagesInd PROVE PagesAsShown
  OBVIOUS
<1>1. ASSUME app.open, NEW s \in Slug, app.ws.link = s PROVE pages[s].readers = app.ws.readers
  <2>1. s # 0
    BY HostedPageAssumption
  <2> QED
    BY <1>1, <2>1 DEF PagesInd, PublishedInv, FaithfulTo
<1>2. \A s \in told : ~Live(s)
  BY DEF PagesInd, ToldInv, GoneIn, Live
<1>3. erased => \A s \in Slug : ~Live(s)
  BY DEF PagesInd, ErasedInv, Live
<1> QED
  BY <1>1, <1>2, <1>3 DEF PagesAsShown

(* Rows only age: what is published keeps its readers, and what is gone    *)
(* stays gone.                                                             *)
Ages(rows, next) ==
    \A s \in Slug : /\ rows[s].state # "free" => next[s].state # "free" /\ next[s].readers = rows[s].readers
                    /\ GoneIn(s, rows) => GoneIn(s, next)

LEMMA FaithfulAges ==
    ASSUME NEW rows, NEW next, Ages(rows, next)
    PROVE  \A ws \in Workspace : FaithfulTo(ws, rows) => FaithfulTo(ws, next)
  BY DEF Ages, FaithfulTo, Workspace

LEMMA SavesTyped == Types => \A k \in DOMAIN saves : saves[k] \in Saved /\ saves[k].ws \in Workspace
<1> SUFFICES ASSUME Types, NEW k \in DOMAIN saves PROVE saves[k] \in Saved /\ saves[k].ws \in Workspace
  OBVIOUS
<1>1. saves[k] \in Saved
  BY DEF Types
<1> QED
  BY <1>1 DEF Saved

LEMMA PublishedAges ==
    ASSUME Types, PublishedInv, Ages(pages, pages'), UNCHANGED <<device, app, saves>>,
           stored' = stored \/ stored'.link = 0
    PROVE  PublishedInv'
<1>1. \A ws \in Workspace : FaithfulTo(ws, pages) => FaithfulTo(ws, pages')
  BY FaithfulAges
<1>2. FaithfulTo(stored', pages')
  BY <1>1 DEF PublishedInv, Types, FaithfulTo
<1>3. device' # None => FaithfulTo(device'.ws, pages')
  BY <1>1 DEF PublishedInv, Types, Record
<1>4. app'.open => FaithfulTo(app'.ws, pages')
  BY <1>1, OpenApp DEF PublishedInv, Opening
<1>5. \A k \in DOMAIN saves' : FaithfulTo(saves'[k].ws, pages')
  BY <1>1, SavesTyped DEF PublishedInv
<1> QED
  BY <1>2, <1>3, <1>4, <1>5 DEF PublishedInv

-----------------------------------------------------------------------------
(* Steps that leave the pages.                                             *)
LEMMA ClosesPages ==
    ASSUME PagesInd, Types', NEW way, Unmounts(way), device' \in {device, None},
           UNCHANGED <<stored, pages, erased, told>>
    PROVE  PagesInd'
<1>1. /\ app' = Closed /\ saves' = <<>> /\ calls' = {}
      /\ adrift' = adrift \cup {c \in calls : c.at = "sent"}
  BY DEF Unmounts
<1>2. PublishedInv'
  <2>1. ~app'.open /\ DOMAIN saves' = {}
    BY <1>1 DEF Closed
  <2> QED
    BY <2>1 DEF PagesInd, PublishedInv
<1>3. CallsInv'
  <2>1. \A c \in adrift' : c.at = "sent" /\ c \in calls \cup adrift
    BY <1>1 DEF PagesInd, CallsInv
  <2>2. \A c, d \in adrift' : IsPublication(c) /\ IsPublication(d) /\ c.slug = d.slug => c = d
    BY <1>1 DEF PagesInd, CallsInv
  <2> QED
    BY <1>1, <2>1, <2>2 DEF PagesInd, CallsInv
<1>4. ErasedInv'
  <2>1. \A kind : Pendings(kind)' \subseteq Pendings(kind)
    BY <1>1 DEF Pendings
  <2> QED
    BY <2>1 DEF PagesInd, ErasedInv
<1> QED
  BY <1>2, <1>3, <1>4 DEF PagesInd, ToldInv

LEMMA WorkspacesPages ==
    ASSUME PagesInd, Types', PublishedInv', UNCHANGED <<pages, erased, calls, adrift, told>>,
           \A c \in calls : IsPublication(c) => app'.ws.readers = app.ws.readers
    PROVE  PagesInd'
<1>1. CallsInv'
  BY DEF PagesInd, CallsInv
<1>2. ErasedInv'
  BY DEF PagesInd, ErasedInv, Pendings
<1> QED
  BY <1>1, <1>2 DEF PagesInd, ToldInv

LEMMA GatePages == ASSUME PagesInd, Types', Verification \/ VerificationFails \/ Again PROVE PagesInd'
<1>1. CASE app.open /\ Unmounts(leave) /\ UNCHANGED device
  BY <1>1, GateStep, ClosesPages
<1>2. CASE ~app.open /\ Mounts
  <2> DEFINE ws == IF Pending THEN device.ws ELSE stored
  <2>1. FaithfulTo(ws, pages)
    BY DEF Pending, PagesInd, PublishedInv
  <2>2. app' = Opened(ws) /\ UNCHANGED <<saves, calls>> /\ (device' = device \/ device' = [ws |-> stored, pending |-> FALSE])
    BY <1>2 DEF Mounts
  <2> HIDE DEF ws
  <2>3. PublishedInv'
    BY <2>1, <2>2, GateStep, OpenedIs DEF PagesInd, PublishedInv
  <2>4. calls = {} /\ UNCHANGED <<pages, erased, calls, adrift, told>>
    BY <1>2, GateStep DEF Mounts, PagesInd, Types
  <2> QED
    BY <2>3, <2>4, WorkspacesPages
<1>3. CASE UNCHANGED <<app, kept, calls, adrift>>
  <2>1. UNCHANGED <<stored, pages, erased, told, app, device, saves, calls, adrift>>
    BY <1>3, GateStep DEF kept
  <2>2. PublishedInv'
    BY <2>1 DEF PagesInd, PublishedInv
  <2> QED
    BY <2>1, <2>2, WorkspacesPages
<1> QED
  BY <1>1, <1>2, <1>3, GateStep

LEMMA AppendedSave ==
    ASSUME Types, NEW ws \in Workspace, NEW by \in {"timer", "online", "leave"}
    PROVE  LET all == Append(saves, [ws |-> ws, by |-> by]) IN
           /\ Len(all) = Len(saves) + 1 /\ DOMAIN all = 1 .. Len(saves) + 1
           /\ all[Len(saves) + 1] = [ws |-> ws, by |-> by]
           /\ DOMAIN saves = 1 .. Len(saves) /\ Len(saves) \in Nat
           /\ \A k \in DOMAIN saves : all[k] = saves[k]
<1>1. saves \in Seq(Saved) /\ [ws |-> ws, by |-> by] \in Saved
  BY DEF Types, Saved
<1> QED
  BY <1>1

LEMMA EnqueuePublished ==
    ASSUME Types, NEW by \in {"timer", "online", "leave"}, Enqueue(app.ws, by), app.open, PublishedInv,
           UNCHANGED <<stored, pages>>, app'.open, app'.ws = app.ws
    PROVE  PublishedInv'
<1> DEFINE all == Append(saves, [ws |-> app.ws, by |-> by])
           n == Len(saves)
<1>0. app.ws \in Workspace /\ FaithfulTo(app.ws, pages)
  BY OpenApp DEF Opening, PublishedInv
<1>1. /\ saves' = all /\ DOMAIN all = 1 .. n + 1
      /\ all[n + 1] = [ws |-> app.ws, by |-> by] /\ DOMAIN saves = 1 .. n /\ n \in Nat
      /\ \A k \in DOMAIN saves : all[k] = saves[k]
  BY <1>0, AppendedSave DEF Enqueue
<1> HIDE DEF all, n
<1>2. \A k \in DOMAIN saves' : FaithfulTo(saves'[k].ws, pages)
  <2> SUFFICES ASSUME NEW k \in DOMAIN saves' PROVE FaithfulTo(saves'[k].ws, pages)
    OBVIOUS
  <2>1. k = n + 1 \/ k \in DOMAIN saves
    BY <1>1
  <2> QED
    BY <1>0, <1>1, <2>1 DEF PublishedInv
<1>3. device' = [ws |-> app.ws, pending |-> TRUE]
  BY DEF Enqueue
<1> QED
  BY <1>0, <1>2, <1>3 DEF PublishedInv

LEMMA WritingPages ==
    ASSUME PagesInd, PatientPublisher, Types',
           Write \/ AutoSave \/ Retry \/ Downloads \/ \E who \in {"signed_in", "public"} : Readers(who)
    PROVE  PagesInd'
<1>0. /\ Types /\ PublishedInv /\ app.open /\ app \in Opening /\ app.ws \in Workspace
      /\ FaithfulTo(app.ws, pages)
  <2>1. app.open
    BY DEF Write, AutoSave, Retry, Downloads, Readers, MaySave
  <2> QED
    BY <2>1, OpenApp DEF Opening, PagesInd, PublishedInv
<1>1. CASE Write
  <2> DEFINE ws == [app.ws EXCEPT !.words = @ + 1]
  <2>1. ws.link = app.ws.link /\ ws.readers = app.ws.readers
    BY <1>0 DEF Workspace
  <2>2. app' = Opened(ws)
    BY <1>0, <1>1, ShownOpen DEF Write
  <2>3. UNCHANGED <<stored, pages, erased, told, device, saves, calls, adrift>>
    BY <1>1 DEF Write, hosted, kept, history
  <2> HIDE DEF ws
  <2>4. PublishedInv'
    BY <1>0, <2>1, <2>2, <2>3, OpenedIs DEF PublishedInv, FaithfulTo
  <2> QED
    BY <2>1, <2>2, <2>3, <2>4, OpenedIs, WorkspacesPages
<1>2. CASE \E who \in {"signed_in", "public"} : Readers(who)
  <2>1. PICK who \in {"signed_in", "public"} : Readers(who)
    BY <1>2
  <2> DEFINE ws == [app.ws EXCEPT !.readers = who]
  <2>2. ws.link = 0
    BY <1>0, <2>1 DEF Readers, Workspace
  <2>3. app' = Opened(ws)
    BY <1>0, <2>1, ShownOpen DEF Readers
  <2>4. UNCHANGED <<stored, pages, erased, told, device, saves, calls, adrift>>
    BY <2>1 DEF Readers, hosted, kept, history
  <2>5. \A c \in calls : ~IsPublication(c)
    BY <2>1 DEF Readers, Waits, PatientPublisher, IsPublication
  <2> HIDE DEF ws
  <2>6. PublishedInv'
    BY <1>0, <2>2, <2>3, <2>4, OpenedIs DEF PublishedInv, FaithfulTo
  <2> QED
    BY <2>4, <2>5, <2>6, WorkspacesPages
<1>3. CASE AutoSave
  <2>1. app'.open /\ app'.ws = app.ws /\ UNCHANGED <<stored, pages, erased, told, calls, adrift>>
    BY <1>0, <1>3 DEF AutoSave, Opening, hosted, history
  <2>2. CASE Enqueue(app.ws, "timer")
    BY <1>0, <2>1, <2>2, EnqueuePublished, WorkspacesPages
  <2>3. CASE UNCHANGED <<device, saves>>
    <3>1. PublishedInv'
      BY <1>0, <2>1, <2>3 DEF PublishedInv
    <3> QED
      BY <2>1, <3>1, WorkspacesPages
  <2> QED
    BY <1>3, <2>2, <2>3 DEF AutoSave
<1>4. CASE Retry
  <2>1. UNCHANGED <<app, stored, pages, erased, told, calls, adrift>> /\ Enqueue(app.ws, "online")
    BY <1>4 DEF Retry, hosted, history
  <2> QED
    BY <1>0, <2>1, EnqueuePublished, WorkspacesPages
<1>5. CASE Downloads
  <2>1. UNCHANGED <<app, stored, pages, erased, told, calls, adrift, device, saves>>
    BY <1>5 DEF Downloads, hosted, kept
  <2>2. PublishedInv'
    BY <1>0, <2>1 DEF PublishedInv
  <2> QED
    BY <2>1, <2>2, WorkspacesPages
<1> QED
  BY <1>1, <1>2, <1>3, <1>4, <1>5

LEMMA HeadAndTail ==
    ASSUME Types, saves # <<>>
    PROVE  /\ Head(saves) = saves[1] /\ Len(saves) \in Nat /\ Len(saves) > 0
           /\ DOMAIN saves = 1 .. Len(saves) /\ Len(Tail(saves)) = Len(saves) - 1
           /\ DOMAIN Tail(saves) = 1 .. Len(saves) - 1
           /\ \A k \in DOMAIN Tail(saves) : k + 1 \in DOMAIN saves /\ Tail(saves)[k] = saves[k + 1]
<1>1. saves \in Seq(Saved)
  BY DEF Types
<1> QED
  BY <1>1, HeadTailProperties

LEMMA SavingPages ==
    ASSUME PagesInd, Types', SaveArrives \/ \E result \in {"synchronized", "unsynced"} : SaveEnds(result)
    PROVE  PagesInd'
<1>0. /\ Types /\ PublishedInv /\ saves # <<>> /\ UNCHANGED <<app, pages, erased, told, calls, adrift>>
  BY DEF PagesInd, SaveArrives, SaveEnds, hosted, kept, history
<1>1. FaithfulTo(Head(saves).ws, pages)
  BY <1>0, HeadAndTail DEF PublishedInv
<1>2. CASE SaveArrives
  <2>1. stored' = Head(saves).ws /\ UNCHANGED <<device, saves>>
    BY <1>2 DEF SaveArrives, kept
  <2>2. PublishedInv'
    BY <1>0, <1>1, <2>1 DEF PublishedInv
  <2> QED
    BY <1>0, <2>2, WorkspacesPages
<1>3. CASE \E result \in {"synchronized", "unsynced"} : SaveEnds(result)
  <2>1. /\ stored' = stored /\ saves' = Tail(saves)
        /\ device' = device \/ device' = [ws |-> Head(saves).ws, pending |-> FALSE]
    BY <1>3 DEF SaveEnds, hosted
  <2>2. \A k \in DOMAIN saves' : FaithfulTo(saves'[k].ws, pages)
    BY <1>0, <2>1, HeadAndTail DEF PublishedInv
  <2>3. PublishedInv'
    BY <1>0, <1>1, <2>1, <2>2 DEF PublishedInv
  <2> QED
    BY <1>0, <2>3, WorkspacesPages
<1> QED
  BY <1>2, <1>3

LEMMA RefusedPages ==
    ASSUME PagesInd, Types', SaveRefused \/ (\E c \in calls : Unauthorized(c)) \/ Goes PROVE PagesInd'
<1>1. UNCHANGED <<stored, pages, erased, told>>
  BY DEF SaveRefused, Unauthorized, Goes, hosted, history
<1>2. PICK way : Unmounts(way) /\ device' \in {device, None}
  BY DEF SaveRefused, Unauthorized, Goes
<1> QED
  BY <1>1, <1>2, ClosesPages

LEMMA LeavingPages ==
    ASSUME PagesInd, Types', Clear \/ \E kind \in {"signOut", "update"} : Begins(kind) PROVE PagesInd'
<1>0. Types /\ PublishedInv /\ UNCHANGED <<stored, app, pages, erased, told, calls, adrift>>
  BY DEF PagesInd, Clear, Begins, hosted, history
<1>1. CASE Clear
  <2>1. device' \in {device, None} /\ saves' = saves
    BY <1>1 DEF Clear
  <2>2. PublishedInv'
    BY <1>0, <2>1 DEF PublishedInv
  <2> QED
    BY <1>0, <2>2, WorkspacesPages
<1>2. CASE \E kind \in {"signOut", "update"} : Begins(kind)
  <2>1. app.open /\ (UNCHANGED <<device, saves>> \/ Enqueue(app.ws, "leave"))
    BY <1>2 DEF Begins
  <2>2. CASE UNCHANGED <<device, saves>>
    <3>1. PublishedInv'
      BY <1>0, <2>2 DEF PublishedInv
    <3> QED
      BY <1>0, <3>1, WorkspacesPages
  <2>3. CASE Enqueue(app.ws, "leave")
    BY <1>0, <2>1, <2>3, EnqueuePublished, WorkspacesPages
  <2> QED
    BY <2>1, <2>2, <2>3
<1> QED
  BY <1>1, <1>2

-----------------------------------------------------------------------------
(* Requests.                                                               *)
LEMMA PendingIs == \A kind, c : c \in Pendings(kind) <=> c \in calls \cup adrift /\ c.kind = kind
  BY DEF Pendings

LEMMA PendingThen == \A kind, c : c \in Pendings(kind)' <=> c \in calls' \cup adrift' /\ c.kind = kind
  BY DEF Pendings

LEMMA RestPublished ==
    ASSUME PublishedInv, UNCHANGED <<stored, device, app, saves, pages>> PROVE PublishedInv'
  BY DEF PublishedInv

LEMMA AsksPages ==
    ASSUME PagesInd, Types', NEW c, Asks(c), c.at = "sent", ~IsPublication(c), c.kind # "erase"
    PROVE  PagesInd'
<1>0. /\ calls' = calls \cup {c}
      /\ UNCHANGED <<stored, device, app, saves, pages, erased, told, adrift>>
  BY DEF Asks, hosted, kept, history
<1>1. CallsInv'
  BY <1>0 DEF PagesInd, CallsInv
<1>2. Pendings("publish")' = Pendings("publish") /\ Pendings("erase")' = Pendings("erase")
  BY <1>0 DEF Pendings, IsPublication
<1>3. ErasedInv'
  BY <1>0, <1>2 DEF PagesInd, ErasedInv
<1> QED
  BY <1>0, <1>1, <1>3, RestPublished DEF PagesInd, ToldInv

LEMMA PublishPages == ASSUME PagesInd, PatientPublisher, Types', Publish PROVE PagesInd'
<1> DEFINE s == Min(Unused)
           c == Call("publish", s, app.ws.readers)
<1>0. /\ app.open /\ ~Waits(Panel) /\ ~erased /\ Pendings("erase") = {} /\ Asks(c)
  BY DEF Publish, PatientPublisher
<1>1. s \in Slug /\ pages[s].state = "free" /\ \A d \in Pendings("publish") : d.slug # s
  BY UnusedSlug DEF Publish, Unused
<1>2. c.kind = "publish" /\ c.slug = s /\ c.readers = app.ws.readers /\ c.at = "sent"
  BY DEF Call
<1>3. /\ calls' = calls \cup {c}
      /\ UNCHANGED <<stored, device, app, saves, pages, erased, told, adrift>>
  BY <1>0 DEF Asks, hosted, kept, history
<1> HIDE DEF s, c
<1>4. \A d \in calls : ~IsPublication(d)
  BY <1>0 DEF Waits, Panel, IsPublication
<1>5. \A d \in adrift : IsPublication(d) => d.slug # s
  BY <1>1, PendingIs DEF IsPublication
<1>6. PublicationIn(c, pages)
  BY <1>1, <1>2 DEF PublicationIn
<1>7. CallsInv'
  BY <1>2, <1>3, <1>4, <1>5, <1>6 DEF PagesInd, CallsInv, IsPublication, IsRevocation
<1>8. Pendings("erase")' = {}
  BY <1>0, <1>2, <1>3, PendingIs, PendingThen
<1>9. ErasedInv'
  BY <1>0, <1>3, <1>8 DEF ErasedInv
<1> QED
  BY <1>3, <1>7, <1>9, RestPublished DEF PagesInd, ToldInv

LEMMA AskingPages ==
    ASSUME PagesInd, PatientPublisher, Types', Publish \/ Revoke \/ \E s \in Slug : RevokeListed(s)
    PROVE  PagesInd'
<1>1. CASE Revoke
  <2> DEFINE c == Call("revoke", app.ws.link, "none")
  <2>1. c.at = "sent" /\ ~IsPublication(c) /\ c.kind # "erase" /\ Asks(c)
    BY <1>1 DEF Revoke, Call, IsPublication
  <2> QED
    BY <2>1, AsksPages
<1>2. CASE \E s \in Slug : RevokeListed(s)
  <2>1. PICK s \in Slug : RevokeListed(s)
    BY <1>2
  <2> DEFINE c == Call("library", s, "none")
  <2>2. c.at = "sent" /\ ~IsPublication(c) /\ c.kind # "erase" /\ Asks(c)
    BY <2>1 DEF RevokeListed, Call, IsPublication
  <2> QED
    BY <2>2, AsksPages
<1> QED
  BY <1>1, <1>2, PublishPages

(* What the Worker does to the rows.                                       *)
LEMMA ReachesRows ==
    ASSUME Types, NEW c \in Asked, c.kind # "erase", c.at = "sent", Reaches(c),
           IsPublication(c) => pages[c.slug].state = "free"
    PROVE  /\ Ages(pages, pages')
           /\ \A s \in Slug : s # c.slug => pages'[s] = pages[s]
           /\ ~IsPublication(c) => \A s \in Slug : pages[s].state # "live" => pages'[s] = pages[s]
           /\ ~IsPublication(c) => \A s \in Slug : pages'[s].state = "live" => pages[s].state = "live"
           /\ Outcome(c) = "ok" /\ IsPublication(c) =>
                 pages'[c.slug].state # "free" /\ pages'[c.slug].readers = c.readers
           /\ Outcome(c) = "ok" /\ IsRevocation(c) => GoneIn(c.slug, pages')
           /\ Outcome(c) # "sent"
<1>0. pages \in [Slug -> Page] /\ c.slug \in Slug
  BY AskedIs DEF Types
<1>1. CASE ~signedIn
  <2>1. pages' = pages /\ Outcome(c) = "unauthorized"
    BY <1>1 DEF Reaches, Outcome
  <2> QED
    BY <2>1 DEF Ages
<1>2. CASE signedIn /\ IsPublication(c)
  <2> DEFINE row == [state |-> "live", readers |-> c.readers]
  <2>1. pages' = [pages EXCEPT ![c.slug] = row] /\ Outcome(c) = "ok"
    BY <1>2 DEF Reaches, Effect, Outcome, IsPublication
  <2>2. pages'[c.slug] = row /\ \A s \in Slug : s # c.slug => pages'[s] = pages[s]
    BY <1>0, <2>1
  <2>3. Ages(pages, pages')
    BY <1>0, <1>2, <2>2 DEF Ages, GoneIn
  <2> QED
    BY <1>2, <2>1, <2>2, <2>3 DEF IsPublication, IsRevocation
<1>3. CASE signedIn /\ ~IsPublication(c) /\ pages[c.slug].state = "live"
  <2> DEFINE row == [pages[c.slug] EXCEPT !.state = "revoked"]
  <2>1. IsRevocation(c)
    BY <1>3, AskedIs DEF IsPublication, IsRevocation
  <2>2. pages' = [pages EXCEPT ![c.slug] = row] /\ Outcome(c) = "ok"
    BY <1>0, <1>3, <2>1 DEF Reaches, Effect, Outcome, IsPublication, IsRevocation, Live
  <2>3. row.state = "revoked" /\ row.readers = pages[c.slug].readers
    BY <1>0 DEF Page
  <2>4. pages'[c.slug] = row /\ \A s \in Slug : s # c.slug => pages'[s] = pages[s]
    BY <1>0, <2>2
  <2> HIDE DEF row
  <2>5. Ages(pages, pages')
    BY <1>0, <1>3, <2>3, <2>4 DEF Ages, GoneIn
  <2> QED
    BY <1>3, <2>1, <2>2, <2>3, <2>4, <2>5 DEF GoneIn
<1>4. CASE signedIn /\ ~IsPublication(c) /\ pages[c.slug].state # "live"
  <2>1. pages' = pages
    BY <1>4 DEF Reaches, Effect, IsPublication, Live
  <2>2. Outcome(c) = "refused"
    BY <1>4, AskedIs DEF Outcome, IsPublication, Live
  <2> QED
    BY <1>4, <2>1, <2>2 DEF Ages
<1> QED
  BY <1>1, <1>2, <1>3, <1>4

LEMMA ServePages == ASSUME PagesInd, Types', NEW c, Serve(c) PROVE PagesInd'
<1> DEFINE d == [c EXCEPT !.at = Outcome(c)]
<1>0. /\ c \in calls /\ c.at = "sent" /\ c.kind # "erase" /\ c \in Asked /\ Reaches(c)
      /\ calls' = (calls \ {c}) \cup {d} /\ c.slug \in Slug
      /\ UNCHANGED <<stored, device, app, saves, erased, told, adrift>>
  BY AskedIs DEF Serve, Reaches, PagesInd, Types, kept, history
<1>1. d.kind = c.kind /\ d.slug = c.slug /\ d.readers = c.readers /\ d.at = Outcome(c)
  BY <1>0 DEF Asked
<1> HIDE DEF d
<1>2. IsPublication(c) => pages[c.slug].state = "free"
  BY <1>0 DEF PagesInd, CallsInv, PublicationIn
<1>3. /\ Ages(pages, pages')
      /\ \A s \in Slug : s # c.slug => pages'[s] = pages[s]
      /\ ~IsPublication(c) => \A s \in Slug : pages[s].state # "live" => pages'[s] = pages[s]
      /\ ~IsPublication(c) => \A s \in Slug : pages'[s].state = "live" => pages[s].state = "live"
      /\ Outcome(c) = "ok" /\ IsPublication(c) =>
            pages'[c.slug].state # "free" /\ pages'[c.slug].readers = c.readers
      /\ Outcome(c) = "ok" /\ IsRevocation(c) => GoneIn(c.slug, pages')
      /\ Outcome(c) # "sent"
  BY <1>0, <1>2, ReachesRows DEF PagesInd
<1>4. PublishedInv'
  BY <1>0, <1>3, PublishedAges DEF PagesInd
<1>5. ASSUME NEW e \in calls \cup adrift, e # c, IsPublication(e) PROVE PublicationIn(e, pages')
  <2>1. PublicationIn(e, pages) /\ e.slug \in Slug
    BY <1>5, AskedIs DEF PagesInd, CallsInv, Types, IsPublication
  <2>2. e.slug # c.slug \/ ~IsPublication(c)
    BY <1>0, <1>5 DEF PagesInd, CallsInv
  <2>3. CASE e.slug # c.slug
    BY <1>3, <2>1, <2>3 DEF PublicationIn
  <2>4. CASE ~IsPublication(c)
    BY <1>3, <2>1, <2>4 DEF PublicationIn, Ages
  <2> QED
    BY <2>2, <2>3, <2>4
<1>6. IsPublication(d) => PublicationIn(d, pages')
  BY <1>1, <1>3 DEF PublicationIn, IsPublication
<1>7. c \in adrift => ~IsPublication(c)
  BY <1>0 DEF PagesInd, CallsInv
<1>8. \A e \in calls' \cup adrift' : IsPublication(e) => PublicationIn(e, pages')
  BY <1>0, <1>5, <1>6, <1>7
<1>9. \A e \in calls' : IsRevocation(e) /\ e.at = "ok" => GoneIn(e.slug, pages')
  <2>1. ASSUME NEW e \in calls, IsRevocation(e), e.at = "ok" PROVE GoneIn(e.slug, pages')
    BY <1>3, <2>1, AskedIs DEF PagesInd, CallsInv, Types, Ages, IsRevocation
  <2>2. IsRevocation(d) /\ d.at = "ok" => GoneIn(d.slug, pages')
    BY <1>1, <1>3 DEF IsRevocation
  <2> QED
    BY <1>0, <2>1, <2>2
<1>10. /\ \A e \in calls' : IsPublication(e) => app'.ws.readers = e.readers
       /\ \A e, f \in calls' : IsPublication(e) /\ IsPublication(f) => e = f
       /\ \A e \in calls', f \in adrift' : IsPublication(e) /\ IsPublication(f) => e.slug # f.slug
  BY <1>0, <1>1 DEF PagesInd, CallsInv, IsPublication
<1>11. CallsInv'
  BY <1>0, <1>8, <1>9, <1>10 DEF PagesInd, CallsInv
<1>12. ErasedInv'
  <2>1. \A kind : Pendings(kind) = {} => Pendings(kind)' = {}
    BY <1>0, <1>1, PendingIs, PendingThen
  <2>2. Pendings("publish") = {} => ~IsPublication(c)
    BY <1>0, PendingIs DEF IsPublication
  <2>3. erased => \A s \in Slug : pages'[s].state # "live"
    BY <1>3, <2>2 DEF PagesInd, ErasedInv
  <2> QED
    BY <1>0, <2>1, <2>3 DEF PagesInd, ErasedInv
<1>13. ToldInv'
  BY <1>0, <1>3 DEF PagesInd, ToldInv, Types, Ages
<1> QED
  BY <1>4, <1>11, <1>12, <1>13 DEF PagesInd

LEMMA ArrivesPages == ASSUME PagesInd, Types', NEW c, Arrives(c) PROVE PagesInd'
<1>0. /\ c \in adrift /\ c.at = "sent" /\ c.kind # "erase" /\ c \in Asked /\ Reaches(c)
      /\ adrift' = adrift \ {c} /\ c.slug \in Slug
      /\ UNCHANGED <<stored, device, app, saves, erased, told, calls>>
  BY AskedIs DEF Arrives, Reaches, PagesInd, CallsInv, Types, kept, history
<1>2. IsPublication(c) => pages[c.slug].state = "free"
  BY <1>0 DEF PagesInd, CallsInv, PublicationIn
<1>3. /\ Ages(pages, pages')
      /\ \A s \in Slug : s # c.slug => pages'[s] = pages[s]
      /\ ~IsPublication(c) => \A s \in Slug : pages[s].state # "live" => pages'[s] = pages[s]
      /\ ~IsPublication(c) => \A s \in Slug : pages'[s].state = "live" => pages[s].state = "live"
  BY <1>0, <1>2, ReachesRows DEF PagesInd
<1>4. PublishedInv'
  BY <1>0, <1>3, PublishedAges DEF PagesInd
<1>5. ASSUME NEW e \in calls' \cup adrift', IsPublication(e) PROVE PublicationIn(e, pages')
  <2>1. PublicationIn(e, pages) /\ e.slug \in Slug /\ e \in calls \cup adrift
    BY <1>0, <1>5, AskedIs DEF PagesInd, CallsInv, Types, IsPublication
  <2>2. e.slug # c.slug \/ ~IsPublication(c)
    BY <1>0, <1>5 DEF PagesInd, CallsInv
  <2>3. CASE e.slug # c.slug
    BY <1>3, <2>1, <2>3 DEF PublicationIn
  <2>4. CASE ~IsPublication(c)
    BY <1>3, <2>1, <2>4 DEF PublicationIn, Ages
  <2> QED
    BY <2>2, <2>3, <2>4
<1>9. ASSUME NEW e \in calls', IsRevocation(e), e.at = "ok" PROVE GoneIn(e.slug, pages')
  BY <1>0, <1>3, <1>9, AskedIs DEF PagesInd, CallsInv, Types, Ages, IsRevocation
<1>11. CallsInv'
  BY <1>0, <1>5, <1>9 DEF PagesInd, CallsInv
<1>12. ErasedInv'
  <2>1. \A kind : Pendings(kind) = {} => Pendings(kind)' = {}
    BY <1>0, PendingIs, PendingThen
  <2>2. Pendings("publish") = {} => ~IsPublication(c)
    BY <1>0, PendingIs DEF IsPublication
  <2>3. erased => \A s \in Slug : pages'[s].state # "live"
    BY <1>3, <2>2 DEF PagesInd, ErasedInv
  <2> QED
    BY <1>0, <2>1, <2>3 DEF PagesInd, ErasedInv
<1>13. ToldInv'
  BY <1>0, <1>3 DEF PagesInd, ToldInv, Types, Ages
<1> QED
  BY <1>4, <1>11, <1>12, <1>13 DEF PagesInd

LEMMA AnswerPages == ASSUME PagesInd, Types', NEW c, Answer(c) PROVE PagesInd'
<1>0. /\ c \in calls /\ c.at \in {"ok", "refused"} /\ c.kind # "erase" /\ calls' = calls \ {c}
      /\ UNCHANGED <<stored, pages, erased, device, saves, adrift>>
      /\ app.open /\ app \in Opening /\ app.ws \in Workspace /\ c.slug \in Slug /\ c \in Asked
  BY OpenApp, AskedIs DEF Answer, PagesInd, Types, Opening, hosted, kept
<1> DEFINE linked == [app.ws EXCEPT !.link = c.slug]
<1>1. /\ Unlinked.link = 0 /\ Unlinked.readers = app.ws.readers
      /\ linked.link = c.slug /\ linked.readers = app.ws.readers
  BY <1>0 DEF Workspace, Unlinked
<1>2. /\ app'.open /\ FaithfulTo(app'.ws, pages) /\ app'.ws.readers = app.ws.readers
      /\ \A s \in told' : GoneIn(s, pages)
  <2>0. FaithfulTo(app.ws, pages) /\ \A s \in told : GoneIn(s, pages)
    BY <1>0 DEF PagesInd, PublishedInv, ToldInv
  <2>1. CASE c.at # "ok"
    BY <1>0, <2>0, <2>1 DEF Answer
  <2>2. CASE c.at = "ok" /\ c.kind = "publish"
    <3>1. app' = Opened(linked) /\ told' = told
      BY <1>0, <2>2, ShownOpen DEF Answer, Applied
    <3>2. c.readers = app.ws.readers /\ PublicationIn(c, pages)
      BY <1>0, <2>2 DEF PagesInd, CallsInv, IsPublication
    <3>3. FaithfulTo(linked, pages)
      BY <1>1, <2>2, <3>2 DEF FaithfulTo, PublicationIn
    <3> HIDE DEF linked
    <3> QED
      BY <1>1, <2>0, <3>1, <3>3, OpenedIs
  <2>3. CASE c.at = "ok" /\ c.kind \in {"revoke", "library"}
    <3>1. (app' = Opened(Unlinked) \/ app' = app) /\ told' = told \cup {c.slug}
      BY <1>0, <2>3, ShownOpen DEF Answer, Applied
    <3>2. GoneIn(c.slug, pages)
      BY <1>0, <2>3 DEF PagesInd, CallsInv, IsRevocation
    <3>3. FaithfulTo(Unlinked, pages)
      BY <1>1 DEF FaithfulTo
    <3> QED
      BY <1>0, <1>1, <2>0, <3>1, <3>2, <3>3, OpenedIs
  <2> QED
    BY <1>0, <2>1, <2>2, <2>3, AskedIs
<1>3. PublishedInv'
  BY <1>0, <1>2 DEF PagesInd, PublishedInv
<1>4. CallsInv'
  BY <1>0, <1>2 DEF PagesInd, CallsInv
<1>5. \A kind : Pendings(kind) = {} => Pendings(kind)' = {}
  BY <1>0, PendingIs, PendingThen
<1>6. ErasedInv'
  BY <1>0, <1>5 DEF PagesInd, ErasedInv
<1> QED
  BY <1>0, <1>2, <1>3, <1>4, <1>6 DEF PagesInd, ToldInv

LEMMA LostPages == ASSUME PagesInd, Types', NEW c, Lost(c) PROVE PagesInd'
<1>0. /\ c \in calls /\ calls' = calls \ {c}
      /\ adrift' = IF c.at = "sent" THEN adrift \cup {c} ELSE adrift
      /\ UNCHANGED <<stored, pages, erased, app, device, saves, told>>
  BY DEF Lost, hosted
<1>1. CallsInv'
  BY <1>0 DEF PagesInd, CallsInv
<1>2. \A kind : Pendings(kind) = {} => Pendings(kind)' = {}
  BY <1>0, PendingIs, PendingThen
<1>3. ErasedInv'
  BY <1>0, <1>2 DEF PagesInd, ErasedInv
<1> QED
  BY <1>0, <1>1, <1>3, RestPublished DEF PagesInd, ToldInv

LEMMA ErasePages == ASSUME PagesInd, PatientPublisher, Types', Erase PROVE PagesInd'
<1> DEFINE c == Call("erase", 0, "none")
<1>0. /\ Pendings("publish") = {} /\ calls' = calls \cup {c}
      /\ UNCHANGED <<stored, pages, erased, app, device, saves, adrift, told>>
  BY DEF Erase, PatientPublisher, hosted
<1>1. c.kind = "erase" /\ c.at = "sent"
  BY DEF Call
<1> HIDE DEF c
<1>2. CallsInv'
  BY <1>0, <1>1 DEF PagesInd, CallsInv, IsPublication, IsRevocation
<1>3. Pendings("publish")' = {}
  BY <1>0, <1>1, PendingIs, PendingThen
<1>4. ErasedInv'
  BY <1>0, <1>3 DEF PagesInd, ErasedInv
<1> QED
  BY <1>0, <1>2, <1>4, RestPublished DEF PagesInd, ToldInv

LEMMA ServeErasePages == ASSUME PagesInd, Types', NEW c, ServeErase(c) PROVE PagesInd'
<1> DEFINE d == [c EXCEPT !.at = Outcome(c)]
<1>0. /\ c \in calls \cup adrift /\ c.kind = "erase" /\ c.at = "sent" /\ c \in Asked
      /\ adrift' = adrift \ {c}
      /\ calls' = IF c \in calls THEN (calls \ {c}) \cup {d} ELSE calls
      /\ UNCHANGED <<app, device, saves, told>>
  BY DEF ServeErase, PagesInd, Types, kept, history
<1>1. d.kind = "erase"
  BY <1>0 DEF Asked
<1> HIDE DEF d
<1>2. Pendings("publish") = {}
  <2>1. c \in Pendings("erase")
    BY <1>0, PendingIs
  <2> QED
    BY <2>1 DEF PagesInd, ErasedInv
<1>3. Pendings("publish")' = {}
  BY <1>0, <1>1, <1>2, PendingIs, PendingThen
<1>4. /\ Ages(pages, pages') /\ (stored' = stored \/ stored'.link = 0)
      /\ erased' => \A s \in Slug : pages'[s].state # "live"
  <2>1. CASE signedIn
    <3>1. pages' = AllPages /\ stored' = Blank
      BY <2>1 DEF ServeErase, Erased
    <3>2. \A s \in Slug : /\ pages[s].state = "free" => pages'[s] = pages[s]
                          /\ pages[s].state # "free" => /\ pages'[s].state = "erased"
                                                        /\ pages'[s].readers = pages[s].readers
      <4>1. \A s \in Slug : pages[s] \in Page
        BY DEF PagesInd, Types
      <4>2. \A s \in Slug : /\ [pages[s] EXCEPT !.state = "erased"].state = "erased"
                            /\ [pages[s] EXCEPT !.state = "erased"].readers = pages[s].readers
        BY <4>1 DEF Page
      <4> QED
        BY <3>1, <4>2 DEF AllPages
    <3>3. Ages(pages, pages')
      BY <3>2 DEF Ages, GoneIn
    <3> QED
      BY <3>1, <3>2, <3>3 DEF Blank
  <2>2. CASE ~signedIn
    <3>1. UNCHANGED <<stored, pages, erased>>
      BY <2>2 DEF ServeErase, hosted
    <3> QED
      BY <3>1 DEF Ages, PagesInd, ErasedInv
  <2> QED
    BY <2>1, <2>2
<1>5. PublishedInv'
  BY <1>0, <1>4, PublishedAges DEF PagesInd
<1>6. \A e \in calls' \cup adrift' : ~IsPublication(e)
  BY <1>3, PendingThen DEF IsPublication
<1>7. \A e \in calls' : IsRevocation(e) /\ e.at = "ok" => GoneIn(e.slug, pages')
  <2> SUFFICES ASSUME NEW e \in calls', IsRevocation(e), e.at = "ok" PROVE GoneIn(e.slug, pages')
    OBVIOUS
  <2>1. e \in calls
    BY <1>0, <1>1 DEF IsRevocation
  <2>2. e.slug \in Slug /\ GoneIn(e.slug, pages)
    BY <2>1, AskedIs DEF PagesInd, CallsInv, Types, IsRevocation
  <2> QED
    BY <1>4, <2>2 DEF Ages
<1>8. CallsInv'
  BY <1>0, <1>6, <1>7 DEF PagesInd, CallsInv
<1>9. ErasedInv'
  BY <1>3, <1>4 DEF ErasedInv
<1>10. ToldInv'
  BY <1>0, <1>4 DEF PagesInd, ToldInv, Types, Ages
<1> QED
  BY <1>5, <1>8, <1>9, <1>10 DEF PagesInd

LEMMA EraseAnsweredPages == ASSUME PagesInd, Types', NEW c, EraseAnswered(c) PROVE PagesInd'
<1>0. /\ calls' = calls \ {c}
      /\ UNCHANGED <<stored, pages, erased, app, device, saves, adrift, told>>
  BY DEF EraseAnswered, hosted, history
<1>1. CallsInv'
  BY <1>0 DEF PagesInd, CallsInv
<1>2. \A kind : Pendings(kind) = {} => Pendings(kind)' = {}
  BY <1>0, PendingIs, PendingThen
<1>3. ErasedInv'
  BY <1>0, <1>2 DEF PagesInd, ErasedInv
<1> QED
  BY <1>0, <1>1, <1>3, RestPublished DEF PagesInd, ToldInv

LEMMA PagesStep == PatientPublisher /\ PagesInd /\ [Next]_vars => PagesInd'
<1> SUFFICES ASSUME PatientPublisher, PagesInd, [Next]_vars PROVE PagesInd'
  OBVIOUS
<1>0. Types'
  BY TypesStep DEF PagesInd
<1>1. CASE UNCHANGED vars \/ Environment
  <2>1. UNCHANGED <<stored, pages, erased, app, device, saves, calls, adrift, told>>
    BY <1>1 DEF vars, Environment, hosted, kept, history
  <2> QED
    BY <1>0, <2>1, RestPublished, WorkspacesPages DEF PagesInd
<1>2. ASSUME NEW c \in calls \cup adrift, Answer(c) \/ Unauthorized(c) PROVE PagesInd'
  BY <1>0, <1>2, AnswerPages, RefusedPages DEF Answer, Unauthorized
<1>3. ASSUME NEW c \in calls \cup adrift,
             Serve(c) \/ Arrives(c) \/ ServeErase(c) \/ EraseAnswered(c) \/ Lost(c)
      PROVE  PagesInd'
  BY <1>0, <1>3, ServePages, ArrivesPages, ServeErasePages, EraseAnsweredPages, LostPages
<1> QED
  BY <1>0, <1>1, <1>2, <1>3, GatePages, WritingPages, SavingPages, RefusedPages, AskingPages, ErasePages, LeavingPages
  DEF Next

LEMMA TypesInit == Init => Types
<1> SUFFICES ASSUME Init PROVE Types
  OBVIOUS
<1>1. MaxWords \in Nat
  BY HostedPageAssumption
<1>2. Blank \in Workspace /\ [Blank EXCEPT !.words = IF plan = "publishing" THEN MaxWords ELSE 0] \in Workspace
  BY <1>1 DEF Blank, Workspace, Reader
<1>3. pages \in [Slug -> Page]
  BY DEF Init, Page, Reader
<1> QED
  BY <1>2, <1>3, StayingIsWay DEF Init, Types

LEMMA PagesInit == Init => PagesInd
<1> SUFFICES ASSUME Init PROVE PagesInd
  OBVIOUS
<1>1. stored.link = 0 /\ device = None /\ ~app.open /\ DOMAIN saves = {}
  BY DEF Init, Blank, Closed
<1>2. PublishedInv
  BY <1>1 DEF PublishedInv, FaithfulTo
<1>3. CallsInv /\ ErasedInv /\ ToldInv
  BY DEF Init, CallsInv, ErasedInv, ToldInv, Pendings
<1> QED
  BY <1>2, <1>3, TypesInit DEF PagesInd

(* What the panel shows of a published page is true of the page, whatever  *)
(* is lost, arrives late or is answered out of order, for any number of    *)
(* pages, while the author waits for an answer before changing readers,    *)
(* publishing or deleting the account (createShare, revokeShare and        *)
(* deleteAccount, worker/index.ts; their callers in App.tsx).              *)
THEOREM PagesAreAsShown == ASSUME PatientPublisher PROVE Spec => []PagesAsShown
<1>1. PagesInd /\ [Next]_vars => PagesInd'
  BY PagesStep
<1>2. Spec => []PagesInd
  BY PagesInit, <1>1, PTL DEF Spec
<1> QED
  BY <1>2, PagesIndIsPagesAsShown, PTL

-----------------------------------------------------------------------------
(* How the author leaves.  Words only grow on their way from the server    *)
(* over the device to the page, so a save that arrives, or a record that   *)
(* replaces another, loses none; and each await of a way out keeps what it *)
(* promised: the save of a way out is the way's own, a sign out clears the *)
(* cache with no save behind it, an account is erased before its cache is. *)
Held(words, server, downloads) == server.words >= words \/ \E file \in downloads : file.words >= words
OnDevice(words, record) == record # None /\ record.pending /\ record.ws.words >= words
AtEnd(way) == way.step \in {"clear", "go"}

WayInv(way) ==
    /\ way.kind = "none" => way = Staying
    /\ way.kind = "erase" => way.step \in {"ask", "clear", "go"} /\ way.covered
    /\ way.kind = "update" => way.step \in {"save", "go"}
    /\ way.kind = "signOut" => way.step \in {"save", "clear", "go"}
OfWay(queue, way) ==
    \A k \in DOMAIN queue : queue[k].by = "leave" =>
        /\ way.step = "save" /\ queue[k].ws = way.ws
        /\ way.kind = "signOut" /\ way.covered => k = Len(queue)
        /\ \A j \in DOMAIN queue : queue[j].by = "leave" => j = k
Grows(queue, server) ==
    /\ \A k \in DOMAIN queue : server.words <= queue[k].ws.words
    /\ \A j, k \in DOMAIN queue : j <= k => queue[j].ws.words <= queue[k].ws.words

SavesInv ==
    /\ saves # <<>> => app.open /\ status = "synchronizing"
    /\ OfWay(saves, leave)
    /\ leave.kind = "signOut" /\ AtEnd(leave) => saves = <<>>
StepsInv ==
    /\ WayInv(leave)
    /\ leave.kind = "signOut" /\ leave.covered => leave.ws \in files
    /\ leave # Staying => app.open \/ leave.step = "go"
    /\ leave.kind = "erase" /\ AtEnd(leave) => erased
    /\ leave.kind \in {"signOut", "erase"} /\ leave.step = "go" => device = None
    /\ \A way \in left : way.kind # "update" => ~way.cached
ErasingInv ==
    \A c \in calls : c.kind = "erase" =>
        /\ leave.kind = "erase" /\ leave.step = "ask"
        /\ c.at = "ok" => erased
        /\ \A d \in calls : d.kind = "erase" => d = c
WordsInv ==
    /\ base # None => base.words <= stored.words
    /\ device # None /\ device.pending => stored.words <= device.ws.words
    /\ app.open => /\ stored.words <= app.ws.words
                   /\ device # None => device.ws.words <= app.ws.words
    /\ Grows(saves, stored)
    /\ saves # <<>> => device = [ws |-> saves[Len(saves)].ws, pending |-> TRUE]
WayKept ==
    /\ app.open /\ leave.kind # "none" => leave.ws.words <= app.ws.words
    /\ leave.kind = "signOut" /\ AtEnd(leave) => Held(leave.ws.words, stored, files)
    /\ leave.kind = "update" /\ leave.step = "go" =>
          Held(leave.ws.words, stored, files) \/ OnDevice(leave.ws.words, device)
LeftKept ==
    \A way \in left : way.kind # "erase" =>
        /\ Held(way.ws.words, stored, files) \/ OnDevice(way.ws.words, device)
        /\ leave.kind # "none" => Held(way.ws.words, stored, files) \/ way.ws.words <= leave.ws.words
LeavingInd == /\ Types /\ SavesInv /\ StepsInv /\ ErasingInv
              /\ \A way \in left : way.ws \in Workspace
              /\ ~erased => WordsInv /\ WayKept /\ LeftKept

(* The author waits for a way out that a recovery covers.                  *)
PatientLeaver == "save" \notin Overlap

LEMMA LeavingIndIsKept == LeavingInd => LeavingKeepsWords
<1> SUFFICES ASSUME LeavingInd, NEW way \in left
             PROVE  /\ way.kind = "erase" \/ erased \/ Kept(way.ws.words)
                    /\ way.kind = "update" \/ ~way.cached
  BY DEF LeavingKeepsWords
<1>1. way.kind = "update" \/ ~way.cached
  BY DEF LeavingInd, StepsInv
<1>2. way.kind = "erase" \/ erased \/ Held(way.ws.words, stored, files) \/ OnDevice(way.ws.words, device)
  BY DEF LeavingInd, LeftKept
<1> QED
  BY <1>1, <1>2 DEF Held, OnDevice, Kept

(* Words are kept when the server's and the device's only grow.            *)
LEMMA HeldGrows ==
    ASSUME NEW words \in Nat, NEW server \in Workspace, NEW next \in Workspace, server.words <= next.words,
           NEW downloads, NEW more, downloads \subseteq more, Held(words, server, downloads)
    PROVE  Held(words, next, more)
<1>1. CASE server.words >= words
  <2>1. server.words \in Nat /\ next.words \in Nat
    BY DEF Workspace
  <2> QED
    BY <1>1, <2>1 DEF Held
<1>2. CASE \E file \in downloads : file.words >= words
  BY <1>2 DEF Held
<1> QED
  BY <1>1, <1>2 DEF Held

LEMMA WordsAreNumbers ==
    ASSUME Types
    PROVE  /\ stored.words \in Nat /\ leave.ws.words \in Nat /\ leave.ws \in Workspace
           /\ app.open => app.ws \in Workspace /\ app.ws.words \in Nat
           /\ device # None => device.ws \in Workspace /\ device.ws.words \in Nat
           /\ \A k \in DOMAIN saves : saves[k].ws.words \in Nat
           /\ base # None => base.words \in Nat
<1>1. \A ws \in Workspace : ws.words \in Nat
  BY DEF Workspace
<1>2. stored \in Workspace /\ leave.ws \in Workspace /\ (app.open => app.ws \in Workspace)
  BY OpenApp DEF Types, Way, Opening
<1>3. (device # None => device.ws \in Workspace) /\ (base # None => base \in Workspace)
  BY DEF Types, Record
<1>4. \A k \in DOMAIN saves : saves[k].ws \in Workspace
  BY SavesTyped
<1> QED
  BY <1>1, <1>2, <1>3, <1>4

LEMMA OpenThen == ASSUME Types', app'.open PROVE app' \in Opening /\ app'.ws.words \in Nat
<1>1. app' \in {Closed} \cup Opening
  BY DEF Types
<1>2. ~Closed.open
  BY DEF Closed
<1>3. app' \in Opening
  BY <1>1, <1>2
<1> QED
  BY <1>3 DEF Opening, Workspace

-----------------------------------------------------------------------------
(* Steps that save nothing and begin no way out.                           *)
LEMMA PageLeaving ==
    ASSUME LeavingInd, Types', UNCHANGED <<stored, erased, device, saves, status, base, leave, left>>,
           files \subseteq files', app'.open = app.open, app.open => app.ws.words <= app'.ws.words,
           \A c \in calls' : c.kind = "erase" => c \in calls
    PROVE  LeavingInd'
<1>0. /\ stored \in Workspace /\ leave.ws.words \in Nat /\ Types
      /\ \A way \in left : way.ws.words \in Nat
      /\ \A way \in left : way.ws \in Workspace
  BY WordsAreNumbers DEF LeavingInd, Types, Workspace
<1>1. SavesInv'
  BY DEF LeavingInd, SavesInv
<1>2. StepsInv'
  BY DEF LeavingInd, StepsInv
<1>3. ErasingInv'
  BY DEF LeavingInd, ErasingInv
<1> SUFFICES ASSUME ~erased PROVE (WordsInv /\ WayKept /\ LeftKept)'
  BY <1>0, <1>1, <1>2, <1>3 DEF LeavingInd
<1>4. \A words \in Nat : Held(words, stored, files) => Held(words, stored, files')
  <2>1. stored.words <= stored.words
    BY WordsAreNumbers, <1>0
  <2> QED
    BY <1>0, <2>1, HeldGrows
<1>5. WordsInv'
  <2>1. app.open => app.ws.words \in Nat /\ app'.ws.words \in Nat
    BY <1>0, WordsAreNumbers, OpenThen
  <2>2. WordsInv
    BY DEF LeavingInd
  <2>3. app'.open => /\ stored.words <= app'.ws.words
                     /\ device # None => device.ws.words <= app'.ws.words
    BY <1>0, <2>1, <2>2, WordsAreNumbers DEF WordsInv
  <2> QED
    BY <2>2, <2>3 DEF WordsInv
<1>6. WayKept'
  <2>1. app'.open /\ leave.kind # "none" => leave.ws.words <= app'.ws.words
    <3> SUFFICES ASSUME app.open, leave.kind # "none" PROVE leave.ws.words <= app'.ws.words
      OBVIOUS
    <3>1. app.ws.words \in Nat /\ app'.ws.words \in Nat
      BY <1>0, WordsAreNumbers, OpenThen
    <3>3. leave.ws.words <= app.ws.words
      BY DEF LeavingInd, WayKept
    <3> QED
      BY <1>0, <3>1, <3>3
  <2> QED
    BY <1>0, <1>4, <2>1 DEF LeavingInd, WayKept
<1>7. LeftKept'
  BY <1>0, <1>4 DEF LeavingInd, LeftKept
<1> QED
  BY <1>5, <1>6, <1>7

LEMMA WritingLeaving ==
    ASSUME LeavingInd, Types', Write \/ Downloads \/ \E who \in {"signed_in", "public"} : Readers(who)
    PROVE  LeavingInd'
<1>0. app.open /\ app \in Opening /\ app.ws \in Workspace /\ app.ws.words \in Nat
  <2>1. app.open
    BY DEF Write, Downloads, Readers
  <2> QED
    BY <2>1, OpenApp DEF Opening, LeavingInd, Workspace
<1>1. CASE Write
  <2> DEFINE ws == [app.ws EXCEPT !.words = @ + 1]
  <2>1. app.ws.words <= ws.words
    BY <1>0 DEF Workspace
  <2>2. app' = Opened(ws)
    BY <1>0, <1>1, ShownOpen DEF Write
  <2> HIDE DEF ws
  <2> QED
    BY <1>0, <1>1, <2>1, <2>2, OpenedIs, PageLeaving DEF Write, hosted, kept, history
<1>2. CASE \E who \in {"signed_in", "public"} : Readers(who)
  <2>1. PICK who \in {"signed_in", "public"} : Readers(who)
    BY <1>2
  <2> DEFINE ws == [app.ws EXCEPT !.readers = who]
  <2>2. app.ws.words <= ws.words
    BY <1>0 DEF Workspace
  <2>3. app' = Opened(ws)
    BY <1>0, <2>1, ShownOpen DEF Readers
  <2> HIDE DEF ws
  <2> QED
    BY <1>0, <2>1, <2>2, <2>3, OpenedIs, PageLeaving DEF Readers, hosted, kept, history
<1>3. CASE Downloads
  <2>1. app.ws.words <= app.ws.words
    BY <1>0
  <2> QED
    BY <1>3, <2>1, PageLeaving DEF Downloads, hosted, kept
<1> QED
  BY <1>1, <1>2, <1>3

(* Requests about pages, and their answers.                                *)
LEMMA AskingLeaving ==
    ASSUME LeavingInd, Types', Publish \/ Revoke \/ \E s \in Slug : RevokeListed(s) PROVE LeavingInd'
<1>0. app.open /\ app.ws.words <= app.ws.words
  <2>1. app.open
    BY DEF Publish, Revoke, RevokeListed
  <2> QED
    BY <2>1, WordsAreNumbers DEF LeavingInd
<1>1. PICK c : Asks(c) /\ c.kind # "erase"
  <2>1. \A kind, slug, readers : Call(kind, slug, readers).kind = kind
    BY DEF Call
  <2> QED
    BY <2>1 DEF Publish, Revoke, RevokeListed
<1> QED
  BY <1>0, <1>1, PageLeaving DEF Asks, hosted, kept, history

LEMMA AnswerLeaving == ASSUME LeavingInd, Types', NEW c \in calls, Answer(c) PROVE LeavingInd'
<1>0. app.open /\ app \in Opening /\ app.ws \in Workspace /\ c \in Asked
  BY OpenApp DEF LeavingInd, Types, Opening
<1> DEFINE linked == [app.ws EXCEPT !.link = c.slug]
<1>1. app.ws.words <= app.ws.words /\ linked.words = app.ws.words /\ Unlinked.words = app.ws.words
  BY <1>0 DEF Workspace, Unlinked
<1>2. app'.open /\ app.ws.words <= app'.ws.words
  <2>1. app' = app \/ Shown(linked) \/ Shown(Unlinked)
    BY <1>0, AskedIs DEF Answer, Applied
  <2>2. app' \in {app, Opened(linked), Opened(Unlinked)}
    BY <1>0, <2>1, ShownOpen
  <2> HIDE DEF linked
  <2> QED
    BY <1>0, <1>1, <2>2, OpenedIs
<1> QED
  BY <1>0, <1>2, PageLeaving DEF Answer, hosted, kept

LEMMA ServingLeaving ==
    ASSUME LeavingInd, Types', NEW c \in calls \cup adrift,
           Serve(c) \/ Arrives(c) \/ (Lost(c) /\ c.kind # "erase")
    PROVE  LeavingInd'
<1>0. c \in Asked /\ (app.open => app.ws.words <= app.ws.words)
  BY WordsAreNumbers DEF LeavingInd, Types
<1>1. \A d \in calls' : d.kind = "erase" => d \in calls
  <2>1. [c EXCEPT !.at = Outcome(c)].kind = c.kind
    BY <1>0 DEF Asked
  <2> QED
    BY <2>1 DEF Serve, Arrives, Lost
<1>2. UNCHANGED <<stored, erased, app, device, saves, status, base, leave, files, left>>
  BY DEF Serve, Arrives, Lost, Reaches, hosted, kept, history
<1> QED
  BY <1>0, <1>1, <1>2, PageLeaving

LEMMA RestLeaving == ASSUME LeavingInd, Types', Environment \/ UNCHANGED vars PROVE LeavingInd'
<1>1. UNCHANGED <<stored, erased, app, calls, device, saves, status, base, leave, files, left>>
  BY DEF Environment, vars, hosted, kept, history
<1>2. app.open => app.ws.words <= app.ws.words
  BY WordsAreNumbers DEF LeavingInd
<1> QED
  BY <1>1, <1>2, PageLeaving

-----------------------------------------------------------------------------
(* The page closes, with its way out over or on its last step.             *)
LEMMA StayingIs == Staying.kind = "none" /\ Staying.step = "none"
  BY DEF Staying, Leaving

LEMMA ClosesLeaving ==
    ASSUME LeavingInd, Types', NEW way, Unmounts(way), UNCHANGED <<stored, erased, files>>,
           device' \in {device, None},
           way.step = "go" =>
               /\ WayInv(way) /\ way.kind # "none" /\ way.ws.words \in Nat
               /\ way.kind = "signOut" /\ way.covered => way.ws \in files
               /\ way.kind = "erase" => erased
               /\ way.kind \in {"signOut", "erase"} => device' = None
               /\ ~erased /\ way.kind = "signOut" => Held(way.ws.words, stored, files)
               /\ ~erased /\ way.kind = "update" =>
                     Held(way.ws.words, stored, files) \/ OnDevice(way.ws.words, device'),
           \A old \in left' : old.ws \in Workspace /\ (old.kind # "update" => ~old.cached),
           ~erased => \A old \in left' : old.kind # "erase" =>
               /\ Held(old.ws.words, stored, files) \/ OnDevice(old.ws.words, device')
               /\ way.step = "go" => Held(old.ws.words, stored, files) \/ old.ws.words <= way.ws.words
    PROVE  LeavingInd'
<1>1. /\ app' = Closed /\ ~Closed.open /\ saves' = <<>> /\ DOMAIN saves' = {} /\ base' = None /\ calls' = {}
      /\ (way.step = "go" /\ leave' = way) \/ (way.step # "go" /\ leave' = Staying)
  BY DEF Unmounts, Closed
<1>2. SavesInv'
  BY <1>1 DEF SavesInv, OfWay
<1>3. StepsInv'
  BY <1>1, StayingIs DEF StepsInv, WayInv, AtEnd
<1>4. ErasingInv'
  BY <1>1 DEF ErasingInv
<1> SUFFICES ASSUME ~erased PROVE (WordsInv /\ WayKept /\ LeftKept)'
  BY <1>2, <1>3, <1>4 DEF LeavingInd
<1>5. WordsInv'
  BY <1>1 DEF LeavingInd, WordsInv, Grows
<1>6. WayKept'
  BY <1>1, StayingIs DEF WayKept, AtEnd
<1>7. LeftKept'
  BY <1>1, StayingIs DEF LeftKept
<1> QED
  BY <1>5, <1>6, <1>7

(* What a way out that is under way, or over, has kept.                    *)
LEMMA WayAtEnd ==
    ASSUME LeavingInd, leave.step = "go"
    PROVE  /\ WayInv(leave) /\ leave.kind # "none" /\ leave.ws.words \in Nat /\ leave.ws \in Workspace
           /\ leave.kind = "signOut" /\ leave.covered => leave.ws \in files
           /\ leave.kind = "erase" => erased
           /\ leave.kind \in {"signOut", "erase"} => device = None
           /\ ~erased /\ leave.kind = "signOut" => Held(leave.ws.words, stored, files)
           /\ ~erased /\ leave.kind = "update" =>
                 Held(leave.ws.words, stored, files) \/ OnDevice(leave.ws.words, device)
<1>1. WayInv(leave) /\ leave.ws.words \in Nat /\ leave.ws \in Workspace
  BY WordsAreNumbers DEF LeavingInd, StepsInv
<1>2. leave.kind # "none"
  BY <1>1, StayingIs DEF WayInv
<1> QED
  BY <1>1, <1>2 DEF LeavingInd, StepsInv, WayKept, AtEnd

LEMMA LeavesOnGoing ==
    ASSUME LeavingInd, Types', Unmounts(leave), UNCHANGED <<stored, erased, files, left, device>>
    PROVE  LeavingInd'
<1>1. \A old \in left' : old.ws \in Workspace /\ (old.kind # "update" => ~old.cached)
  BY DEF LeavingInd, StepsInv
<1>2. ~erased => \A old \in left' : old.kind # "erase" =>
          /\ Held(old.ws.words, stored, files) \/ OnDevice(old.ws.words, device')
          /\ leave.step = "go" => Held(old.ws.words, stored, files) \/ old.ws.words <= leave.ws.words
  BY WayAtEnd DEF LeavingInd, LeftKept
<1>3. leave.step = "go" =>
          /\ WayInv(leave) /\ leave.kind # "none" /\ leave.ws.words \in Nat
          /\ leave.kind = "signOut" /\ leave.covered => leave.ws \in files
          /\ leave.kind = "erase" => erased
          /\ leave.kind \in {"signOut", "erase"} => device' = None
          /\ ~erased /\ leave.kind = "signOut" => Held(leave.ws.words, stored, files)
          /\ ~erased /\ leave.kind = "update" =>
                Held(leave.ws.words, stored, files) \/ OnDevice(leave.ws.words, device')
  BY WayAtEnd
<1> QED
  BY <1>1, <1>2, <1>3, ClosesLeaving

LEMMA MountsLeaving ==
    ASSUME LeavingInd, Types', ~app.open, leave = Staying, Mounts,
           UNCHANGED <<stored, erased, files, left>>
    PROVE  LeavingInd'
<1> DEFINE ws == IF Pending THEN device.ws ELSE stored
<1>0. /\ app' = Opened(ws) /\ app'.open /\ app'.ws = ws /\ saves = <<>> /\ DOMAIN saves = {}
      /\ UNCHANGED <<saves, leave, calls>> /\ calls = {} /\ leave.kind = "none" /\ leave.step = "none"
      /\ (Pending /\ UNCHANGED <<device, base>>)
         \/ (~Pending /\ device' = [ws |-> stored, pending |-> FALSE] /\ base' = stored)
  BY OpenedIs, StayingIs DEF Mounts, LeavingInd, SavesInv, Types
<1>1. SavesInv'
  BY <1>0 DEF SavesInv, OfWay
<1>2. StepsInv'
  BY <1>0 DEF LeavingInd, StepsInv
<1>3. ErasingInv'
  BY <1>0 DEF ErasingInv
<1> SUFFICES ASSUME ~erased PROVE (WordsInv /\ WayKept /\ LeftKept)'
  BY <1>0, <1>1, <1>2, <1>3 DEF LeavingInd
<1>4. WordsInv'
  <2>1. CASE Pending
    <3>1. stored.words <= device.ws.words /\ device.ws.words <= device.ws.words
      BY <2>1, WordsAreNumbers DEF LeavingInd, WordsInv, Pending
    <3> QED
      BY <1>0, <2>1, <3>1 DEF LeavingInd, WordsInv, Grows
  <2>2. CASE ~Pending
    <3>1. stored.words <= stored.words
      BY WordsAreNumbers DEF LeavingInd
    <3>2. device'.ws = stored /\ device'.pending = FALSE /\ app'.ws = stored
      BY <1>0, <2>2
    <3> QED
      BY <1>0, <2>2, <3>1, <3>2 DEF WordsInv, Grows
  <2> QED
    BY <2>1, <2>2
<1>5. WayKept'
  BY <1>0 DEF WayKept, AtEnd
<1>6. LeftKept'
  <2>1. \A words : OnDevice(words, device) => OnDevice(words, device')
    BY <1>0 DEF OnDevice, Pending
  <2> QED
    BY <1>0, <2>1 DEF LeavingInd, LeftKept
<1> QED
  BY <1>4, <1>5, <1>6

LEMMA GateLeaving == ASSUME LeavingInd, Types', Verification \/ VerificationFails \/ Again PROVE LeavingInd'
<1>1. CASE UNCHANGED <<app, kept, calls, adrift>>
  <2>1. app.open => app.ws.words <= app.ws.words
    BY WordsAreNumbers DEF LeavingInd
  <2> QED
    BY <1>1, <2>1, GateStep, PageLeaving DEF kept
<1> QED
  BY <1>1, GateStep, LeavesOnGoing, MountsLeaving

LEMMA GoesLeaving == ASSUME LeavingInd, Types', Goes PROVE LeavingInd'
<1> DEFINE way == [kind |-> leave.kind, ws |-> leave.ws, cached |-> device # None]
<1>0. /\ leave.step = "go" /\ Unmounts(Staying) /\ left' = left \cup {way}
      /\ UNCHANGED <<stored, erased, files, device>>
  BY DEF Goes, hosted
<1>1. /\ way.ws \in Workspace /\ (way.kind # "update" => ~way.cached)
      /\ ~erased /\ way.kind # "erase" =>
            Held(way.ws.words, stored, files) \/ OnDevice(way.ws.words, device)
  BY <1>0, WayAtEnd DEF Way, LeavingInd, Types
<1> HIDE DEF way
<1>2. \A old \in left' : old.ws \in Workspace /\ (old.kind # "update" => ~old.cached)
  BY <1>0, <1>1 DEF LeavingInd, StepsInv
<1>3. ~erased => \A old \in left' : old.kind # "erase" =>
          Held(old.ws.words, stored, files) \/ OnDevice(old.ws.words, device')
  BY <1>0, <1>1 DEF LeavingInd, LeftKept
<1> QED
  BY <1>0, <1>2, <1>3, StayingIs, ClosesLeaving

LEMMA UnauthorizedLeaving == ASSUME LeavingInd, Types', NEW c \in calls, Unauthorized(c) PROVE LeavingInd'
  BY LeavesOnGoing DEF Unauthorized, hosted, history

(* The first save, which is the way's own or not.                          *)
LEMMA FirstSave ==
    ASSUME LeavingInd, saves # <<>>, Head(saves).by = "leave"
    PROVE  /\ leave.step = "save" /\ Head(saves).ws = leave.ws /\ leave.kind \in {"signOut", "update"}
           /\ leave.kind = "signOut" /\ leave.covered => Len(saves) = 1 /\ leave.ws \in files
           /\ \A k \in DOMAIN saves : saves[k].by = "leave" => k = 1
<1>0. Head(saves) = saves[1] /\ 1 \in DOMAIN saves /\ Types
  BY HeadAndTail DEF LeavingInd
<1>1. leave.step = "save" /\ WayInv(leave) /\ leave \in Way
  BY <1>0 DEF LeavingInd, SavesInv, OfWay, StepsInv, Types
<1>2. leave.kind \in {"signOut", "update"}
  BY <1>1, StayingIs DEF WayInv, Way
<1> QED
  BY <1>0, <1>1, <1>2 DEF LeavingInd, SavesInv, OfWay, StepsInv

LEMMA CoveredIsHeld ==
    ASSUME Types, NEW ws \in files PROVE Held(ws.words, stored, files)
<1>1. ws.words \in Nat
  BY DEF Types, Workspace
<1> QED
  BY <1>1 DEF Held

LEMMA RefusedLeaving == ASSUME LeavingInd, Types', SaveRefused PROVE LeavingInd'
<1> DEFINE way == IF Head(saves).by = "leave" THEN AfterSave(leave, "locked") ELSE leave
           on == [way EXCEPT !.step = "go"]
<1>0. /\ saves # <<>> /\ UNCHANGED <<stored, erased, files, left>> /\ Types
      /\ \/ Unmounts(way) /\ UNCHANGED device
         \/ /\ Head(saves).by = "leave" /\ way.step = "clear"
            /\ Unmounts(on) /\ device' = None
  BY DEF SaveRefused, hosted, history, LeavingInd
<1>1. \A old \in left' : old.ws \in Workspace /\ (old.kind # "update" => ~old.cached)
  BY <1>0 DEF LeavingInd, StepsInv
<1>2. CASE Head(saves).by # "leave"
  BY <1>0, <1>2, LeavesOnGoing
<1>3. CASE Head(saves).by = "leave" /\ Unmounts(way) /\ UNCHANGED device
  <2>1. way.step # "go"
    BY <1>3, StayingIs DEF AfterSave, Way, Types, LeavingInd
  <2>2. ~erased => \A old \in left' : old.kind # "erase" =>
            Held(old.ws.words, stored, files) \/ OnDevice(old.ws.words, device')
    BY <1>0, <1>3 DEF LeavingInd, LeftKept
  <2> HIDE DEF way
  <2> QED
    BY <1>0, <1>1, <1>3, <2>1, <2>2, ClosesLeaving
<1>4. CASE Head(saves).by = "leave" /\ way.step = "clear" /\ Unmounts(on) /\ device' = None
  <2>1. leave.kind = "signOut" /\ leave.covered /\ leave.ws \in files
    BY <1>0, <1>4, FirstSave, StayingIs DEF AfterSave
  <2>2. leave \in Way /\ leave.ws.words \in Nat
    BY <1>0, WordsAreNumbers DEF Types
  <2>3. on.kind = leave.kind /\ on.ws = leave.ws /\ on.covered = leave.covered /\ on.step = "go"
    BY <1>4, <2>1, <2>2 DEF AfterSave, Way
  <2>4. Held(leave.ws.words, stored, files)
    BY <1>0, <2>1, CoveredIsHeld
  <2>5. WayInv(on)
    BY <2>1, <2>3 DEF WayInv
  <2>6. ~erased => \A old \in left' : old.kind # "erase" => Held(old.ws.words, stored, files)
    <3> SUFFICES ASSUME ~erased, NEW old \in left, old.kind # "erase",
                        ~Held(old.ws.words, stored, files)
                 PROVE  FALSE
      BY <1>0
    <3>1. old.ws.words <= leave.ws.words /\ old.ws.words \in Nat
      BY <2>1 DEF LeavingInd, LeftKept, Workspace
    <3>2. leave.ws.words >= old.ws.words
      BY <2>2, <3>1
    <3> QED
      BY <2>1, <3>2 DEF Held
  <2> HIDE DEF way, on
  <2> QED
    BY <1>0, <1>1, <1>4, <2>1, <2>2, <2>3, <2>4, <2>5, <2>6, ClosesLeaving
<1> QED
  BY <1>0, <1>2, <1>3, <1>4

-----------------------------------------------------------------------------
(* Saves.                                                                  *)
LEMMA ArrivesLeaving == ASSUME LeavingInd, Types', SaveArrives PROVE LeavingInd'
<1>0. /\ saves # <<>> /\ stored' = Head(saves).ws /\ Types /\ ~erased
      /\ UNCHANGED <<erased, app, device, saves, status, base, leave, calls, files, left>>
  BY DEF SaveArrives, kept, history, LeavingInd
<1> DEFINE n == Len(saves)
<1>1. /\ Head(saves) = saves[1] /\ 1 \in DOMAIN saves /\ n \in DOMAIN saves
      /\ \A k \in DOMAIN saves : 1 <= k
  BY <1>0, HeadAndTail
<1>2. WordsInv /\ WayKept /\ LeftKept
  BY <1>0 DEF LeavingInd
<1> HIDE DEF n
<1>3. stored.words <= stored'.words /\ stored' \in Workspace /\ stored \in Workspace /\ stored'.words \in Nat
  BY <1>0, <1>1, <1>2 DEF WordsInv, Grows, Types, Workspace
<1>4. device = [ws |-> saves[n].ws, pending |-> TRUE]
  BY <1>0, <1>2 DEF WordsInv, n
<1>5. stored'.words <= device.ws.words /\ device.pending
  BY <1>0, <1>1, <1>2, <1>4 DEF WordsInv, Grows
<1>6. app.open => stored'.words <= app.ws.words
  <2>1. app.open => app.ws.words \in Nat /\ device.ws.words <= app.ws.words
    BY <1>0, <1>2, <1>4, WordsAreNumbers DEF WordsInv, None
  <2>2. device.ws.words \in Nat
    BY <1>0, <1>1, <1>4, WordsAreNumbers
  <2> QED
    BY <1>3, <1>5, <2>1, <2>2
<1>7. WordsInv'
  <2>1. base # None => base.words <= stored'.words
    BY <1>0, <1>2, <1>3, WordsAreNumbers DEF WordsInv
  <2>2. Grows(saves, stored')
    BY <1>0, <1>1, <1>2 DEF WordsInv, Grows
  <2> QED
    BY <1>0, <1>2, <1>5, <1>6, <2>1, <2>2 DEF WordsInv
<1>8. \A words \in Nat : Held(words, stored, files) => Held(words, stored', files)
  BY <1>3, HeldGrows
<1>9. leave.ws.words \in Nat /\ \A way \in left : way.ws.words \in Nat
  BY <1>0, WordsAreNumbers DEF LeavingInd, Workspace
<1>10. WayKept' /\ LeftKept'
  BY <1>0, <1>2, <1>8, <1>9 DEF WayKept, LeftKept
<1>11. SavesInv' /\ StepsInv' /\ ErasingInv'
  BY <1>0 DEF LeavingInd, SavesInv, StepsInv, ErasingInv
<1>12. \A way \in left' : way.ws \in Workspace
  BY <1>0 DEF LeavingInd
<1> QED
  BY <1>7, <1>10, <1>11, <1>12 DEF LeavingInd

LEMMA OnDeviceIsShown ==
    ASSUME Types, WordsInv, app.open, NEW words \in Nat, OnDevice(words, device)
    PROVE  words <= app.ws.words
<1>1. words <= device.ws.words /\ device.ws.words <= app.ws.words /\ device # None
  BY DEF OnDevice, WordsInv
<1> QED
  BY <1>1, WordsAreNumbers

LEMMA EnqueueWords ==
    ASSUME Types, NEW by \in {"timer", "online", "leave"}, Enqueue(app.ws, by), app.open, WordsInv,
           app'.open, app'.ws = app.ws, UNCHANGED stored
    PROVE  WordsInv' /\ \A words \in Nat : OnDevice(words, device) => OnDevice(words, device')
<1> DEFINE all == Append(saves, [ws |-> app.ws, by |-> by])
           n == Len(saves)
<1>0. /\ app.ws \in Workspace /\ app.ws.words \in Nat /\ stored.words \in Nat
      /\ stored.words <= app.ws.words /\ app.ws.words <= app.ws.words
  BY WordsAreNumbers DEF WordsInv
<1>1. /\ saves' = all /\ DOMAIN all = 1 .. n + 1 /\ Len(all) = n + 1
      /\ all[n + 1] = [ws |-> app.ws, by |-> by] /\ DOMAIN saves = 1 .. n /\ n \in Nat
      /\ \A k \in DOMAIN saves : all[k] = saves[k]
  BY <1>0, AppendedSave DEF Enqueue
<1>2. /\ device' = [ws |-> app.ws, pending |-> TRUE] /\ device'.ws = app.ws /\ device'.pending
      /\ device' # None /\ base' = base
  BY DEF Enqueue, None
<1> HIDE DEF all
<1>3. \A k \in DOMAIN saves : saves[k].ws.words <= app.ws.words
  <2> SUFFICES ASSUME NEW k \in DOMAIN saves PROVE saves[k].ws.words <= app.ws.words
    OBVIOUS
  <2>1. saves # <<>> /\ n \in DOMAIN saves /\ k <= n
    BY <1>1
  <2>2. device = [ws |-> saves[n].ws, pending |-> TRUE]
    BY <2>1 DEF WordsInv
  <2>3. device # None
    BY <2>2 DEF None
  <2>4. saves[k].ws.words <= saves[n].ws.words /\ saves[n].ws.words <= app.ws.words
    BY <2>1, <2>2, <2>3 DEF WordsInv, Grows
  <2> QED
    BY <1>0, <2>1, <2>4, WordsAreNumbers
<1> HIDE DEF n
<1>4. \A k \in DOMAIN saves' : (k \in DOMAIN saves /\ saves'[k] = saves[k])
                               \/ (k = n + 1 /\ saves'[k] = [ws |-> app.ws, by |-> by])
  BY <1>1
<1>5. \A k \in DOMAIN saves' : stored.words <= saves'[k].ws.words
  BY <1>0, <1>4 DEF WordsInv, Grows
<1>6. \A j, k \in DOMAIN saves' : j <= k => saves'[j].ws.words <= saves'[k].ws.words
  <2> SUFFICES ASSUME NEW j \in DOMAIN saves', NEW k \in DOMAIN saves', j <= k
               PROVE  saves'[j].ws.words <= saves'[k].ws.words
    OBVIOUS
  <2>1. CASE k \in DOMAIN saves
    <3>1. j \in DOMAIN saves
      BY <1>1, <2>1
    <3> QED
      BY <1>1, <2>1, <3>1 DEF WordsInv, Grows
  <2>2. CASE k = n + 1
    BY <1>0, <1>1, <1>3, <1>4, <2>2
  <2> QED
    BY <1>4, <2>1, <2>2
<1>7. saves' # <<>> => device' = [ws |-> saves'[Len(saves')].ws, pending |-> TRUE]
  BY <1>1, <1>2
<1>8. WordsInv'
  BY <1>0, <1>2, <1>5, <1>6, <1>7 DEF WordsInv, Grows
<1>9. \A words \in Nat : OnDevice(words, device) => OnDevice(words, device')
  BY <1>0, <1>2, OnDeviceIsShown DEF OnDevice
<1> QED
  BY <1>8, <1>9

(* A save of the page's own, which no way out forbids.                     *)
LEMMA MaySaveBut ==
    ASSUME PatientLeaver, LeavingInd, MaySave
    PROVE  app.open /\ (leave.kind = "update" \/ (~leave.covered /\ leave.step \notin {"clear", "go"}))
  BY DEF MaySave, PatientLeaver

LEMMA EnqueueLeaving ==
    ASSUME PatientLeaver, LeavingInd, Types', NEW by \in {"timer", "online"}, MaySave, Enqueue(app.ws, by),
           app'.open, app'.ws = app.ws, UNCHANGED <<stored, erased, leave, calls, files, left>>
    PROVE  LeavingInd'
<1> DEFINE all == Append(saves, [ws |-> app.ws, by |-> by])
           n == Len(saves)
<1>0. /\ app.open /\ Types /\ app.ws \in Workspace
      /\ leave.kind = "update" \/ (~leave.covered /\ leave.step \notin {"clear", "go"})
  BY MaySaveBut, WordsAreNumbers DEF LeavingInd
<1>1. /\ saves' = all /\ DOMAIN all = 1 .. n + 1 /\ Len(all) = n + 1
      /\ all[n + 1] = [ws |-> app.ws, by |-> by] /\ DOMAIN saves = 1 .. n /\ n \in Nat
      /\ \A k \in DOMAIN saves : all[k] = saves[k]
      /\ status' = "synchronizing"
  BY <1>0, AppendedSave DEF Enqueue
<1> HIDE DEF all, n
<1>2. \A k \in DOMAIN saves' : saves'[k].by = "leave" => k \in DOMAIN saves /\ saves'[k] = saves[k]
  BY <1>1
<1>3. OfWay(saves', leave)
  BY <1>0, <1>2 DEF LeavingInd, SavesInv, OfWay
<1>4. SavesInv'
  BY <1>0, <1>1, <1>3 DEF SavesInv, AtEnd
<1>5. StepsInv'
  <2>1. leave.kind \in {"signOut", "erase"} => leave.step # "go"
    BY <1>0
  <2> QED
    BY <2>1 DEF LeavingInd, StepsInv
<1>6. ErasingInv'
  BY DEF LeavingInd, ErasingInv
<1>7. \A way \in left : way.ws \in Workspace /\ way.ws.words \in Nat
  BY DEF LeavingInd, Workspace
<1> SUFFICES ASSUME ~erased PROVE (WordsInv /\ WayKept /\ LeftKept)'
  BY <1>4, <1>5, <1>6, <1>7 DEF LeavingInd
<1>8. WordsInv' /\ \A words \in Nat : OnDevice(words, device) => OnDevice(words, device')
  BY <1>0, EnqueueWords DEF LeavingInd
<1>9. WayKept'
  BY <1>0, <1>8, WordsAreNumbers DEF LeavingInd, WayKept
<1>10. LeftKept'
  BY <1>7, <1>8 DEF LeavingInd, LeftKept
<1> QED
  BY <1>8, <1>9, <1>10

LEMMA SavingLeaving ==
    ASSUME PatientLeaver, LeavingInd, Types', AutoSave \/ Retry PROVE LeavingInd'
<1>0. app.open /\ app \in Opening /\ MaySave /\ (app.open => app.ws.words <= app.ws.words)
  BY OpenApp, WordsAreNumbers DEF AutoSave, Retry, MaySave, LeavingInd
<1>1. CASE AutoSave
  <2>1. app'.open /\ app'.ws = app.ws /\ UNCHANGED <<stored, erased, leave, calls, files, left>>
    BY <1>0, <1>1 DEF AutoSave, Opening, hosted, history
  <2>2. CASE Enqueue(app.ws, "timer")
    BY <1>0, <2>1, <2>2, EnqueueLeaving
  <2>3. CASE UNCHANGED <<device, saves, status, base>>
    BY <1>0, <2>1, <2>3, PageLeaving
  <2> QED
    BY <1>1, <2>2, <2>3 DEF AutoSave
<1>2. CASE Retry
  <2>1. Enqueue(app.ws, "online") /\ UNCHANGED <<stored, erased, leave, calls, files, left, app>>
    BY <1>2 DEF Retry, hosted, history
  <2> QED
    BY <1>0, <2>1, EnqueueLeaving
<1> QED
  BY <1>1, <1>2

(* What a way out does once its save settled.                              *)
LEMMA AfterSaveIs ==
    ASSUME NEW way \in Way, NEW result, way.kind \in {"signOut", "update"}
    PROVE  LET next == AfterSave(way, result) IN
           \/ next = Staying
           \/ /\ next.kind = way.kind /\ next.ws = way.ws /\ next.covered = way.covered
              /\ way.kind = "update" => next.step = "go"
              /\ way.kind = "signOut" => next.step = "clear" /\ (result = "synchronized" \/ way.covered)
  BY DEF AfterSave, Way

LEMMA OthersEnd ==
    ASSUME LeavingInd, saves # <<>>
    PROVE  /\ OfWay(Tail(saves), leave) /\ Tail(saves) \in Seq(Saved)
           /\ Head(saves).by = "leave" => \A k \in DOMAIN Tail(saves) : Tail(saves)[k].by # "leave"
           /\ Len(saves) = 1 => Tail(saves) = <<>>
           /\ Tail(saves) # <<>> => /\ Len(saves) # 1
                                    /\ Tail(saves)[Len(Tail(saves))] = saves[Len(saves)]
           /\ \A server : Grows(saves, server) => Grows(Tail(saves), server)
<1> DEFINE q == Tail(saves)
           n == Len(saves)
<1>0. /\ Types /\ n \in Nat /\ n > 0 /\ Len(q) = n - 1 /\ DOMAIN q = 1 .. n - 1 /\ DOMAIN saves = 1 .. n
      /\ \A k \in DOMAIN q : k \in Nat /\ k + 1 \in DOMAIN saves /\ q[k] = saves[k + 1]
      /\ q \in Seq(Saved)
  BY HeadAndTail, HeadOfSaves DEF LeavingInd
<1>1. q # <<>> => n # 1 /\ q[Len(q)] = saves[n]
  <2> SUFFICES ASSUME q # <<>> PROVE n # 1 /\ q[Len(q)] = saves[n]
    OBVIOUS
  <2>1. Len(q) # 0
    BY <1>0
  <2>2. Len(q) \in DOMAIN q /\ Len(q) + 1 = n
    BY <1>0, <2>1
  <2> QED
    BY <1>0, <2>1, <2>2
<1>2. n = 1 => q = <<>>
  BY <1>0
<1> HIDE DEF q, n
<1>3. OfWay(saves, leave)
  BY DEF LeavingInd, SavesInv
<1>4. OfWay(q, leave)
  <2> SUFFICES ASSUME NEW k \in DOMAIN q, q[k].by = "leave"
               PROVE  /\ leave.step = "save" /\ q[k].ws = leave.ws
                      /\ leave.kind = "signOut" /\ leave.covered => k = Len(q)
                      /\ \A j \in DOMAIN q : q[j].by = "leave" => j = k
    BY DEF OfWay
  <2>1. /\ leave.step = "save" /\ q[k].ws = leave.ws
        /\ leave.kind = "signOut" /\ leave.covered => k + 1 = n
        /\ \A j \in DOMAIN q : q[j].by = "leave" => j + 1 = k + 1
    BY <1>0, <1>3 DEF OfWay, n
  <2> QED
    BY <1>0, <2>1
<1>5. Head(saves).by = "leave" => \A k \in DOMAIN q : q[k].by # "leave"
  <2> SUFFICES ASSUME Head(saves).by = "leave", NEW k \in DOMAIN q, q[k].by = "leave" PROVE FALSE
    OBVIOUS
  <2>1. k + 1 = 1
    BY <1>0, FirstSave
  <2> QED
    BY <1>0, <2>1
<1>6. \A server : Grows(saves, server) => Grows(q, server)
  <2> SUFFICES ASSUME NEW server, Grows(saves, server) PROVE Grows(q, server)
    OBVIOUS
  <2>1. \A k \in DOMAIN q : server.words <= q[k].ws.words
    BY <1>0 DEF Grows
  <2>2. \A j, k \in DOMAIN q : j <= k => q[j].ws.words <= q[k].ws.words
    <3> SUFFICES ASSUME NEW j \in DOMAIN q, NEW k \in DOMAIN q, j <= k
                 PROVE  q[j].ws.words <= q[k].ws.words
      OBVIOUS
    <3>1. j + 1 <= k + 1 /\ j + 1 \in DOMAIN saves /\ k + 1 \in DOMAIN saves
      BY <1>0
    <3>2. saves[j + 1].ws.words <= saves[k + 1].ws.words
      BY <3>1 DEF Grows
    <3> QED
      BY <1>0, <3>2
  <2> QED
    BY <2>1, <2>2 DEF Grows
<1> QED
  BY <1>0, <1>1, <1>2, <1>4, <1>5, <1>6 DEF q, n

LEMMA EndsLeaving ==
    ASSUME LeavingInd, Types', NEW result \in {"synchronized", "unsynced"}, SaveEnds(result)
    PROVE  LeavingInd'
<1> DEFINE save == Head(saves)
           n == Len(saves)
           newest == n = 1
           after == IF newest THEN result ELSE status
           q == Tail(saves)
           synced == newest /\ result = "synchronized"
<1>0. /\ saves # <<>> /\ Types /\ saves' = q /\ status' = after
      /\ result = "synchronized" => stored = save.ws /\ ~erased
      /\ base' = IF result = "synchronized" THEN save.ws ELSE base
      /\ device' = IF synced THEN [ws |-> save.ws, pending |-> FALSE] ELSE device
      /\ leave' = IF save.by = "leave" THEN AfterSave(leave, after) ELSE leave
      /\ UNCHANGED <<stored, erased, app, calls, files, left>>
  BY DEF SaveEnds, hosted, history, LeavingInd
<1>1. /\ app.open /\ status = "synchronizing" /\ ~(leave.kind = "signOut" /\ AtEnd(leave)) /\ leave \in Way
      /\ stored.words \in Nat /\ app.ws.words \in Nat /\ leave.ws.words \in Nat
  BY <1>0, WordsAreNumbers DEF LeavingInd, SavesInv, Types
<1>2. /\ OfWay(q, leave)
      /\ save.by = "leave" => \A k \in DOMAIN q : q[k].by # "leave"
      /\ newest => q = <<>>
      /\ q # <<>> => ~newest /\ q[Len(q)] = saves[n]
      /\ \A server : Grows(saves, server) => Grows(q, server)
  BY <1>0, OthersEnd
<1>3. /\ save = saves[1] /\ 1 \in DOMAIN saves /\ n \in DOMAIN saves /\ 1 <= n
  BY <1>0, HeadAndTail
<1>4. save.by = "leave" =>
          /\ leave.step = "save" /\ save.ws = leave.ws /\ leave.kind \in {"signOut", "update"}
          /\ leave.kind = "signOut" /\ leave.covered => newest /\ leave.ws \in files
  BY <1>0, FirstSave
<1> HIDE DEF save, n, q
(* The way out is as it was, over, or on its next step.                    *)
<1>5. \/ save.by # "leave" /\ leave' = leave
      \/ save.by = "leave" /\ leave' = Staying
      \/ /\ save.by = "leave" /\ leave'.kind = leave.kind /\ leave'.ws = leave.ws
         /\ leave'.covered = leave.covered
         /\ leave.kind = "update" => leave'.step = "go"
         /\ leave.kind = "signOut" => leave'.step = "clear" /\ (synced \/ (leave.covered /\ newest))
  <2>1. CASE save.by = "leave"
    <3> HIDE DEF after
    <3>1. \/ leave' = Staying
          \/ /\ leave'.kind = leave.kind /\ leave'.ws = leave.ws /\ leave'.covered = leave.covered
             /\ leave.kind = "update" => leave'.step = "go"
             /\ leave.kind = "signOut" => leave'.step = "clear" /\ (after = "synchronized" \/ leave.covered)
      BY <1>0, <1>1, <1>4, <2>1, AfterSaveIs
    <3>2. after = "synchronized" => synced
      BY <1>1 DEF after
    <3> QED
      BY <1>4, <2>1, <3>1, <3>2
  <2> QED
    BY <1>0, <2>1
<1> HIDE DEF newest
<1>6. SavesInv'
  <2>1. q # <<>> => status' = "synchronizing"
    BY <1>0, <1>1, <1>2
  <2>2. OfWay(q, leave')
    BY <1>2, <1>5 DEF OfWay
  <2>3. leave'.kind = "signOut" /\ AtEnd(leave') => q = <<>>
    BY <1>1, <1>2, <1>5, StayingIs DEF AtEnd
  <2> QED
    BY <1>0, <1>1, <2>1, <2>2, <2>3 DEF SavesInv
<1>7. StepsInv'
  <2>1. WayInv(leave) /\ (leave.kind = "signOut" /\ leave.covered => leave.ws \in files)
    BY DEF LeavingInd, StepsInv
  <2>2. WayInv(leave')
    BY <1>4, <1>5, <2>1, StayingIs DEF WayInv
  <2>3. leave'.kind = "signOut" /\ leave'.covered => leave'.ws \in files
    BY <1>5, <2>1, StayingIs
  <2>4. leave'.kind = "erase" /\ AtEnd(leave') => leave' = leave
    BY <1>4, <1>5, StayingIs
  <2>5. leave'.kind \in {"signOut", "erase"} /\ leave'.step = "go" => leave' = leave /\ device' = device
    <3>1. leave'.kind \in {"signOut", "erase"} /\ leave'.step = "go" => leave' = leave
      BY <1>4, <1>5, StayingIs
    <3>2. leave.kind = "erase" /\ leave.step = "go" => erased
      BY DEF LeavingInd, StepsInv, AtEnd
    <3> QED
      BY <1>0, <1>1, <3>1, <3>2 DEF AtEnd, synced
  <2> QED
    BY <1>0, <1>1, <2>2, <2>3, <2>4, <2>5 DEF LeavingInd, StepsInv
<1>8. ErasingInv'
  <2>1. \A c \in calls : c.kind = "erase" => leave' = leave
    BY <1>4, <1>5 DEF LeavingInd, ErasingInv
  <2> QED
    BY <1>0, <2>1 DEF LeavingInd, ErasingInv
<1>9. \A way \in left' : way.ws \in Workspace /\ way.ws.words \in Nat
  BY <1>0 DEF LeavingInd, Workspace
<1> SUFFICES ASSUME ~erased PROVE (WordsInv /\ WayKept /\ LeftKept)'
  BY <1>0, <1>6, <1>7, <1>8, <1>9 DEF LeavingInd
<1>10. /\ WordsInv /\ WayKept /\ LeftKept
       /\ device = [ws |-> saves[n].ws, pending |-> TRUE] /\ device # None
  <2>1. WordsInv /\ WayKept /\ LeftKept
    BY DEF LeavingInd
  <2>2. device = [ws |-> saves[n].ws, pending |-> TRUE]
    BY <1>0, <2>1 DEF WordsInv, n
  <2>3. device # None
    BY <2>2 DEF None
  <2> QED
    BY <2>1, <2>2, <2>3
<1>11. \A words \in Nat : OnDevice(words, device) => Held(words, stored, files) \/ OnDevice(words, device')
  <2>1. CASE synced
    <3>1. device.ws = stored
      BY <1>0, <1>3, <1>10, <2>1 DEF synced, newest
    <3> QED
      BY <3>1 DEF OnDevice, Held
  <2> QED
    BY <1>0, <2>1
<1>12. WordsInv'
  <2>1. base' # None => base'.words <= stored.words
    BY <1>0, <1>1, <1>10 DEF WordsInv
  <2>2. CASE synced
    <3>1. device' = [ws |-> stored, pending |-> FALSE] /\ device'.pending = FALSE /\ device'.ws = stored
      BY <1>0, <2>2 DEF synced
    <3>2. q = <<>>
      BY <1>2, <2>2 DEF synced
    <3> QED
      BY <1>0, <1>1, <1>2, <1>10, <2>1, <3>1, <3>2 DEF WordsInv
  <2>3. CASE ~synced
    <3>1. device' = device
      BY <1>0, <2>3
    <3> QED
      BY <1>0, <1>2, <1>10, <2>1, <3>1 DEF WordsInv
  <2> QED
    BY <2>2, <2>3
<1>13. WayKept'
  <2>1. leave'.kind # "none" => leave'.ws = leave.ws /\ leave.kind # "none" /\ leave'.kind = leave.kind
    BY <1>5, StayingIs
  <2>2. leave'.kind # "none" => leave'.ws.words <= app.ws.words
    BY <1>1, <1>10, <2>1 DEF WayKept
  <2>3. leave'.kind = "signOut" /\ AtEnd(leave') => Held(leave'.ws.words, stored, files)
    <3> SUFFICES ASSUME leave'.kind = "signOut", AtEnd(leave') PROVE Held(leave.ws.words, stored, files)
      BY <2>1
    <3>1. save.by = "leave" /\ (synced \/ leave.covered)
      BY <1>1, <1>5, StayingIs
    <3>2. CASE synced
      <4>1. stored = leave.ws
        BY <1>0, <1>4, <3>1, <3>2 DEF synced
      <4> QED
        BY <1>1, <4>1 DEF Held
    <3>3. CASE leave.covered
      <4>1. leave.ws \in files
        BY <1>4, <2>1, <3>1, <3>3
      <4> QED
        BY <1>0, <4>1, CoveredIsHeld
    <3> QED
      BY <3>1, <3>2, <3>3
  <2>4. leave'.kind = "update" /\ leave'.step = "go" =>
            Held(leave'.ws.words, stored, files) \/ OnDevice(leave'.ws.words, device')
    <3> SUFFICES ASSUME leave'.kind = "update", leave'.step = "go"
                 PROVE  Held(leave.ws.words, stored, files) \/ OnDevice(leave.ws.words, device')
      BY <2>1
    <3>1. CASE save.by # "leave"
      BY <1>1, <1>5, <1>10, <1>11, <3>1 DEF WayKept
    <3>2. CASE save.by = "leave"
      <4>1. leave.ws.words <= device.ws.words /\ device.pending = TRUE
        <5>1. saves[1].ws.words <= saves[n].ws.words
          BY <1>3, <1>10 DEF WordsInv, Grows
        <5> QED
          BY <1>3, <1>4, <1>10, <3>2, <5>1
      <4>2. device.ws.words \in Nat
        BY <1>0, <1>10, WordsAreNumbers
      <4>3. OnDevice(leave.ws.words, device)
        BY <1>1, <1>10, <4>1, <4>2 DEF OnDevice
      <4> QED
        BY <1>1, <1>11, <4>3
    <3> QED
      BY <3>1, <3>2
  <2> QED
    BY <1>0, <2>2, <2>3, <2>4 DEF WayKept
<1>14. LeftKept'
  <2>1. leave'.kind # "none" => leave'.ws = leave.ws /\ leave.kind # "none"
    BY <1>5, StayingIs
  <2> QED
    BY <1>0, <1>9, <1>10, <1>11, <2>1 DEF LeftKept
<1> QED
  BY <1>12, <1>13, <1>14

-----------------------------------------------------------------------------
(* Beginning to leave.                                                     *)
LEMMA WorkspaceIsSome == \A ws \in Workspace : ws # None
<1>1. DOMAIN None = {"words"}
  BY DEF None
<1>2. \A ws \in Workspace : DOMAIN ws = {"words", "link", "readers"}
  BY DEF Workspace
<1> QED
  BY <1>1, <1>2

LEMMA BeginsLeaving ==
    ASSUME LeavingInd, Types', NEW kind \in {"signOut", "update"}, Begins(kind) PROVE LeavingInd'
<1> DEFINE way == Leaving(kind, "save", app.ws, app.ws \in files)
           all == Append(saves, [ws |-> app.ws, by |-> "leave"])
           n == Len(saves)
<1>0. /\ app.open /\ leave = Staying /\ Types /\ app.ws \in Workspace /\ app.ws.words \in Nat
      /\ UNCHANGED <<stored, erased, app, calls, files, left>>
  BY WordsAreNumbers DEF Begins, hosted, LeavingInd
<1>1. /\ way.kind = kind /\ way.step = "save" /\ way.ws = app.ws /\ way.covered = (app.ws \in files)
      /\ way \in Way /\ app.ws.words <= app.ws.words
  BY <1>0 DEF Leaving, Way
<1> HIDE DEF way
<1>2. leave.kind = "none" /\ \A k \in DOMAIN saves : saves[k].by # "leave"
  BY <1>0, StayingIs DEF LeavingInd, SavesInv, OfWay
<1>3. ErasingInv'
  BY <1>0, <1>2 DEF LeavingInd, ErasingInv
<1>4. \A old \in left : old.ws \in Workspace /\ old.ws.words \in Nat /\ (old.kind # "update" => ~old.cached)
  BY DEF LeavingInd, Workspace, StepsInv
<1>5. ~erased => \A old \in left : old.kind # "erase" =>
          Held(old.ws.words, stored, files) \/ old.ws.words <= app.ws.words
  <2> SUFFICES ASSUME ~erased, NEW old \in left, old.kind # "erase", ~Held(old.ws.words, stored, files)
               PROVE  old.ws.words <= app.ws.words
    OBVIOUS
  <2>1. OnDevice(old.ws.words, device) /\ WordsInv
    BY DEF LeavingInd, LeftKept
  <2> QED
    BY <1>0, <1>4, <2>1, OnDeviceIsShown
<1>6. CASE Unchanged(app.ws) /\ leave' = AfterSave(way, status) /\ UNCHANGED <<device, saves, status, base>>
  <2>1. status = "synchronized" /\ base = app.ws /\ saves = <<>>
    BY <1>6 DEF Unchanged, LeavingInd, SavesInv
  <2>2. /\ leave'.kind = kind /\ leave'.ws = app.ws /\ leave'.covered = (app.ws \in files)
        /\ leave'.step = IF kind = "update" THEN "go" ELSE "clear"
    BY <1>1, <1>6, <2>1 DEF AfterSave, Way
  <2>3. SavesInv'
    BY <1>6, <2>1 DEF SavesInv, OfWay
  <2>4. StepsInv'
    <3>1. WayInv(leave')
      BY <2>2 DEF WayInv
    <3> QED
      BY <1>0, <1>4, <2>2, <3>1 DEF StepsInv
  <2> SUFFICES ASSUME ~erased PROVE (WordsInv /\ WayKept /\ LeftKept)'
    BY <1>0, <1>3, <1>4, <2>3, <2>4 DEF LeavingInd
  <2>5. WordsInv /\ LeftKept
    BY DEF LeavingInd
  <2>6. Held(app.ws.words, stored, files)
    <3>1. base # None
      BY <1>0, <2>1, WorkspaceIsSome
    <3>2. app.ws.words <= stored.words
      BY <2>1, <2>5, <3>1 DEF WordsInv
    <3> QED
      BY <1>0, <3>2, WordsAreNumbers DEF Held
  <2>7. WordsInv'
    BY <1>0, <1>6, <2>5 DEF WordsInv
  <2>8. WayKept'
    BY <1>0, <1>1, <2>2, <2>6 DEF WayKept
  <2>9. LeftKept'
    BY <1>0, <1>5, <1>6, <2>2, <2>5 DEF LeftKept
  <2> QED
    BY <2>7, <2>8, <2>9
<1>7. CASE leave' = way /\ Enqueue(app.ws, "leave")
  <2>1. /\ saves' = all /\ DOMAIN all = 1 .. n + 1 /\ Len(all) = n + 1
        /\ all[n + 1] = [ws |-> app.ws, by |-> "leave"] /\ DOMAIN saves = 1 .. n /\ n \in Nat
        /\ \A k \in DOMAIN saves : all[k] = saves[k]
        /\ status' = "synchronizing"
    BY <1>0, <1>7, AppendedSave DEF Enqueue
  <2> HIDE DEF all, n
  <2>2. \A k \in DOMAIN saves' : saves'[k].by = "leave" => k = n + 1 /\ saves'[k].ws = app.ws
    <3>1. \A k \in DOMAIN saves' : k = n + 1 \/ (k \in DOMAIN saves /\ saves'[k] = saves[k])
      BY <2>1
    <3> QED
      BY <1>2, <2>1, <3>1
  <2>3. SavesInv'
    <3>1. OfWay(saves', leave')
      BY <1>1, <1>7, <2>1, <2>2 DEF OfWay
    <3> QED
      BY <1>0, <1>1, <1>7, <2>1, <3>1 DEF SavesInv, AtEnd
  <2>4. StepsInv'
    <3>1. WayInv(way)
      BY <1>1 DEF WayInv
    <3> QED
      BY <1>0, <1>1, <1>4, <1>7, <3>1 DEF StepsInv, AtEnd
  <2> SUFFICES ASSUME ~erased PROVE (WordsInv /\ WayKept /\ LeftKept)'
    BY <1>0, <1>3, <1>4, <2>3, <2>4 DEF LeavingInd
  <2>5. WordsInv /\ LeftKept
    BY DEF LeavingInd
  <2>6. WordsInv' /\ \A words \in Nat : OnDevice(words, device) => OnDevice(words, device')
    BY <1>0, <1>7, <2>5, EnqueueWords
  <2>7. WayKept'
    BY <1>0, <1>1, <1>7 DEF WayKept, AtEnd
  <2>8. LeftKept'
    BY <1>0, <1>1, <1>4, <1>5, <1>7, <2>5, <2>6 DEF LeftKept
  <2> QED
    BY <2>6, <2>7, <2>8
<1> QED
  BY <1>6, <1>7 DEF Begins, way

(* Deleting the account.                                                   *)
LEMMA EraseLeaving == ASSUME LeavingInd, Types', Erase PROVE LeavingInd'
<1> DEFINE way == Leaving("erase", "ask", app.ws, TRUE)
           c == Call("erase", 0, "none")
<1>0. /\ app.open /\ leave = Staying /\ Types /\ app.ws.words \in Nat /\ app.ws.words <= app.ws.words
      /\ leave' = way /\ calls' = calls \cup {c}
      /\ UNCHANGED <<stored, erased, app, device, saves, status, base, files, left>>
  BY WordsAreNumbers DEF Erase, hosted, LeavingInd
<1>1. /\ way.kind = "erase" /\ way.step = "ask" /\ way.ws = app.ws /\ way.covered
      /\ c.kind = "erase" /\ c.at = "sent"
  BY DEF Leaving, Call
<1> HIDE DEF way, c
<1>2. leave.kind = "none" /\ \A k \in DOMAIN saves : saves[k].by # "leave"
  BY <1>0, StayingIs DEF LeavingInd, SavesInv, OfWay
<1>3. SavesInv'
  BY <1>0, <1>1, <1>2 DEF LeavingInd, SavesInv, OfWay
<1>4. StepsInv'
  <2>1. WayInv(way)
    BY <1>1 DEF WayInv
  <2> QED
    BY <1>0, <1>1, <2>1 DEF LeavingInd, StepsInv, AtEnd
<1>5. ErasingInv'
  <2>1. \A d \in calls : d.kind # "erase"
    BY <1>2 DEF LeavingInd, ErasingInv
  <2> QED
    BY <1>0, <1>1, <2>1 DEF ErasingInv
<1>6. \A old \in left : old.ws \in Workspace /\ old.ws.words \in Nat
  BY DEF LeavingInd, Workspace
<1> SUFFICES ASSUME ~erased PROVE (WordsInv /\ WayKept /\ LeftKept)'
  BY <1>0, <1>3, <1>4, <1>5, <1>6 DEF LeavingInd
<1>7. WordsInv /\ LeftKept
  BY DEF LeavingInd
<1>8. WordsInv' /\ WayKept'
  BY <1>0, <1>1, <1>7 DEF WordsInv, WayKept
<1>9. LeftKept'
  BY <1>0, <1>1, <1>6, <1>7, OnDeviceIsShown DEF LeftKept
<1> QED
  BY <1>8, <1>9

LEMMA ServeEraseLeaving == ASSUME LeavingInd, Types', NEW c, ServeErase(c) PROVE LeavingInd'
<1> DEFINE d == [c EXCEPT !.at = Outcome(c)]
<1>0. /\ c \in calls \cup adrift /\ c.kind = "erase" /\ c.at = "sent" /\ c \in Asked
      /\ calls' = IF c \in calls THEN (calls \ {c}) \cup {d} ELSE calls
      /\ UNCHANGED <<app, device, saves, status, base, leave, files, left>>
      /\ IF signedIn THEN erased' = TRUE ELSE stored' = stored /\ erased' = erased
  BY DEF ServeErase, Erased, LeavingInd, Types, hosted, kept, history
<1>1. d.kind = "erase" /\ d.at = Outcome(c) /\ (d.at = "ok" => signedIn)
  BY <1>0 DEF Asked, Outcome
<1> HIDE DEF d
<1>2. SavesInv' /\ StepsInv' /\ \A old \in left' : old.ws \in Workspace
  BY <1>0 DEF LeavingInd, SavesInv, StepsInv
<1>3. ErasingInv'
  <2>1. CASE c \in calls
    BY <1>0, <1>1, <2>1 DEF LeavingInd, ErasingInv
  <2>2. CASE c \notin calls
    BY <1>0, <2>2 DEF LeavingInd, ErasingInv
  <2> QED
    BY <2>1, <2>2
<1>4. ~erased' => (WordsInv /\ WayKept /\ LeftKept)'
  BY <1>0 DEF LeavingInd, WordsInv, WayKept, LeftKept
<1> QED
  BY <1>2, <1>3, <1>4 DEF LeavingInd

(* A way out that is given up.                                             *)
LEMMA StaysLeaving ==
    ASSUME LeavingInd, Types', leave' = Staying, calls' \subseteq calls, \A c \in calls' : c.kind # "erase",
           leave.step # "save", UNCHANGED <<stored, erased, app, device, saves, status, base, files, left>>
    PROVE  LeavingInd'
<1>1. leave'.kind = "none" /\ leave'.step = "none"
  BY StayingIs
<1>2. SavesInv'
  BY <1>1 DEF LeavingInd, SavesInv, OfWay
<1>3. StepsInv'
  BY <1>1 DEF LeavingInd, StepsInv, WayInv
<1>4. ErasingInv'
  BY DEF ErasingInv
<1>5. ~erased => (WordsInv /\ WayKept /\ LeftKept)'
  BY <1>1 DEF LeavingInd, WordsInv, WayKept, LeftKept
<1> QED
  BY <1>2, <1>3, <1>4, <1>5 DEF LeavingInd

LEMMA LostLeaving == ASSUME LeavingInd, Types', NEW c, Lost(c), c.kind = "erase" PROVE LeavingInd'
<1>1. /\ leave' = Staying /\ calls' = calls \ {c} /\ c \in calls
      /\ UNCHANGED <<stored, erased, app, device, saves, status, base, files, left>>
  BY DEF Lost, hosted
<1>2. leave.step = "ask" /\ \A d \in calls' : d.kind # "erase"
  BY <1>1 DEF LeavingInd, ErasingInv
<1> QED
  BY <1>1, <1>2, StaysLeaving

LEMMA EraseAnsweredLeaving == ASSUME LeavingInd, Types', NEW c, EraseAnswered(c) PROVE LeavingInd'
<1>0. /\ c \in calls /\ c.kind = "erase" /\ c.at = "ok" /\ calls' = calls \ {c}
      /\ leave' = [leave EXCEPT !.step = "clear"] /\ leave \in Way
      /\ UNCHANGED <<stored, erased, app, device, saves, status, base, files, left>>
  BY DEF EraseAnswered, LeavingInd, Types, hosted, history
<1>1. leave.kind = "erase" /\ leave.step = "ask" /\ erased /\ \A d \in calls' : d.kind # "erase"
  BY <1>0 DEF LeavingInd, ErasingInv
<1>2. leave'.kind = "erase" /\ leave'.step = "clear" /\ leave'.covered = leave.covered
  BY <1>0, <1>1 DEF Way
<1>3. SavesInv'
  BY <1>0, <1>1, <1>2 DEF LeavingInd, SavesInv, OfWay
<1>4. StepsInv'
  <2>1. WayInv(leave')
    BY <1>1, <1>2 DEF LeavingInd, StepsInv, WayInv
  <2>2. app.open
    BY <1>1, StayingIs DEF LeavingInd, StepsInv
  <2> QED
    BY <1>0, <1>1, <1>2, <2>1, <2>2 DEF LeavingInd, StepsInv
<1>5. ErasingInv'
  BY <1>1 DEF ErasingInv
<1> QED
  BY <1>0, <1>1, <1>3, <1>4, <1>5 DEF LeavingInd

LEMMA ClearLeaving == ASSUME LeavingInd, Types', Clear PROVE LeavingInd'
<1>0. /\ leave.step = "clear" /\ leave \in Way /\ Types
      /\ (device' = None /\ leave' = [leave EXCEPT !.step = "go"]) \/ (leave' = Staying /\ UNCHANGED device)
      /\ UNCHANGED <<stored, erased, app, saves, status, base, calls, files, left>>
  BY DEF Clear, LeavingInd, Types, hosted, history
<1>1. \A c \in calls : c.kind # "erase"
  BY <1>0 DEF LeavingInd, ErasingInv
<1>2. leave.kind \in {"signOut", "erase"} /\ (leave.kind = "erase" => erased) /\ (leave.kind = "signOut" => saves = <<>>)
  BY <1>0, StayingIs DEF LeavingInd, StepsInv, SavesInv, WayInv, AtEnd, Way
<1>3. CASE leave' = Staying /\ UNCHANGED device
  BY <1>0, <1>1, <1>3, StaysLeaving
<1>4. CASE device' = None /\ leave' = [leave EXCEPT !.step = "go"]
  <2>1. /\ leave'.kind = leave.kind /\ leave'.step = "go" /\ leave'.ws = leave.ws
        /\ leave'.covered = leave.covered
    BY <1>0, <1>4 DEF Way
  <2>2. SavesInv'
    BY <1>0, <1>2, <2>1 DEF LeavingInd, SavesInv, OfWay, AtEnd
  <2>3. StepsInv'
    <3>1. WayInv(leave')
      BY <1>2, <2>1 DEF LeavingInd, StepsInv, WayInv
    <3> QED
      BY <1>0, <1>2, <1>4, <2>1, <3>1 DEF LeavingInd, StepsInv
  <2>4. ErasingInv'
    BY <1>0, <1>1 DEF ErasingInv
  <2>5. \A old \in left : old.ws \in Workspace /\ old.ws.words \in Nat
    BY DEF LeavingInd, Workspace
  <2> SUFFICES ASSUME ~erased PROVE (WordsInv /\ WayKept /\ LeftKept)'
    BY <1>0, <2>2, <2>3, <2>4, <2>5 DEF LeavingInd
  <2>6. /\ WordsInv /\ WayKept /\ LeftKept /\ leave.kind = "signOut"
        /\ Held(leave.ws.words, stored, files) /\ leave.ws.words \in Nat
    BY <1>0, <1>2, WordsAreNumbers DEF LeavingInd, WayKept, AtEnd
  <2>7. WordsInv'
    BY <1>0, <1>2, <1>4, <2>6 DEF WordsInv
  <2>8. WayKept'
    BY <1>0, <2>1, <2>6 DEF WayKept
  <2>9. LeftKept'
    <3> SUFFICES ASSUME NEW old \in left, old.kind # "erase", ~Held(old.ws.words, stored, files) PROVE FALSE
      BY <1>0 DEF LeftKept
    <3>1. old.ws.words <= leave.ws.words /\ old.ws.words \in Nat
      BY <2>5, <2>6 DEF LeftKept
    <3> QED
      BY <1>0, <2>6, <3>1, WordsAreNumbers DEF Held, Types, Workspace
  <2> QED
    BY <2>7, <2>8, <2>9
<1> QED
  BY <1>0, <1>3, <1>4

LEMMA LeavingStep == PatientLeaver /\ LeavingInd /\ [Next]_vars => LeavingInd'
<1> SUFFICES ASSUME PatientLeaver, LeavingInd, [Next]_vars PROVE LeavingInd'
  OBVIOUS
<1>0. Types'
  BY TypesStep DEF LeavingInd
<1>1. ASSUME NEW c \in calls \cup adrift, Answer(c) \/ Unauthorized(c) PROVE LeavingInd'
  BY <1>0, <1>1, AnswerLeaving, UnauthorizedLeaving DEF Answer, Unauthorized
<1>2. ASSUME NEW c \in calls \cup adrift,
             Serve(c) \/ Arrives(c) \/ ServeErase(c) \/ EraseAnswered(c) \/ Lost(c)
      PROVE  LeavingInd'
  BY <1>0, <1>2, ServingLeaving, ServeEraseLeaving, EraseAnsweredLeaving, LostLeaving
<1> QED
  BY <1>0, <1>1, <1>2, RestLeaving, GateLeaving, WritingLeaving, SavingLeaving, ArrivesLeaving, EndsLeaving,
     RefusedLeaving, AskingLeaving, BeginsLeaving, EraseLeaving, ClearLeaving, GoesLeaving
  DEF Next

LEMMA LeavingInit == Init => LeavingInd
<1> SUFFICES ASSUME Init PROVE LeavingInd
  OBVIOUS
<1>1. /\ device = None /\ ~app.open /\ saves = <<>> /\ DOMAIN saves = {} /\ leave = Staying
      /\ leave.kind = "none" /\ leave.step = "none" /\ calls = {} /\ base = None /\ left = {}
  BY StayingIs DEF Init, Closed
<1>2. SavesInv /\ StepsInv /\ ErasingInv
  BY <1>1 DEF SavesInv, OfWay, StepsInv, WayInv, ErasingInv
<1>3. WordsInv /\ WayKept /\ LeftKept
  BY <1>1 DEF WordsInv, Grows, WayKept, LeftKept, AtEnd
<1> QED
  BY <1>1, <1>2, <1>3, TypesInit DEF LeavingInd

(* What was written when the author chose to sign out or to update is on   *)
(* the server, in a downloaded recovery or in the device's record, unless  *)
(* the account is deleted; and signing out or deleting the account leaves  *)
(* no copy on the device, however saves, refusals, failures and other      *)
(* requests fall between the steps, for an author who waits for a save     *)
(* that a way out made (signOut, deleteAccount and the update in App.tsx;  *)
(* store.save).                                                            *)
THEOREM LeaversKeepTheirWords == ASSUME PatientLeaver PROVE Spec => []LeavingKeepsWords
<1>1. LeavingInd /\ [Next]_vars => LeavingInd'
  BY LeavingStep
<1>2. Spec => []LeavingInd
  BY LeavingInit, <1>1, PTL DEF Spec
<1> QED
  BY <1>2, LeavingIndIsKept, PTL
=============================================================================
