---------------------------- MODULE Interlocutor ----------------------------
(***************************************************************************)
(* The interlocutor of one page (App.tsx): a document whose blocks are     *)
(* organized and reflected on by the model, the author's corrections of a  *)
(* reflection, typed or dictated, and the Worker's four inference routes,  *)
(* each behind the allowance of InferenceQuota.                            *)
(***************************************************************************)
EXTENDS InferenceQuota, Sequences, SequencesExt, FiniteSetsExt

CONSTANTS
    Author,         \* the account of this page
    MaxBlocks,      \* bound on blocks ever made
    MaxEdits,       \* bound on what the author changes
    MaxWords,       \* bound on the words of a block, in units the limits below tell apart
    Substantive,    \* words a block is classified from (8 in the code)
    Enough,         \* words a document is named from (50 in the code)
    MaxReflections, \* bound on annotations
    Environment,    \* what an impatient author does
    Nothing

(* "uproot": deletes a block while a reflection on it is awaited;          *)
(* "restless": turns elsewhere while a correction is being dictated.       *)
ASSUME InterlocutorAssumption ==
    /\ Author \in Tenant
    /\ MaxBlocks \in Nat \ {0} /\ MaxEdits \in Nat /\ MaxWords \in Nat /\ MaxReflections \in Nat
    /\ Substantive \in Nat \ {0} /\ Enough \in Nat \ {0}
    /\ Environment \subseteq {"uproot", "restless"}

VARIABLES
    order,      \* document.blockIds
    block,      \* the blocks there are
    title,      \* titleSource of the document, and its updatedAt
    consent,    \* settings.automaticOrganization
    selected,   \* selectedBlockId
    made,       \* counters: changes, blocks and annotations
    organizer,  \* organizationInFlight and lastOrganizationAttempt
    annotation, \* the annotations
    busy,       \* reflectionBusy
    correction, \* the calibration field, its dictation's session and status
    mic,        \* the microphone the controller holds for it
    finishing,  \* finishCalibrationDictation: what it awaits
    asked       \* what the page awaits of each inference request

document == <<order, block, title, consent, selected>>
margin == <<annotation, busy, correction, mic, finishing>>
wire == <<organizer, asked>>
pageVars == <<document, made, margin, wire>>
allVars == <<vars, pageVars>>

NewBlock == [words |-> 0, version |-> 0, kind |-> "default", read |-> 0]
Quiet == [field |-> {}, session |-> Nothing, status |-> "idle"]
NotFinishing == [step |-> "none", said |-> Nothing]
Ask(kind, of, about) == [kind |-> kind, of |-> of, about |-> about, versions |-> << >>, named |-> 0]
Answer(has) == [ok |-> TRUE, has |-> has]
Failed == [ok |-> FALSE, has |-> {}]

(* The first workspace of an account; or one that was written before, with *)
(* an untouched block at its end and a reflection on the first.            *)
FirstTime ==
    /\ order = <<1>> /\ block = [b \in {1} |-> NewBlock]
    /\ consent \in {"undecided", "enabled"} /\ annotation = {}
    /\ made = [edits |-> 0, blocks |-> 1, annotations |-> 0]

Loaded ==
    /\ order = <<1, 2>>
    /\ block = [b \in {1, 2} |-> IF b = 1 THEN [NewBlock EXCEPT !.words = MaxWords] ELSE NewBlock]
    /\ consent = "enabled"
    /\ annotation = {[id |-> 1, block |-> 1, status |-> "open", turns |-> 0]}
    /\ made = [edits |-> 0, blocks |-> 2, annotations |-> 1]

PageInit ==
    /\ Init
    /\ FirstTime \/ Loaded
    /\ selected = 1 /\ title = [source |-> "empty", version |-> 1, read |-> 0]
    /\ organizer = [busy |-> FALSE, last |-> Nothing]
    /\ busy = FALSE /\ correction = Quiet /\ mic = "off"
    /\ finishing = NotFinishing
    /\ asked = [r \in Request |-> Nothing]

-----------------------------------------------------------------------------
(* What the page derives from its state when it renders.                   *)

Blocks == ToSet(order)
SelectedOf(s, o) == IF s \in ToSet(o) THEN s ELSE Head(o)
Selected == SelectedOf(selected, order)

(* The newest annotation of the block that is neither followed nor         *)
(* dismissed; 0 when there is none.                                        *)
CurrentOf(s, as) ==
    LET shown == {a.id : a \in {x \in as : x.block = s /\ x.status \in {"open", "saved"}}}
    IN IF shown = {} THEN 0 ELSE Max(shown)
Current == CurrentOf(Selected, annotation)

Dictating == correction.status \in {"requesting", "recording", "processing"}

(* The effect on the current annotation's id: another one starts over with *)
(* an empty field.                                                         *)
KeepsField(c) == c   \* mutant
Shown(c) == IF CurrentOf(SelectedOf(selected', order'), annotation') = Current THEN c ELSE Quiet

(* The request that is made next: which one it is makes no difference.     *)
Unsent == {r \in Request : pc[r] = "idle" /\ tenant[r] = Author /\ asked[r] = Nothing}
Free(r) == Unsent # {} /\ r = CHOOSE q \in Unsent : TRUE
Waiting(r) == asked[r] # Nothing /\ asked[r].kind # "done"
Awaited(kind) == {r \in Request : Waiting(r) /\ asked[r].kind = kind}
Sends(r, ask) == asked' = [asked EXCEPT ![r] = ask]
Over(r) == [asked EXCEPT ![r] = Ask("done", 0, 0)]

(* The controller's session has passed: a transcript that is still awaited *)
(* is not passed on.                                                       *)
StillWanted == UNCHANGED asked    \* mutant
Unwanted ==
    asked' = [r \in Request |-> IF r \in Awaited("transcribe")
                                THEN [asked[r] EXCEPT !.kind = "unwanted"] ELSE asked[r]]

(* A patient author waits until a dictated correction is in its field.     *)
Patient == "restless" \in Environment \/ (~Dictating /\ finishing = NotFinishing)

-----------------------------------------------------------------------------
(* Writing.  Every change of a block, and leaving its text field, also     *)
(* marks the document as changed.                                          *)

Edits ==
    /\ made.edits < MaxEdits
    /\ made' = [made EXCEPT !.edits = @ + 1]
Touched == title' = [title EXCEPT !.version = @ + 1]

Write(b) ==
    /\ Edits /\ Touched
    /\ \E w \in 0 .. MaxWords \ {block[b].words} :
          block' = [block EXCEPT ![b].words = w, ![b].version = @ + 1]
    /\ UNCHANGED <<vars, order, consent, selected, margin, wire>>

Blur ==
    /\ Edits /\ Touched
    /\ UNCHANGED <<vars, order, block, consent, selected, margin, wire>>

CorrectKind(b) ==
    /\ Edits /\ Touched
    /\ block' = [block EXCEPT ![b].kind = "author", ![b].version = @ + 1]
    /\ UNCHANGED <<vars, order, consent, selected, margin, wire>>

SetTitle ==
    /\ Edits
    /\ title' = [title EXCEPT !.source = "author", !.version = @ + 1]
    /\ UNCHANGED <<vars, order, block, consent, selected, margin, wire>>

Consents ==
    /\ consent' \in {"enabled", "disabled"} \ {consent}
    /\ Edits
    /\ UNCHANGED <<vars, order, block, title, selected, margin, wire>>

Select(b) ==
    /\ Patient /\ b # Selected
    /\ selected' = b
    /\ UNCHANGED <<order, annotation>>
    /\ correction' = Shown(correction)
    /\ UNCHANGED <<vars, block, title, consent, made, busy, mic, finishing, wire>>

(* addBlock after the block that is given, or at the end.                  *)
Adds ==
    LET b == made.blocks + 1
    IN /\ made.edits < MaxEdits /\ b <= MaxBlocks
       /\ made' = [made EXCEPT !.edits = @ + 1, !.blocks = b]
       /\ block' = [x \in DOMAIN block \cup {b} |-> IF x = b THEN NewBlock ELSE block[x]]
       /\ selected' = b
       /\ Touched

AddBlock ==
    /\ Patient /\ Adds
    /\ \E i \in 1 .. Len(order) : order' = InsertAt(order, i + 1, made.blocks + 1)
    /\ UNCHANGED annotation
    /\ correction' = Shown(correction)
    /\ UNCHANGED <<vars, consent, busy, mic, finishing, wire>>

(* The block's annotations go with it; the last block is replaced.         *)
KeepsAnnotations(b) == annotation    \* mutant
OfOthers(b) == {a \in annotation : a.block # b}

At(b) == CHOOSE i \in DOMAIN order : order[i] = b
Rest(b) == RemoveAt(order, At(b))
NextSelected(b) == IF At(b) \in DOMAIN Rest(b) THEN Rest(b)[At(b)] ELSE Rest(b)[At(b) - 1]

DeleteBlock(b) ==
    /\ Patient
    /\ "uproot" \in Environment \/ \A r \in Awaited("reflect") : asked[r].of # b
    /\ made.edits < MaxEdits
    /\ IF Len(order) = 1
       THEN LET n == made.blocks + 1
            IN /\ n <= MaxBlocks
               /\ order' = <<n>> /\ block' = [x \in {n} |-> NewBlock] /\ selected' = n
               /\ made' = [made EXCEPT !.edits = @ + 1, !.blocks = n]
       ELSE /\ order' = Rest(b)
            /\ block' = [x \in DOMAIN block \ {b} |-> block[x]]
            /\ selected' = NextSelected(b)
            /\ made' = [made EXCEPT !.edits = @ + 1]
    /\ Touched
    /\ annotation' = OfOthers(b)
    /\ correction' = Shown(correction)
    /\ UNCHANGED <<vars, consent, busy, mic, finishing, wire>>

-----------------------------------------------------------------------------
(* Organization: two seconds after the last render, unless the same text   *)
(* was tried last.                                                         *)

Written == {b \in Blocks : block[b].words > 0}
Eligible == {b \in Blocks : block[b].kind = "default" /\ block[b].words >= Substantive}
TitleEligible ==
    title.source = "empty" /\ MapThenSumSet(LAMBDA b : block[b].words, Blocks) >= Enough
Fingerprint == [document |-> title.version,
                blocks |-> [b \in Written |-> <<block[b].version, block[b].kind>>]]

Organize(r) ==
    /\ consent = "enabled" /\ ~organizer.busy
    /\ TitleEligible \/ Eligible # {}
    /\ Fingerprint # organizer.last
    /\ Free(r)
    /\ Sends(r, [Ask("organize", 0, 0) EXCEPT
                    !.versions = [b \in Written |-> block[b].version],
                    !.named = IF TitleEligible THEN title.version ELSE 0])
    /\ organizer' = [busy |-> TRUE, last |-> Fingerprint]
    /\ UNCHANGED <<vars, document, made, margin>>

(* What came back is used only for what did not change since.              *)
AnyVersion(q, b) == block[b].kind = "default" /\ b \in DOMAIN q.versions          \* mutant
AnyKind(q, b) == b \in DOMAIN q.versions /\ q.versions[b] = block[b].version      \* mutant
Classifiable(q, b) ==
    /\ block[b].kind = "default"
    /\ b \in DOMAIN q.versions /\ q.versions[b] = block[b].version
AnyTitle(q) == q.named # 0 /\ title.source = "empty"     \* mutant
Nameable(q) == q.named # 0 /\ title.version = q.named /\ title.source = "empty"

Organized(r, reply) ==
    LET q == asked[r]
    IN /\ block' = [b \in DOMAIN block |->
                      IF b \in reply.has /\ Classifiable(q, b)
                      THEN [block[b] EXCEPT !.kind = "generated", !.read = q.versions[b]]
                      ELSE block[b]]
       /\ title' = IF reply.ok /\ Nameable(q)
                   THEN [title EXCEPT !.source = "generated", !.read = q.named] ELSE title
       /\ organizer' = [organizer EXCEPT !.busy = FALSE]
       /\ asked' = Over(r)
       /\ UNCHANGED <<order, consent, selected, made, margin>>

-----------------------------------------------------------------------------
(* Reflection, and the correction of a reflection.                         *)

RunReflection(r, about) ==
    /\ Free(r)
    /\ Sends(r, Ask("reflect", Selected, about))
    /\ busy' = TRUE

Reflect(r) ==
    /\ ~busy /\ Current = 0 /\ block[Selected].words > 0
    /\ made.annotations < MaxReflections
    /\ RunReflection(r, 0)
    /\ UNCHANGED <<vars, document, made, annotation, correction, mic, finishing, organizer>>

(* The field is cleared although a block without words is not reflected on.*)
Respond ==
    /\ ~busy /\ ~Dictating /\ Current # 0 /\ correction.field # {}
    /\ correction' = [correction EXCEPT !.field = {}]
    /\ IF block[Selected].words > 0 THEN \E r \in Request : RunReflection(r, Current)
       ELSE UNCHANGED <<busy, asked>>
    /\ UNCHANGED <<vars, document, made, annotation, mic, finishing, organizer>>

StaysBusy == busy    \* mutant
Rested == FALSE

(* The new reflection, or the turns of the corrected one if it is there.   *)
Reflected(r, reply) ==
    LET q == asked[r]
        id == made.annotations + 1
    IN /\ IF ~reply.ok THEN UNCHANGED <<annotation, made>>
          ELSE IF q.about = 0
          THEN /\ annotation' = annotation \cup
                     {[id |-> id, block |-> q.of, status |-> "open", turns |-> 0]}
               /\ made' = [made EXCEPT !.annotations = id]
          ELSE /\ annotation' = {IF a.id = q.about THEN [a EXCEPT !.turns = @ + 1] ELSE a :
                                   a \in annotation}
               /\ UNCHANGED made
       /\ UNCHANGED <<selected, order>>
       /\ correction' = Shown(correction)
       /\ busy' = Rested
       /\ asked' = Over(r)
       /\ UNCHANGED <<block, title, consent, mic, finishing, organizer>>

Marked(status) ==
    annotation' = {IF a.id = Current THEN [a EXCEPT !.status = status] ELSE a : a \in annotation}

SaveForLater ==
    /\ Current # 0 /\ Edits
    /\ Marked("saved")
    /\ UNCHANGED <<vars, document, busy, correction, mic, finishing, wire>>

(* cancelCalibrationDictation: the controller forgets what it recorded.    *)
Dismiss ==
    /\ Current # 0
    /\ "restless" \in Environment \/ finishing = NotFinishing
    /\ Marked("dismissed")
    /\ UNCHANGED <<selected, order>>
    /\ correction' = Shown(Quiet)
    /\ mic' = IF Dictating THEN "off" ELSE mic
    /\ IF Dictating THEN Unwanted ELSE UNCHANGED asked
    /\ UNCHANGED <<vars, block, title, consent, made, busy, finishing, organizer>>

Follow ==
    /\ Patient /\ Current # 0
    /\ Marked("followed")
    /\ Adds /\ order' = Append(order, made.blocks + 1)
    /\ correction' = Shown(correction)
    /\ UNCHANGED <<vars, consent, busy, mic, finishing, wire>>

Type ==
    /\ Current # 0 /\ ~Dictating
    /\ correction' = [correction EXCEPT !.field = @ \cup {Current}]
    /\ UNCHANGED <<vars, document, made, annotation, busy, mic, finishing, wire>>

-----------------------------------------------------------------------------
(* Dictating a correction.  DictationCapture models the controller; here   *)
(* it holds a microphone, and what it recorded is awaited as transcripts.  *)

StartCorrection ==
    /\ Current # 0 /\ ~busy /\ ~Dictating /\ mic = "off"
    /\ "restless" \in Environment \/ finishing = NotFinishing
    /\ correction' = [correction EXCEPT !.session = [prefix |-> correction.field, said |-> {}],
                                        !.status = "requesting"]
    /\ mic' = "asked" /\ Unwanted
    /\ UNCHANGED <<vars, document, made, annotation, busy, finishing, organizer>>

Granted ==
    /\ mic = "asked"
    /\ mic' = "on"
    /\ correction' = [correction EXCEPT !.status = "recording"]
    /\ UNCHANGED <<vars, document, made, annotation, busy, finishing, wire>>

Transcribe(r, waits) ==
    Free(r) /\ asked' = [waits EXCEPT ![r] = Ask("transcribe", Selected, Current)]

(* The recorder stops, and what it recorded last is transcribed too.       *)
Stops(waits) ==
    \/ asked' = waits
    \/ mic = "on" /\ \E r \in Request : Transcribe(r, waits)

Interrupt(waits) ==
    /\ correction' = [correction EXCEPT !.status = "interrupted"]
    /\ mic' = "off" /\ Stops(waits)

(* Access is denied, the page hidden, the connection or the device lost.   *)
Interrupted ==
    /\ mic \in {"asked", "on"} \/ finishing.step = "waiting"
    /\ Interrupt(asked)
    /\ UNCHANGED <<vars, document, made, annotation, busy, finishing, organizer>>

Checkpoint(r) ==
    /\ mic = "on" /\ Awaited("transcribe") = {}
    /\ Transcribe(r, asked)
    /\ UNCHANGED <<vars, document, made, margin, organizer>>

FinishCorrection ==
    /\ correction.status = "recording" /\ ~busy
    /\ correction' = [correction EXCEPT !.status = "processing"]
    /\ mic' = "off"
    /\ finishing' = [step |-> "waiting", said |-> Nothing]
    /\ Stops(asked)
    /\ UNCHANGED <<vars, document, made, annotation, busy, organizer>>

Value(s) == s.prefix \cup s.said

(* onTranscript; a failure interrupts what is being recorded.              *)
Transcribed(r, reply) ==
    LET s == correction.session
        longer == [s EXCEPT !.said = @ \cup reply.has]
    IN /\ IF ~reply.ok
          THEN Interrupt(Over(r))
          ELSE /\ asked' = Over(r)
               /\ correction' = IF s = Nothing THEN correction
                                ELSE [correction EXCEPT !.session = longer, !.field = Value(longer)]
               /\ UNCHANGED mic
       /\ UNCHANGED <<document, made, annotation, busy, finishing, organizer>>

Entered(s) ==
    /\ correction' = [field |-> Value(s), session |-> Nothing, status |-> "idle"]
    /\ finishing' = NotFinishing

(* finish returns when nothing recorded waits for its transcript.          *)
NoWords == correction.session = Nothing \/ correction.session.said = {}

Finished ==
    /\ finishing.step = "waiting" /\ Awaited("transcribe") \cup Awaited("unwanted") = {}
    /\ IF NoWords
       THEN /\ correction' = [correction EXCEPT !.status = "interrupted"]
            /\ finishing' = NotFinishing
            /\ UNCHANGED asked
       ELSE \/ \E r \in Request :
                  /\ Free(r) /\ Sends(r, Ask("clean", Selected, Current))
                  /\ finishing' = [step |-> "cleaning", said |-> correction.session]
                  /\ UNCHANGED correction
            \/ Entered(correction.session) /\ UNCHANGED asked
    /\ UNCHANGED <<vars, document, made, annotation, busy, mic, organizer>>

(* Cleaned or, when that fails, verbatim.                                  *)
Cleaned(r) ==
    /\ Entered(finishing.said)
    /\ asked' = Over(r)
    /\ UNCHANGED <<document, made, annotation, busy, mic, organizer>>

-----------------------------------------------------------------------------
(* The Worker.  An admitted request is answered by its handler: with a     *)
(* failure, whatever its reason, or with what the model makes of it, here  *)
(* the blocks it names a kind for, or whether speech had any words.        *)

HandleReflection(q)    == {Failed, Answer({})}
HandleOrganization(q)  == {Failed} \cup {Answer(kinds) : kinds \in SUBSET DOMAIN q.versions}
HandleTranscription(q) == {Failed} \cup {Answer(words) : words \in SUBSET {q.about}}
HandleCleanup(q)       == {Failed, Answer({})}

Handle(q) ==
    CASE q.kind = "reflect" -> HandleReflection(q)
      [] q.kind = "organize" -> HandleOrganization(q)
      [] q.kind \in {"transcribe", "unwanted"} -> HandleTranscription(q)
      [] q.kind = "clean" -> HandleCleanup(q)

Reserves(r) ==
    /\ \/ Arrives(r) /\ (tenant[r] = Author => asked[r] # Nothing)
       \/ ReadUsage(r) \/ Update(r) \/ InsertUsage(r) \/ Retry(r)
    /\ UNCHANGED pageVars

(* A request that was answered is over; one that nobody waits for is not.  *)
Throws(r) ==
    /\ pc[r] = "admitted" => Waiting(r)
    /\ Fail(r)
    /\ UNCHANGED pageVars

(* What the page does with an answer.                                      *)
Continues(r, reply) ==
    \/ asked[r].kind = "organize" /\ Organized(r, reply)
    \/ asked[r].kind = "reflect" /\ Reflected(r, reply)
    \/ asked[r].kind = "transcribe" /\ Transcribed(r, reply)
    \/ /\ asked[r].kind = "unwanted" /\ asked' = Over(r)
       /\ UNCHANGED <<document, made, margin, organizer>>
    \/ asked[r].kind = "clean" /\ Cleaned(r)

Hears(r) ==
    /\ Waiting(r) /\ pc[r] \in {"admitted", "refused", "failed"}
    /\ \E reply \in IF pc[r] = "admitted" THEN Handle(asked[r]) ELSE {Failed} : Continues(r, reply)
    /\ UNCHANGED vars

(* The request, or its answer, is lost, or it took longer than 45 seconds. *)
Lost(r) ==
    /\ Waiting(r)
    /\ Continues(r, Failed)
    /\ UNCHANGED vars

(* The page shares no state with a statement of the Worker, so its steps   *)
(* are explored before and after a request's statements, not between them. *)
Between == \A r \in Request : pc[r] \notin {"read", "update", "insert", "retry"}

(* A bound: midnight is explored while the day's first requests are being  *)
(* reserved.                                                               *)
Passes ==
    /\ ~Between /\ \A r \in Request : pc[r] \notin {"admitted", "refused", "failed"}
    /\ Midnight
    /\ UNCHANGED pageVars

PageSteps ==
    \/ \E b \in Blocks : Write(b) \/ CorrectKind(b) \/ Select(b) \/ DeleteBlock(b)
    \/ Blur \/ SetTitle \/ Consents \/ AddBlock
    \/ \E r \in Request : Organize(r) \/ Reflect(r) \/ Checkpoint(r) \/ Hears(r) \/ Lost(r)
    \/ Respond \/ SaveForLater \/ Dismiss \/ Follow \/ Type
    \/ StartCorrection \/ Granted \/ Interrupted \/ FinishCorrection \/ Finished

PageNext ==
    \/ Between /\ PageSteps
    \/ \E r \in Request : Reserves(r) \/ Throws(r)
    \/ Passes

PageSpec == PageInit /\ [][PageNext]_allVars

-----------------------------------------------------------------------------
(* Properties.                                                             *)

Kinds == {"default", "generated", "author"}

PageTypeOK ==
    /\ ToSet(order) = DOMAIN block /\ DOMAIN block \subseteq 1 .. made.blocks
    /\ block \in [DOMAIN block -> [words: 0 .. MaxWords, version: Nat, kind: Kinds, read: Nat]]
    /\ title \in [source: {"empty", "generated", "author"}, version: Nat, read: Nat]
    /\ consent \in {"undecided", "enabled", "disabled"}
    /\ annotation \subseteq [id: 1 .. made.annotations, block: 1 .. made.blocks, turns: Nat,
                             status: {"open", "saved", "followed", "dismissed"}]
    /\ busy \in BOOLEAN /\ organizer.busy \in BOOLEAN
    /\ mic \in {"off", "asked", "on"}
    /\ finishing.step \in {"none", "waiting", "cleaning"}

(* An annotation belongs to a block that is there, also when its answer    *)
(* took long: a patient author keeps the block (App.tsx:1693).             *)
Anchored == \A a \in annotation : a.block \in Blocks

(* What an author said or typed to correct one reflection is never in the  *)
(* field under another, and a live microphone shows as recording there.    *)
CorrectionStaysPut == correction.field \subseteq {Current} \ {0}
MicrophoneShown == mic = "on" => correction.status = "recording"

(* The page is reflecting, organizing or cleaning exactly while the one    *)
(* request for it is awaited, whatever failed, was refused or was lost:    *)
(* nothing is asked twice, and nothing shows as busy for ever.             *)
OneOfEach ==
    /\ busy = (Awaited("reflect") # {}) /\ Cardinality(Awaited("reflect")) <= 1
    /\ organizer.busy = (Awaited("organize") # {}) /\ Cardinality(Awaited("organize")) <= 1
    /\ (finishing.step = "cleaning") = (Awaited("clean") # {})

MarginInv == PageTypeOK /\ Anchored /\ CorrectionStaysPut /\ MicrophoneShown /\ OneOfEach

(* "Stale model responses cannot overwrite newer text, a manual title, or  *)
(* a corrected tag": whatever the author does while the organizer is       *)
(* asked, a kind or title that it generates replaces none of the author's  *)
(* and was made from the very version of the text that is on the page.     *)
MetadataOfTheseWords ==
    [][/\ \A b \in DOMAIN block \cap DOMAIN block' :
             block'[b].kind = "generated" /\ block[b].kind # "generated" =>
                 block[b].kind = "default" /\ block'[b].read = block[b].version
       /\ title'.source = "generated" /\ title.source # "generated" =>
              title.source = "empty" /\ title'.read = title.version]_allVars

(* "clears the ephemeral draft only after the request starts               *)
(* successfully": false when the block has no words (App.tsx:1661).        *)
ClearedWhenSent ==
    [][correction.field # {} /\ correction' = [correction EXCEPT !.field = {}] /\ Current # 0
         => busy' \/ CurrentOf(SelectedOf(selected', order'), annotation') # Current]_allVars
=============================================================================
