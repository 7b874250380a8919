-------------------------- MODULE DictationCapture --------------------------
(***************************************************************************)
(* BrowserDictationController (capture.ts) and the dictation draft that    *)
(* App.tsx makes of it.  Each recording between two checkpoints is a       *)
(* chunk: it is recorded, stopped, queued, and transcribed into the draft. *)
(***************************************************************************)
EXTENDS Integers, Sequences, SequencesExt, FiniteSets

CONSTANTS
    MaxDrafts,      \* bound on dictations begun
    MaxChunks,      \* bound on recordings, in all dictations together
    MaxSessions,    \* bound on calls of start since the page was loaded
    Backlog,        \* checkpoints that may wait for transcription (2 in the code)
    Environment,    \* what may happen besides a patient author dictating
    None

(* "wake": start waits for a wake lock; "early": it may be interrupted     *)
(* while it does; "overlap": the author acts while an earlier act is still *)
(* under way; "quick": before a recorder that was stopped says so.  Two    *)
(* recorders of one stream, which "wake" and "overlap" together would      *)
(* allow, are not modelled.                                                *)
ASSUME CaptureAssumption ==
    /\ MaxDrafts \in Nat /\ MaxChunks \in Nat /\ MaxSessions \in Nat /\ Backlog \in Nat \ {0}
    /\ Environment \subseteq {"wake", "early", "overlap", "quick"}
    /\ ~({"wake", "overlap"} \subseteq Environment)

VARIABLES
    draft,      \* App: the dictation draft, or None
    drafted,    \* how many drafts there have been; the last one's id
    calls,      \* App: the calls of start, pause and finish under way
    capture     \* the controller, its streams and recorders

vars == <<draft, drafted, calls, capture>>

Active == {"requesting", "recording", "processing"}
Unfinished == {"recording", "stopping", "queued"}

(* stream is the session that opened it; live, the streams whose tracks    *)
(* run; recorder and checkpoint name a chunk; queue is transcriptionQueue, *)
(* with one pending checkpoint for each element; cut marks a chunk that an *)
(* interruption overtook, for the properties.                              *)
NewCapture(chunks) ==
    [session |-> 0, handling |-> FALSE, stream |-> None, live |-> {}, listening |-> FALSE,
     recorder |-> None, continuing |-> FALSE, checkpoint |-> None, armed |-> {},
     queue |-> << >>, chunk |-> chunks]

Init ==
    /\ draft = None /\ drafted = 0 /\ calls = << >>
    /\ capture = NewCapture(<< >>)

-----------------------------------------------------------------------------
(* The controller's private methods, from one state of it to the next.     *)

Recording(c) == c.recorder # None /\ c.chunk[c.recorder].state = "recording"

ClearCheckpoint(c) == [c EXCEPT !.armed = @ \ {c.checkpoint}, !.checkpoint = None]

(* A recorder whose tracks all have ended stops by itself.                 *)
StopStream(c) ==
    LET d == [c EXCEPT !.live = @ \ {c.stream}, !.stream = None]
    IN IF Recording(c) /\ c.stream # None THEN [d EXCEPT !.chunk[c.recorder].state = "stopping"] ELSE d

(* A recorder that stops hands out its data later, in its stop event.      *)
StopRecorder(c, continueAfter) ==
    LET d == [ClearCheckpoint(c) EXCEPT !.continuing = continueAfter]
    IN IF Recording(c) THEN [d EXCEPT !.chunk[c.recorder].state = "stopping"] ELSE d

StartRecorder(c) ==
    IF c.stream = None \/ ~c.handling THEN c
    ELSE LET r == Len(c.chunk) + 1
         IN [c EXCEPT !.chunk = Append(@, [draft |-> drafted, state |-> "recording", cut |-> FALSE]),
                      !.recorder = r, !.checkpoint = r, !.armed = @ \cup {r}]

Cut(c) ==
    [c EXCEPT !.chunk = [i \in DOMAIN c.chunk |->
                            [c.chunk[i] EXCEPT !.cut = @ \/ c.chunk[i].state \in Unfinished]]]

Interrupt(c) ==
    IF c.handling THEN [StopRecorder(StopStream(Cut(c)), FALSE) EXCEPT !.listening = FALSE] ELSE c

Cancelled(c) ==
    [StopRecorder(StopStream(Cut(c)), FALSE) EXCEPT
        !.session = @ + 1, !.handling = FALSE, !.recorder = None, !.listening = FALSE]

HasRoom(c) == Len(c.queue) < Backlog

QueueTranscription(c, r) ==
    IF HasRoom(c)
    THEN [c EXCEPT !.queue = Append(@, [chunk |-> r, session |-> c.session]), !.chunk[r].state = "queued"]
    ELSE [Interrupt(c) EXCEPT !.chunk[r].state = "dropped"]

NeverContinues(c) == c       \* mutant
Continue(c) ==
    IF c.continuing /\ c.handling /\ c.stream # None
    THEN StartRecorder([c EXCEPT !.continuing = FALSE]) ELSE c

-----------------------------------------------------------------------------
(* App: the draft, and what the handlers make of it.                       *)

WithStatus(d, status, reason) ==
    IF d = None THEN None ELSE [d EXCEPT !.status = status, !.reason = reason]

Started(d) == WithStatus(d, "recording", None)
Interrupted(d, reason) == WithStatus(d, "interrupted", reason)
Transcript(d, r) ==
    IF d = None THEN None ELSE [d EXCEPT !.words = Append(@, r), !.content = Append(d.words, r)]

(* A call awaits a recorder's stop event, or the last transcription that   *)
(* was queued when it looked (0: none).                                    *)
Call(kind, at, on) == [kind |-> kind, at |-> at, on |-> on, text |-> << >>]
LastQueued(c) == IF c.queue = << >> THEN 0 ELSE Last(c.queue).chunk

Unawaited(kind) == Call(kind, "queue", 0)    \* mutant
AlwaysStops(kind) == Call(kind, "stop", capture.recorder)    \* mutant
Stopping(kind) ==
    IF Recording(capture) THEN Call(kind, "stop", capture.recorder)
    ELSE Call(kind, "queue", LastQueued(capture))

Ready(i) ==
    /\ calls[i].at \in {"queue", "drain"}
    /\ \A k \in DOMAIN capture.queue : capture.queue[k].chunk # calls[i].on

(* What resumes in a microtask does so before any event or click.          *)
Quiet == \A i \in DOMAIN calls : ~Ready(i)
AtWake == \E i \in DOMAIN calls : calls[i].at = "wake"

(* A patient author waits until the page has done what was asked.          *)
MayAct ==
    /\ Quiet
    /\ calls = << >> \/ "overlap" \in Environment
    /\ \/ "quick" \in Environment
       \/ \A r \in DOMAIN capture.chunk : capture.chunk[r].state # "stopping"

Opening == {i \in DOMAIN calls : calls[i].kind = "start"}
MayRecord == Len(capture.chunk) + Cardinality(Opening) + (IF capture.continuing THEN 1 ELSE 0) < MaxChunks

Start ==
    /\ capture.session < MaxSessions /\ MayRecord
    /\ capture' = [capture EXCEPT !.session = @ + 1, !.handling = TRUE]
    /\ calls' = Append(calls, Call("start", "media", capture.session + 1))

StartDictation ==
    /\ MayAct /\ draft = None /\ drafted < MaxDrafts
    /\ draft' = [id |-> drafted + 1, status |-> "requesting", reason |-> None, words |-> << >>, content |-> << >>]
    /\ drafted' = drafted + 1
    /\ Start

(* After a reload the controller has no handlers, and resume returns.      *)
ResumeDictation ==
    /\ MayAct /\ draft # None
    /\ \/ draft.status = "paused" /\ capture.handling
       \/ draft.status = "interrupted" /\ draft.reason # "storage_failure"
    /\ Start
    /\ UNCHANGED <<draft, drafted>>

Returned(i) == calls' = RemoveAt(calls, i)

(* getUserMedia answers: a stream that a cancelled start was given is      *)
(* stopped at once.  A hidden page, or a browser that has none, is asked   *)
(* for no wake lock.                                                       *)
Unguarded(i) == TRUE         \* mutant
Current(i) == calls[i].on = capture.session

Granted(i) ==
    LET c == [capture EXCEPT !.stream = calls[i].on, !.live = @ \cup {calls[i].on}, !.listening = TRUE]
    IN /\ Quiet /\ calls[i].at = "media"
       /\ IF ~Current(i) THEN Returned(i) /\ UNCHANGED <<draft, capture>>
          ELSE \/ /\ "wake" \in Environment
                  /\ capture' = c /\ calls' = [calls EXCEPT ![i].at = "wake"] /\ UNCHANGED draft
               \/ capture' = StartRecorder(c) /\ draft' = Started(draft) /\ Returned(i)
       /\ UNCHANGED drafted

Denied(i) ==
    /\ Quiet /\ calls[i].at = "media"
    /\ draft' = IF Current(i) THEN Interrupted(draft, "transcription_failure") ELSE draft
    /\ Returned(i)
    /\ UNCHANGED <<drafted, capture>>

(* The wake lock is there, or not to be had; start does not look again.    *)
Woken(i) ==
    /\ Quiet /\ calls[i].at = "wake"
    /\ capture' = StartRecorder(capture)
    /\ draft' = Started(draft)
    /\ Returned(i)
    /\ UNCHANGED drafted

Checkpoint(r) ==
    /\ Quiet /\ r \in capture.armed /\ MayRecord
    /\ capture' = StopRecorder([capture EXCEPT !.armed = @ \ {r}], TRUE)
    /\ UNCHANGED <<draft, drafted, calls>>

StopEvent(r) ==
    /\ Quiet /\ capture.chunk[r].state = "stopping"
    /\ capture' = Continue(IF capture.handling THEN QueueTranscription(capture, r)
                           ELSE [capture EXCEPT !.chunk[r].state = "dropped"])
    /\ draft' = IF capture.handling /\ ~HasRoom(capture)
                THEN Interrupted(draft, "transcription_failure") ELSE draft
    /\ calls' = [i \in DOMAIN calls |->
                   IF calls[i].at = "stop" /\ calls[i].on = r
                   THEN Call(calls[i].kind, "queue", LastQueued(capture')) ELSE calls[i]]
    /\ UNCHANGED drafted

(* The oldest checkpoint's request answers with words, with silence, or    *)
(* fails.  The client's timer of 45 seconds bounds the wait for the        *)
(* headers only; that a body begun also ends is left to the platform.      *)
AnySession(job) == capture.handling      \* mutant
Wanted(job) == job.session = capture.session

Transcribed(outcome) ==
    /\ Quiet /\ capture.queue # << >>
    /\ LET job == Head(capture.queue)
           c == [capture EXCEPT !.queue = Tail(@), !.chunk[job.chunk].state = IF Wanted(job) THEN outcome ELSE "dropped"]
           failed == Wanted(job) /\ outcome = "failed"
       IN /\ capture' = IF failed THEN Interrupt(c) ELSE c
          /\ draft' = IF failed THEN Interrupted(draft, "transcription_failure")
                      ELSE IF Wanted(job) /\ outcome = "heard" THEN Transcript(draft, job.chunk) ELSE draft
    /\ UNCHANGED <<drafted, calls>>

(* The page is hidden or offline, or the microphone or the recorder fails. *)
Lifecycle ==
    /\ Quiet /\ capture.handling /\ (capture.listening \/ capture.stream # None)
    /\ AtWake => "early" \in Environment
    /\ capture' = Interrupt(capture)
    /\ draft' = Interrupted(draft, "connection_lost")
    /\ UNCHANGED <<drafted, calls>>

PauseDictation ==
    /\ MayAct /\ draft # None /\ draft.status = "recording"
    /\ capture' = StopRecorder(capture, FALSE)
    /\ calls' = Append(calls, Stopping("pause"))
    /\ UNCHANGED <<draft, drafted>>

Paused(i) ==
    /\ Ready(i) /\ calls[i].kind = "pause"
    /\ capture' = [StopStream(capture) EXCEPT !.listening = FALSE]
    /\ draft' = IF draft # None /\ draft.status = "interrupted" THEN draft
                ELSE WithStatus(draft, "paused", IF draft = None THEN None ELSE draft.reason)
    /\ Returned(i)
    /\ UNCHANGED drafted

FinishDictation ==
    /\ MayAct /\ draft # None /\ draft.status \in {"recording", "paused"}
    /\ draft' = [draft EXCEPT !.status = "processing"]
    /\ capture' = StopRecorder(capture, FALSE)
    /\ calls' = Append(calls, Stopping("finish"))
    /\ UNCHANGED drafted

Drained(i) ==
    /\ Ready(i) /\ calls[i].kind = "finish" /\ calls[i].at = "queue"
    /\ capture' = StopStream(capture)
    /\ calls' = [calls EXCEPT ![i].at = "drain", ![i].on = LastQueued(capture)]
    /\ UNCHANGED <<draft, drafted>>

(* finish has returned: an interrupted draft is left alone unless only its *)
(* last words are missing; the rest is cleaned up, or kept verbatim.       *)
Finished(i) ==
    /\ Ready(i) /\ calls[i].at = "drain"
    /\ capture' = [capture EXCEPT !.listening = FALSE]
    /\ IF draft = None \/ (draft.status = "interrupted" /\ (draft.reason # "transcription_failure" \/ draft.words = << >>))
       THEN Returned(i) /\ UNCHANGED draft
       ELSE IF draft.words = << >>
       THEN Returned(i) /\ draft' = Interrupted(draft, "transcription_failure")
       ELSE \/ calls' = [calls EXCEPT ![i].at = "clean", ![i].text = draft.words] /\ UNCHANGED draft
            \/ Returned(i) /\ draft' = [WithStatus(draft, "review", None) EXCEPT !.content = draft.words]
    /\ UNCHANGED drafted

(* The cleanup of a text stands for the words of that text.                *)
Cleaned(i) ==
    /\ Quiet /\ calls[i].at = "clean"
    /\ \E text \in {calls[i].text} \cup (IF draft = None THEN {} ELSE {draft.words}) :
          draft' = IF draft = None THEN None ELSE [WithStatus(draft, "review", None) EXCEPT !.content = text]
    /\ Returned(i)
    /\ UNCHANGED <<drafted, capture>>

KeepDictation ==
    /\ MayAct /\ draft # None /\ draft.status = "review"
    /\ draft' = None
    /\ UNCHANGED <<drafted, calls, capture>>

(* Cancelling waits for nothing.                                           *)
DiscardDictation ==
    /\ Quiet /\ draft # None
    /\ draft' = None
    /\ capture' = Cancelled(capture)
    /\ UNCHANGED <<drafted, calls>>

(* IndexedDB rejects a save.                                               *)
StorageFails ==
    /\ Quiet /\ draft # None /\ draft.status \in Active
    /\ AtWake => "early" \in Environment
    /\ draft' = Interrupted(draft, "storage_failure")
    /\ capture' = Cancelled(capture)
    /\ UNCHANGED <<drafted, calls>>

(* The page is closed and loaded again; recoverWorkspaceState.             *)
Reload ==
    /\ Quiet /\ draft # None
    /\ draft' = IF draft.status \in Active THEN Interrupted(draft, "storage_failure") ELSE draft
    /\ calls' = << >>
    /\ capture' = NewCapture([i \in DOMAIN capture.chunk |->
                                 [capture.chunk[i] EXCEPT !.state = IF @ \in Unfinished THEN "dropped" ELSE @,
                                                          !.cut = @ \/ capture.chunk[i].state \in Unfinished]])
    /\ UNCHANGED drafted

-----------------------------------------------------------------------------

Transcription == \E outcome \in {"heard", "silent", "failed"} : Transcribed(outcome)
Stopped == \E r \in DOMAIN capture.chunk : StopEvent(r)
Resumed == \E i \in DOMAIN calls : Paused(i) \/ Drained(i) \/ Finished(i) \/ Cleaned(i)

Next ==
    \/ StartDictation \/ ResumeDictation \/ PauseDictation \/ FinishDictation
    \/ KeepDictation \/ DiscardDictation
    \/ \E i \in DOMAIN calls : Granted(i) \/ Denied(i) \/ Woken(i)
    \/ \E r \in DOMAIN capture.chunk : Checkpoint(r)
    \/ Transcription \/ Stopped \/ Resumed
    \/ Lifecycle \/ StorageFails \/ Reload

Spec == Init /\ [][Next]_vars

(* Recorders deliver their data, requests answer or time out.              *)
Fairness == WF_vars(Transcription) /\ WF_vars(Stopped) /\ WF_vars(Resumed)
FairSpec == Spec /\ Fairness

-----------------------------------------------------------------------------
(* Properties.                                                             *)

State == {"requesting", "recording", "paused", "processing", "interrupted", "review"}

(* The draft's status is one of the schema's, no more checkpoints wait for *)
(* transcription than the backlog allows, and the recorder is one that was *)
(* started.                                                                *)
TypeOK ==
    /\ drafted \in 0 .. MaxDrafts
    /\ draft # None => draft.id \in 1 .. drafted /\ draft.status \in State
    /\ capture.session \in 0 .. MaxSessions + 2
    /\ Len(capture.queue) <= Backlog
    /\ Len(capture.chunk) <= MaxChunks
    /\ capture.recorder # None => capture.recorder \in DOMAIN capture.chunk

(* A draft that shows "Recording" is being recorded, or is between two     *)
(* chunks, except while the author's pause takes effect.                   *)
RecordingMeansRecording ==
    draft # None /\ draft.status = "recording" /\ (\A i \in DOMAIN calls : calls[i].kind # "pause") =>
        \/ Recording(capture)
        \/ /\ capture.continuing /\ capture.stream # None
           /\ \E r \in DOMAIN capture.chunk : capture.chunk[r].state = "stopping"

(* The microphone is open only while a dictation asks for it, records or   *)
(* is being finished: never after it was kept, cancelled or interrupted.   *)
MicrophoneOff ==
    capture.live # {} => draft # None /\ (draft.status \in Active \/ AtWake)

(* The types, and the microphone is as the draft says: recorded while it   *)
(* says so, closed when no dictation wants it.                             *)
MicrophoneInv == TypeOK /\ RecordingMeansRecording /\ MicrophoneOff

(* A draft holds only what was said in it, in the order it was said, and   *)
(* nothing twice: no words of a cancelled dictation come back in the next. *)
OwnWords ==
    draft # None =>
        \A words \in {draft.words, draft.content} :
            /\ \A i, j \in DOMAIN words : i < j => words[i] < words[j]
            /\ \A i \in DOMAIN words : capture.chunk[words[i]].draft = draft.id

(* What the author reviews is everything that was said: no chunk is still  *)
(* on its way, and none was given up without an interruption.              *)
ReviewIsComplete ==
    draft # None /\ draft.status = "review" =>
        /\ draft.content = draft.words
        /\ \A r \in DOMAIN capture.chunk : LET c == capture.chunk[r] IN
              c.draft = draft.id /\ ~c.cut =>
                  /\ c.state \in {"heard", "silent", "failed"}
                  /\ c.state = "heard" => \E i \in DOMAIN draft.words : draft.words[i] = r

(* Preparing a transcript ends.                                            *)
ProcessingEnds == draft # None /\ draft.status = "processing" ~> draft = None \/ draft.status # "processing"
=============================================================================
