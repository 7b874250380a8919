--------------------------- MODULE RealtimeVoice ----------------------------
(* The optional voice session: the controller that acquires a credential,  *)
(* the microphone and a connection, saves completed exchanges one after    *)
(* the other and speaks what was saved (src/voice/realtime-client.ts,      *)
(* realtime-browser.ts), and the hook that starts and stops it with the    *)
(* page's thread (src/voice/use-voice.ts).                                 *)
(*                                                                         *)
(* A session is cleaned up at any moment; the promises it was waiting for  *)
(* settle later and find it inactive.  Init, Next and the specification    *)
(* bear the module's name, so that NativeProofs can extend it.             *)
EXTENDS RealtimeEvents

CONSTANTS Thread, MaxSessions, MaxMoves,
          MaxTalking, \* bound: the first sessions, whose provider sends events
          Texts,    \* the items a text event may give a response
          Declared  \* the outputs a response.done event may declare

ASSUME RealtimeVoiceAssumption ==
    /\ {MaxSessions, MaxMoves, MaxTalking} \subseteq Nat /\ MaxSessions > 0
    /\ Said \in Seq(Item) /\ UserItem \subseteq Item
    /\ Texts \subseteq Response \X Assistant
    /\ Declared \subseteq Response \X SUBSET Assistant

VARIABLES session,  \* what the controller keeps of each session it started
          active,   \* activeSession, 0 for undefined
          queue,    \* completionQueue: exchanges not yet settled
          saving,   \* the head of the queue was handed to acceptExchange
          speech,   \* the session whose transcript is being spoken, or 0
          hook,     \* useVoice: activeRef, activeThreadIdRef, status, error
          thread,   \* the page's active thread, 0 for none
          moves     \* counter: changes of the page's thread

voiceVars == <<session, active, queue, saving, speech, hook, thread, moves>>

NoSession == [stage |-> "none", cleaned |-> FALSE, microphone |-> FALSE, deadline |-> FALSE,
              open |-> FALSE, thread |-> 0, acc |-> Empty]
StartedSessions == {g \in 1..MaxSessions : session[g].stage # "none"}
IsActive(g) == active = g /\ ~session[g].cleaned

(***************************************************************************)
(* cleanup and fail.  cleanup releases every resource once, cancels        *)
(* speech and tells the hook "idle"; fail also reports.                    *)
(***************************************************************************)
HalfReleased(s) == [s EXCEPT !.cleaned = TRUE, !.deadline = FALSE,         \* mutant
                             !.open = FALSE, !.acc = Empty]
Released(s) == [s EXCEPT !.cleaned = TRUE, !.deadline = FALSE, !.microphone = FALSE,
                         !.open = FALSE, !.acc = Empty]
IdleHook(error) == [active |-> FALSE, thread |-> 0, status |-> "idle", error |-> error]

Cleanup(sessions, g) ==
    /\ session' = [sessions EXCEPT ![g] = Released(@)]
    /\ active' = IF active = g THEN 0 ELSE active
    /\ speech' = 0
Fail(sessions, g) == Cleanup(sessions, g) /\ hook' = IdleHook(TRUE)

Keeps == UNCHANGED <<active, speech, hook>>
Stage(g, stage) == [session EXCEPT ![g].stage = stage]

(***************************************************************************)
(* start, from the hook.                                                   *)
(***************************************************************************)
Start ==
    /\ ~hook.active /\ thread # 0 /\ Cardinality(StartedSessions) < MaxSessions
    /\ LET g == Cardinality(StartedSessions) + 1 IN
       /\ session' = [(IF active = 0 THEN session ELSE [session EXCEPT ![active] = Released(@)])
                        EXCEPT ![g] = [NoSession EXCEPT !.stage = "credential", !.deadline = TRUE,
                                                        !.thread = thread]]
       /\ active' = g
       /\ speech' = IF active = 0 THEN speech ELSE 0
       /\ hook' = [active |-> TRUE, thread |-> thread, status |-> "connecting", error |-> FALSE]
    /\ UNCHANGED <<queue, saving, thread, moves>>

ClearsDeadline(g, ok) ==                                                   \* mutant
    /\ session[g].stage = "credential"
    /\ IF ok /\ IsActive(g)
       THEN session' = [Stage(g, "microphone") EXCEPT ![g].deadline = FALSE] /\ Keeps
       ELSE IF IsActive(g) THEN Fail(Stage(g, "settled"), g)
       ELSE session' = Stage(g, "settled") /\ Keeps
    /\ UNCHANGED <<queue, saving, thread, moves>>
Credential(g, ok) ==
    /\ session[g].stage = "credential"
    /\ IF ok /\ IsActive(g) THEN session' = Stage(g, "microphone") /\ Keeps
       ELSE IF IsActive(g) THEN Fail(Stage(g, "settled"), g)
       ELSE session' = Stage(g, "settled") /\ Keeps
    /\ UNCHANGED <<queue, saving, thread, moves>>

(* A stream that arrives late is stopped at once.                          *)
KeepsLateStream(g, ok) ==                                                  \* mutant
    /\ session[g].stage = "microphone"
    /\ IF ok THEN session' = [Stage(g, "joining") EXCEPT ![g].microphone = TRUE] /\ Keeps
       ELSE IF IsActive(g) THEN Fail(Stage(g, "settled"), g)
       ELSE session' = Stage(g, "settled") /\ Keeps
    /\ UNCHANGED <<queue, saving, thread, moves>>
Microphone(g, ok) ==
    /\ session[g].stage = "microphone"
    /\ IF ok /\ IsActive(g)
       THEN session' = [Stage(g, "joining") EXCEPT ![g].microphone = TRUE] /\ Keeps
       ELSE IF IsActive(g) THEN Fail(Stage(g, "settled"), g)
       ELSE session' = Stage(g, "settled") /\ Keeps
    /\ UNCHANGED <<queue, saving, thread, moves>>

(* connectBrowserSession: offer, SDP and answer.                           *)
Joined(g, ok) ==
    /\ session[g].stage = "joining"
    /\ IF ok \/ ~IsActive(g) THEN session' = Stage(g, "settled") /\ Keeps
       ELSE Fail(Stage(g, "settled"), g)
    /\ UNCHANGED <<queue, saving, thread, moves>>

(* The channel's "open" ends the deadline and seeds the conversation.      *)
Listening(g) == session[g].microphone /\ ~session[g].cleaned
ChannelOpens(g, sends) ==
    /\ Listening(g) /\ ~session[g].open
    /\ LET opened == [session EXCEPT ![g].open = TRUE, ![g].deadline = FALSE] IN
       IF sends
       THEN /\ session' = opened
            /\ hook' = [hook EXCEPT !.status = "listening"]
            /\ UNCHANGED <<active, speech>>
       ELSE Fail(opened, g)
    /\ UNCHANGED <<queue, saving, thread, moves>>

(* The deadline, an error or close of the channel, a failed connection, a  *)
(* malformed message and a Realtime error all end in fail.                 *)
Deadline(g) == /\ session[g].deadline
               /\ Fail(session, g)
               /\ UNCHANGED <<queue, saving, thread, moves>>

Breaks(g) == /\ Listening(g)
             /\ Fail(session, g)
             /\ UNCHANGED <<queue, saving, thread, moves>>

(***************************************************************************)
(* Messages and the queue of completed exchanges.                          *)
(***************************************************************************)
Exchanges(g, pairs) == [k \in DOMAIN pairs |->
    [session |-> g, thread |-> session[g].thread, user |-> pairs[k].user, assistant |-> pairs[k].assistant]]

Accept(g, result) ==
    /\ session[g].open
    /\ IF result.malformed
       THEN Fail(session, g) /\ UNCHANGED queue
       ELSE /\ session' = [session EXCEPT ![g].acc = result.acc]
            /\ queue' = queue \o Exchanges(g, result.pairs)
            /\ Keeps
    /\ UNCHANGED <<saving, thread, moves>>

Message(g) ==
    LET acc == session[g].acc IN
    /\ g <= MaxTalking
    /\ \/ \E i \in UserItem \ acc.heard : Accept(g, UserTranscript(acc, i))
       \/ \E i \in Item \ acc.created : Accept(g, ItemCreated(acc, i))
       \/ \E pair \in Texts : Accept(g, RecordAssistant(acc, pair[1], pair[2]))
       \/ \E pair \in Declared, status \in {"completed", "cancelled"} :
             Accept(g, RecordResponseStatus(acc, pair[1], status, pair[2]))

(* The queued callback begins: an exchange of a thread the page left is    *)
(* refused there and then.                                                 *)
SaveFails(g) == IF IsActive(g) THEN Fail(session, g)
                ELSE /\ hook' = [hook EXCEPT !.error = TRUE]
                     /\ UNCHANGED <<session, active, speech>>

SaveBegins ==
    /\ queue # <<>> /\ ~saving
    /\ IF Head(queue).thread = thread
       THEN saving' = TRUE /\ UNCHANGED <<queue, session, active, speech, hook>>
       ELSE queue' = Tail(queue) /\ SaveFails(Head(queue).session) /\ UNCHANGED saving
    /\ UNCHANGED <<thread, moves>>

(* What was saved is spoken, if its session is still active.               *)
SpeakAnyway(g, speaks) == speech' = g /\ UNCHANGED <<session, active, hook>>  \* mutant
Speak(g, speaks) == IF ~IsActive(g) THEN UNCHANGED <<session, active, speech, hook>>
                    ELSE IF speaks THEN speech' = g /\ UNCHANGED <<session, active, hook>>
                    ELSE Fail(session, g)

SaveEnds(ok, speaks) ==
    /\ saving
    /\ saving' = FALSE
    /\ queue' = Tail(queue)
    /\ IF ok THEN Speak(Head(queue).session, speaks) ELSE SaveFails(Head(queue).session)
    /\ UNCHANGED <<thread, moves>>

(***************************************************************************)
(* The hook.                                                               *)
(***************************************************************************)
StopController(error) ==
    /\ IF hook.active /\ active # 0 THEN Cleanup(session, active)
       ELSE UNCHANGED <<session, active, speech>>
    /\ hook' = IdleHook(error)
    /\ UNCHANGED <<queue, saving, thread, moves>>

Stop == hook.active /\ StopController(FALSE)

(* The page's thread changes in a render; the effect runs after it.        *)
ThreadChanges(t) == /\ t # thread /\ moves < MaxMoves
                    /\ thread' = t /\ moves' = moves + 1
                    /\ UNCHANGED <<session, active, queue, saving, speech, hook>>

Superseded == thread = 0 \/ hook.thread \notin {0, thread}
Effect == /\ Superseded /\ (hook.active \/ hook.error)
          /\ StopController(FALSE)

SpeechEnds == /\ speech # 0 /\ speech' = 0
              /\ UNCHANGED <<session, active, queue, saving, hook, thread, moves>>

(***************************************************************************)
(* The specification.                                                      *)
(***************************************************************************)
VoiceInit ==
    /\ session = [g \in 1..MaxSessions |-> NoSession]
    /\ active = 0 /\ queue = <<>> /\ saving = FALSE /\ speech = 0
    /\ hook = IdleHook(FALSE)
    /\ thread \in Thread /\ moves = 0

VoiceNext ==
    \/ Start \/ Stop \/ Effect \/ SaveBegins \/ SpeechEnds
    \/ \E t \in Thread \cup {0} : ThreadChanges(t)
    \/ \E ok, speaks \in BOOLEAN : SaveEnds(ok, speaks)
    \/ \E g \in StartedSessions :
        \/ Deadline(g) \/ Breaks(g) \/ Message(g)
        \/ \E ok \in BOOLEAN : \/ Credential(g, ok) \/ Microphone(g, ok) \/ Joined(g, ok)
                               \/ ChannelOpens(g, ok)

VoiceSpec == VoiceInit /\ [][VoiceNext]_voiceVars
(* Timers fire, effects run, the queue advances and a save settles; no     *)
(* request, prompt, connection or provider event has to.                   *)
FairVoice ==
    /\ VoiceSpec /\ WF_voiceVars(Effect)
    /\ WF_voiceVars(SaveBegins) /\ WF_voiceVars(\E ok, speaks \in BOOLEAN : SaveEnds(ok, speaks))
    /\ \A g \in 1..MaxSessions : WF_voiceVars(Deadline(g))

(***************************************************************************)
(* Properties.                                                             *)
(***************************************************************************)

(* Once the hook is inactive, whether it was stopped, superseded, failed   *)
(* or timed out, and whatever was still pending then, no microphone is on  *)
(* and nothing is spoken; there is never more than one microphone          *)
(* ("stops a microphone stream that resolves after stop or timeout         *)
(* cleanup").                                                              *)
SilentWhenInactive ==
    /\ \A g \in StartedSessions : session[g].microphone \/ speech = g => IsActive(g) /\ hook.active
    /\ ~hook.active => active = 0

(* Scrambled or repeated events pair every answer with the user item it    *)
(* follows, use an item once, and leave no pair waiting whose parts are    *)
(* all known ("correlates two scrambled exchanges by conversation item     *)
(* links, never lexical or arrival order").                                *)
TrueUser(a) == LET before == {u \in UserItem : Index(u) < Index(a)}
               IN CHOOSE u \in before : \A v \in before : Index(v) <= Index(u)
PairedByLinks ==
    /\ \A k \in DOMAIN queue : queue[k].user = TrueUser(queue[k].assistant)
    /\ \A g \in StartedSessions : \A r \in Response : Answers(session[g].acc, r) = {}
    /\ \A j, k \in DOMAIN queue :
          queue[j].session = queue[k].session /\ queue[j].user = queue[k].user => j = k

(* A session that cannot connect does not stay "connecting", however long  *)
(* the credential, the permission prompt or the connection takes, and the  *)
(* queue of exchanges drains.                                              *)
ConnectingEnds == /\ hook.status = "connecting" ~> hook.status # "connecting"
                  /\ queue # <<>> ~> queue = <<>>
=============================================================================
