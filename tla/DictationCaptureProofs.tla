----------------------- MODULE DictationCaptureProofs -----------------------
(***************************************************************************)
(* Theorems about DictationCapture: what its properties say of a patient   *)
(* speaker holds for every number of drafts, recordings and calls and for  *)
(* every backlog.  The inductive invariant DictationInd relates the        *)
(* controller's chunks, its queue and its stream, the draft, and what a    *)
(* call of start, pause or finish that is under way has already seen.      *)
(*                                                                         *)
(* The controller's private methods are treated as functions from one      *)
(* state of it to the next: first what each changes, then that each keeps  *)
(* the controller's part of the invariant, then the actions of the page.   *)
(***************************************************************************)
EXTENDS DictationCapture, SequenceTheorems, FiniteSetTheorems, TLAPS

Reason == {None, "connection_lost", "storage_failure", "transcription_failure"}
Chunk == [draft : Nat, state : Unfinished \cup {"heard", "silent", "failed", "dropped"}, cut : BOOLEAN]
Job == [chunk : Nat, session : Nat]
Controller ==
    [session : Nat, handling : BOOLEAN, stream : Nat \cup {None}, live : SUBSET Nat, listening : BOOLEAN,
     recorder : Nat \cup {None}, continuing : BOOLEAN, checkpoint : Nat \cup {None}, armed : SUBSET Nat,
     queue : Seq(Job), chunk : Seq(Chunk)]
Draft == [id : Nat \ {0}, status : State, reason : Reason, words : Seq(Nat), content : Seq(Nat)]

(* Only the last chunk is recorded or about to be queued, and what is      *)
(* queued for this session is of this draft.  Whatever else is unfinished, *)
(* an interruption overtook.                                               *)
Running(c, r) == c.chunk[r].state = "recording"
Ending(c, r) == c.chunk[r].state = "stopping"
Closed(c) == \A r \in DOMAIN c.chunk : ~Running(c, r) /\ ~Ending(c, r)
AllCut(c) == \A r \in DOMAIN c.chunk : c.chunk[r].state \in Unfinished => c.chunk[r].cut
Fresh(c, n) == \A r \in DOMAIN c.chunk : Running(c, r) \/ Ending(c, r) => r = Len(c.chunk) /\ c.chunk[r].draft = n

RecorderInv(c, n) ==
    /\ Fresh(c, n)
    /\ \A r \in DOMAIN c.chunk : Running(c, r) => c.recorder = r /\ c.stream # None /\ ~c.continuing
    /\ c.recorder # None => c.recorder \in DOMAIN c.chunk
    /\ \A r \in c.armed : r = c.checkpoint /\ r \in DOMAIN c.chunk /\ Running(c, r)
    /\ c.continuing => c.stream # None /\ \E r \in DOMAIN c.chunk : Ending(c, r)
    /\ c.live \subseteq {c.stream} \ {None}
    /\ c.stream # None => c.handling

QueueInv(c, n) ==
    /\ Len(c.queue) <= Backlog
    /\ \A k \in DOMAIN c.queue :
          /\ c.queue[k].chunk \in DOMAIN c.chunk
          /\ c.chunk[c.queue[k].chunk].state = "queued"
          /\ c.queue[k].session <= c.session
          /\ IF c.queue[k].session = c.session THEN c.chunk[c.queue[k].chunk].draft = n
                                               ELSE c.chunk[c.queue[k].chunk].cut
    /\ \A j, k \in DOMAIN c.queue : j < k => c.queue[j].chunk < c.queue[k].chunk
    /\ \A r \in DOMAIN c.chunk : c.chunk[r].state = "queued" => \E k \in DOMAIN c.queue : c.queue[k].chunk = r
    /\ \A r \in DOMAIN c.chunk : /\ c.chunk[r].draft <= n
                                 /\ c.chunk[r].state = "dropped" => c.chunk[r].cut
    /\ ~c.handling => AllCut(c)

ControllerInv(c, n) == c \in Controller /\ RecorderInv(c, n) /\ QueueInv(c, n)

(* The words of a draft are its chunks that were heard, in order, and the  *)
(* chunks that wait for transcription are later.                           *)
Heard(c, n) == {r \in DOMAIN c.chunk : c.chunk[r].state = "heard" /\ c.chunk[r].draft = n}
WordsInv(words, c, n) ==
    /\ \A i \in DOMAIN words : words[i] \in Heard(c, n)
    /\ \A i, j \in DOMAIN words : i < j => words[i] < words[j]
    /\ \A i \in DOMAIN words, k \in DOMAIN c.queue : words[i] < c.queue[k].chunk
    /\ \A r \in Heard(c, n) : \E i \in DOMAIN words : words[i] = r

DraftInv(d, c, n) ==
    /\ d \in {None} \cup Draft
    /\ d # None => d.id = n /\ d.content = d.words /\ WordsInv(d.words, c, n)
    /\ d = None \/ d.status \notin {"recording", "processing"} => AllCut(c)
    /\ c.session <= MaxSessions + (IF d = None THEN 2 ELSE IF d.status \in {"interrupted", "review"} THEN 1 ELSE 0)

(* What a call under way has found.                                        *)
Kinds == {"start", "pause", "finish"}
ACall == [kind : Kinds, at : {"media", "wake", "stop", "queue", "drain", "clean"}, on : Nat, text : Seq(Nat)]
LastIs(c, on) == c.queue # << >> => c.queue[Len(c.queue)].chunk = on
AtInv(a, d, c) ==
    /\ a.kind = "start" <=> a.at \in {"media", "wake"}
    /\ a.at \in {"drain", "clean"} => a.kind = "finish"
    /\ IF a.at = "stop" THEN a.on \in DOMAIN c.chunk /\ Ending(c, a.on) /\ ~c.continuing ELSE Closed(c)
    /\ a.at \in {"queue", "drain"} => LastIs(c, a.on)
    /\ a.at \in {"media", "drain", "clean"} => c.stream = None
    /\ a.at = "wake" => IF d = None THEN c.stream = None ELSE a.on = c.session /\ c.stream # None
    /\ a.at = "clean" => c.queue = << >> /\ (d # None => a.text = d.words)
KindInv(a, d, c) ==
    /\ a.kind = "start" => /\ a.on \in 1 .. MaxSessions /\ a.on <= c.session
                           /\ d # None => d.status \in {"requesting", "paused", "interrupted"}
                           /\ a.on = c.session => /\ d # None /\ c.handling
                                                  /\ \A k \in DOMAIN c.queue : c.queue[k].session # c.session
    /\ a.kind = "pause" => (d # None => d.status \in {"recording", "interrupted"})
    /\ a.kind = "finish" => (d # None => d.status \in {"processing", "interrupted"})
CallInv(q, d, c) ==
    q = << >> \/ \E a \in ACall : q = <<a>> /\ AtInv(a, d, c) /\ KindInv(a, d, c)

IsPause(q) == q # << >> /\ q[1].kind = "pause"
IsWake(q) == q # << >> /\ q[1].at = "wake"
IsStart(q) == q # << >> /\ q[1].kind = "start"
MicInv(d, c, q) ==
    /\ d # None /\ d.status = "recording" /\ ~IsPause(q) => Recording(c) \/ c.continuing
    /\ c.stream # None => d # None /\ (d.status \in {"recording", "processing"} \/ IsWake(q))
RoomInv(c, q) == Len(c.chunk) + (IF IsStart(q) THEN 1 ELSE 0) + (IF c.continuing THEN 1 ELSE 0) <= MaxChunks

DictationInd ==
    /\ drafted \in 0 .. MaxDrafts
    /\ ControllerInv(capture, drafted) /\ DraftInv(draft, capture, drafted)
    /\ CallInv(calls, draft, capture) /\ MicInv(draft, capture, calls) /\ RoomInv(capture, calls)

-----------------------------------------------------------------------------
(* None is a value without structure, as undefined is: no number and no    *)
(* draft.                                                                  *)
NoneIsNothing == None \notin Nat /\ None # [x \in DOMAIN None |-> None[x]]

LEMMA DraftIsSome == ASSUME NoneIsNothing PROVE \A d \in Draft : d # None
BY DEF NoneIsNothing, Draft

(* What the private methods do to a controller, field by field.            *)
LEMMA ChunksAre ==
    ASSUME NEW c \in Controller
    PROVE  /\ Len(c.chunk) \in Nat /\ DOMAIN c.chunk = 1 .. Len(c.chunk)
           /\ \A r \in DOMAIN c.chunk : c.chunk[r] \in Chunk
<1>1. c.chunk \in Seq(Chunk)
  BY DEF Controller
<1> QED
  BY <1>1, LenProperties, ElementOfSeq

(* A chunk changes its state.                                              *)
Becomes(c, e, r, state) ==
    /\ e \in Controller
    /\ e.session = c.session /\ e.handling = c.handling /\ e.stream = c.stream /\ e.live = c.live
    /\ e.listening = c.listening /\ e.recorder = c.recorder /\ e.continuing = c.continuing
    /\ e.checkpoint = c.checkpoint /\ e.armed = c.armed /\ e.queue = c.queue
    /\ Len(e.chunk) = Len(c.chunk) /\ DOMAIN e.chunk = DOMAIN c.chunk
    /\ e.chunk[r].state = state
    /\ \A s \in DOMAIN c.chunk : /\ s # r => e.chunk[s] = c.chunk[s]
                                 /\ e.chunk[s].draft = c.chunk[s].draft
                                 /\ e.chunk[s].cut = c.chunk[s].cut

LEMMA ChunkBecomes ==
    ASSUME NEW c \in Controller, NEW r \in DOMAIN c.chunk, NEW state,
           state \in Unfinished \cup {"heard", "silent", "failed", "dropped"}
    PROVE  Becomes(c, [c EXCEPT !.chunk[r].state = state], r, state)
<1>0. PICK e : e = [c EXCEPT !.chunk[r].state = state]
  OBVIOUS
<1> DEFINE k == [c.chunk[r] EXCEPT !.state = state]
           all == [c.chunk EXCEPT ![r] = k]
<1>1. c.chunk \in Seq(Chunk) /\ r \in 1 .. Len(c.chunk) /\ c.chunk[r] \in Chunk
  BY ChunksAre DEF Controller
<1>2. k \in Chunk /\ k.state = state /\ k.draft = c.chunk[r].draft /\ k.cut = c.chunk[r].cut
  BY <1>1 DEF Chunk
<1>3. e = [c EXCEPT !.chunk = all]
  BY <1>0
<1> HIDE DEF k
<1>4. /\ all \in Seq(Chunk) /\ Len(all) = Len(c.chunk)
      /\ \A s \in 1 .. Len(c.chunk) : all[s] = IF s = r THEN k ELSE c.chunk[s]
  BY <1>1, <1>2, ExceptSeq
<1> HIDE DEF all
<1>5. /\ e \in Controller /\ e.chunk = all
      /\ e.session = c.session /\ e.handling = c.handling /\ e.stream = c.stream /\ e.live = c.live
      /\ e.listening = c.listening /\ e.recorder = c.recorder /\ e.continuing = c.continuing
      /\ e.checkpoint = c.checkpoint /\ e.armed = c.armed /\ e.queue = c.queue
  BY <1>3, <1>4 DEF Controller
<1>6. DOMAIN e.chunk = 1 .. Len(c.chunk) /\ DOMAIN c.chunk = 1 .. Len(c.chunk)
  BY <1>1, <1>4, <1>5, LenProperties
<1> QED
  BY <1>0, <1>1, <1>2, <1>4, <1>5, <1>6 DEF Becomes

Recorders(c) == c.recorder # None => c.recorder \in DOMAIN c.chunk

LEMMA StopRecorderIs ==
    ASSUME NoneIsNothing, NEW c \in Controller, Recorders(c), NEW b \in BOOLEAN, NEW e, e = StopRecorder(c, b)
    PROVE  /\ e \in Controller
           /\ e.session = c.session /\ e.handling = c.handling /\ e.stream = c.stream /\ e.live = c.live
           /\ e.listening = c.listening /\ e.recorder = c.recorder /\ e.continuing = b
           /\ e.checkpoint = None /\ e.armed = c.armed \ {c.checkpoint} /\ e.queue = c.queue
           /\ Len(e.chunk) = Len(c.chunk) /\ DOMAIN e.chunk = DOMAIN c.chunk
           /\ \A r \in DOMAIN c.chunk :
                 /\ e.chunk[r].draft = c.chunk[r].draft /\ e.chunk[r].cut = c.chunk[r].cut
                 /\ e.chunk[r].state = IF r = c.recorder /\ Running(c, r) THEN "stopping" ELSE c.chunk[r].state
<1> DEFINE d == [ClearCheckpoint(c) EXCEPT !.continuing = b]
<1>1. /\ d \in Controller /\ d.chunk = c.chunk
      /\ d.session = c.session /\ d.handling = c.handling /\ d.stream = c.stream /\ d.live = c.live
      /\ d.listening = c.listening /\ d.recorder = c.recorder /\ d.continuing = b
      /\ d.checkpoint = None /\ d.armed = c.armed \ {c.checkpoint} /\ d.queue = c.queue
  BY DEF Controller, ClearCheckpoint
<1>2. e = IF Recording(c) THEN [d EXCEPT !.chunk[c.recorder].state = "stopping"] ELSE d
  BY DEF StopRecorder
<1> HIDE DEF d
<1>3. CASE Recording(c)
  <2>1. c.recorder \in DOMAIN d.chunk /\ "stopping" \in Unfinished \cup {"heard", "silent", "failed", "dropped"}
    BY <1>1, <1>3 DEF Recorders, Recording, Unfinished
  <2>2. e = [d EXCEPT !.chunk[c.recorder].state = "stopping"]
    BY <1>2, <1>3
  <2>3. Running(c, c.recorder)
    BY <1>3 DEF Running, Recording
  <2> QED
    BY <1>1, <2>1, <2>2, <2>3, ChunkBecomes DEF Becomes
<1>4. CASE ~Recording(c)
  <2>1. e = d
    BY <1>2, <1>4
  <2>2. \A r \in DOMAIN c.chunk : ~(r = c.recorder /\ Running(c, r))
    <3>1. \A r \in DOMAIN c.chunk : r # None
      BY ChunksAre DEF NoneIsNothing
    <3> QED
      BY <1>4, <3>1 DEF Recording, Running
  <2> QED
    BY <1>1, <2>1, <2>2
<1> QED
  BY <1>3, <1>4

LEMMA StopStreamIs ==
    ASSUME NoneIsNothing, NEW c \in Controller, Recorders(c), NEW e, e = StopStream(c)
    PROVE  /\ e \in Controller
           /\ e.session = c.session /\ e.handling = c.handling /\ e.stream = None /\ e.live = c.live \ {c.stream}
           /\ e.listening = c.listening /\ e.recorder = c.recorder /\ e.continuing = c.continuing
           /\ e.checkpoint = c.checkpoint /\ e.armed = c.armed /\ e.queue = c.queue
           /\ Len(e.chunk) = Len(c.chunk) /\ DOMAIN e.chunk = DOMAIN c.chunk
           /\ \A r \in DOMAIN c.chunk :
                 /\ e.chunk[r].draft = c.chunk[r].draft /\ e.chunk[r].cut = c.chunk[r].cut
                 /\ e.chunk[r].state = IF r = c.recorder /\ Running(c, r) /\ c.stream # None
                                       THEN "stopping" ELSE c.chunk[r].state
<1> DEFINE d == [c EXCEPT !.live = @ \ {c.stream}, !.stream = None]
<1>1. /\ d \in Controller /\ d.chunk = c.chunk
      /\ d.session = c.session /\ d.handling = c.handling /\ d.stream = None /\ d.live = c.live \ {c.stream}
      /\ d.listening = c.listening /\ d.recorder = c.recorder /\ d.continuing = c.continuing
      /\ d.checkpoint = c.checkpoint /\ d.armed = c.armed /\ d.queue = c.queue
  BY DEF Controller
<1>2. e = IF Recording(c) /\ c.stream # None THEN [d EXCEPT !.chunk[c.recorder].state = "stopping"] ELSE d
  BY DEF StopStream
<1> HIDE DEF d
<1>3. CASE Recording(c) /\ c.stream # None
  <2>1. c.recorder \in DOMAIN d.chunk /\ "stopping" \in Unfinished \cup {"heard", "silent", "failed", "dropped"}
    BY <1>1, <1>3 DEF Recorders, Recording, Unfinished
  <2>2. e = [d EXCEPT !.chunk[c.recorder].state = "stopping"]
    BY <1>2, <1>3
  <2>3. Running(c, c.recorder)
    BY <1>3 DEF Running, Recording
  <2> QED
    BY <1>1, <1>3, <2>1, <2>2, <2>3, ChunkBecomes DEF Becomes
<1>4. CASE ~(Recording(c) /\ c.stream # None)
  <2>1. e = d
    BY <1>2, <1>4
  <2>2. \A r \in DOMAIN c.chunk : ~(r = c.recorder /\ Running(c, r) /\ c.stream # None)
    <3>1. \A r \in DOMAIN c.chunk : r # None
      BY ChunksAre DEF NoneIsNothing
    <3> QED
      BY <1>4, <3>1 DEF Recording, Running
  <2> QED
    BY <1>1, <2>1, <2>2
<1> QED
  BY <1>3, <1>4

LEMMA CutIs ==
    ASSUME NEW c \in Controller, NEW e, e = Cut(c)
    PROVE  /\ e \in Controller
           /\ e.session = c.session /\ e.handling = c.handling /\ e.stream = c.stream /\ e.live = c.live
           /\ e.listening = c.listening /\ e.recorder = c.recorder /\ e.continuing = c.continuing
           /\ e.checkpoint = c.checkpoint /\ e.armed = c.armed /\ e.queue = c.queue
           /\ Len(e.chunk) = Len(c.chunk) /\ DOMAIN e.chunk = DOMAIN c.chunk
           /\ \A r \in DOMAIN c.chunk :
                 /\ e.chunk[r].draft = c.chunk[r].draft /\ e.chunk[r].state = c.chunk[r].state
                 /\ e.chunk[r].cut <=> (c.chunk[r].cut \/ c.chunk[r].state \in Unfinished)
<1> DEFINE n == Len(c.chunk)
           k(r) == [c.chunk[r] EXCEPT !.cut = c.chunk[r].cut \/ c.chunk[r].state \in Unfinished]
           all == [r \in DOMAIN c.chunk |-> k(r)]
<1>1. n \in Nat /\ DOMAIN c.chunk = 1 .. n /\ \A r \in 1 .. n : c.chunk[r] \in Chunk
  BY ChunksAre
<1>2. \A r \in 1 .. n : /\ k(r) \in Chunk /\ k(r).draft = c.chunk[r].draft /\ k(r).state = c.chunk[r].state
                        /\ k(r).cut <=> (c.chunk[r].cut \/ c.chunk[r].state \in Unfinished)
  BY <1>1 DEF Chunk
<1>3. e = [c EXCEPT !.chunk = all]
  BY DEF Cut
<1> HIDE DEF n, k
<1>4. all \in [1 .. n -> Chunk] /\ \A r \in 1 .. n : all[r] = k(r)
  BY <1>1, <1>2
<1> HIDE DEF all
<1>5. all \in Seq(Chunk)
  BY <1>1, <1>4, SeqDef
<1>6. Len(all) = n /\ DOMAIN all = 1 .. n
  BY <1>1, <1>4, <1>5, LenProperties
<1>7. /\ e \in Controller /\ e.chunk = all
      /\ e.session = c.session /\ e.handling = c.handling /\ e.stream = c.stream /\ e.live = c.live
      /\ e.listening = c.listening /\ e.recorder = c.recorder /\ e.continuing = c.continuing
      /\ e.checkpoint = c.checkpoint /\ e.armed = c.armed /\ e.queue = c.queue
  BY <1>3, <1>5 DEF Controller
<1> QED
  BY <1>1, <1>2, <1>4, <1>6, <1>7 DEF n

(* What an interruption and a cancellation share.                          *)
Halted(c) == StopRecorder(StopStream(Cut(c)), FALSE)

HaltedTo(c, e) ==
    /\ e \in Controller
    /\ e.session = c.session /\ e.handling = c.handling /\ e.stream = None /\ e.live = c.live \ {c.stream}
    /\ e.listening = c.listening /\ e.recorder = c.recorder /\ ~e.continuing
    /\ e.checkpoint = None /\ e.armed = c.armed \ {c.checkpoint} /\ e.queue = c.queue
    /\ Len(e.chunk) = Len(c.chunk) /\ DOMAIN e.chunk = DOMAIN c.chunk
    /\ \A r \in DOMAIN c.chunk :
          /\ e.chunk[r].draft = c.chunk[r].draft
          /\ e.chunk[r].cut <=> (c.chunk[r].cut \/ c.chunk[r].state \in Unfinished)
          /\ e.chunk[r].state = IF r = c.recorder /\ Running(c, r) THEN "stopping" ELSE c.chunk[r].state

LEMMA HaltedIs == ASSUME NoneIsNothing, NEW c \in Controller, Recorders(c) PROVE HaltedTo(c, Halted(c))
<1>0. PICK e : e = Halted(c)
  OBVIOUS
<1>1. PICK d : d = Cut(c)
  OBVIOUS
<1>2. PICK f : f = StopStream(d)
  OBVIOUS
<1>3. PICK b \in BOOLEAN : b = FALSE /\ e = StopRecorder(f, b)
  BY <1>0, <1>1, <1>2 DEF Halted
<1>4. /\ d \in Controller /\ Recorders(d)
      /\ d.session = c.session /\ d.handling = c.handling /\ d.stream = c.stream /\ d.live = c.live
      /\ d.listening = c.listening /\ d.recorder = c.recorder /\ d.continuing = c.continuing
      /\ d.checkpoint = c.checkpoint /\ d.armed = c.armed /\ d.queue = c.queue
      /\ Len(d.chunk) = Len(c.chunk) /\ DOMAIN d.chunk = DOMAIN c.chunk
      /\ \A r \in DOMAIN c.chunk :
            /\ d.chunk[r].draft = c.chunk[r].draft /\ d.chunk[r].state = c.chunk[r].state
            /\ d.chunk[r].cut <=> (c.chunk[r].cut \/ c.chunk[r].state \in Unfinished)
  BY <1>1, CutIs DEF Recorders
<1>5. /\ f \in Controller /\ Recorders(f)
      /\ f.session = c.session /\ f.handling = c.handling /\ f.stream = None /\ f.live = c.live \ {c.stream}
      /\ f.listening = c.listening /\ f.recorder = c.recorder
      /\ f.checkpoint = c.checkpoint /\ f.armed = c.armed /\ f.queue = c.queue
      /\ Len(f.chunk) = Len(c.chunk) /\ DOMAIN f.chunk = DOMAIN c.chunk
      /\ \A r \in DOMAIN c.chunk :
            /\ f.chunk[r].draft = c.chunk[r].draft
            /\ f.chunk[r].cut <=> (c.chunk[r].cut \/ c.chunk[r].state \in Unfinished)
            /\ f.chunk[r].state = IF r = c.recorder /\ Running(c, r) /\ c.stream # None
                                  THEN "stopping" ELSE c.chunk[r].state
  BY <1>2, <1>4, StopStreamIs DEF Recorders, Running
<1>6. /\ e \in Controller
      /\ e.session = f.session /\ e.handling = f.handling /\ e.stream = f.stream /\ e.live = f.live
      /\ e.listening = f.listening /\ e.recorder = f.recorder /\ e.continuing = b
      /\ e.checkpoint = None /\ e.armed = f.armed \ {f.checkpoint} /\ e.queue = f.queue
      /\ Len(e.chunk) = Len(f.chunk) /\ DOMAIN e.chunk = DOMAIN f.chunk
      /\ \A r \in DOMAIN f.chunk :
            /\ e.chunk[r].draft = f.chunk[r].draft /\ e.chunk[r].cut = f.chunk[r].cut
            /\ e.chunk[r].state = IF r = f.recorder /\ Running(f, r) THEN "stopping" ELSE f.chunk[r].state
  BY <1>3, <1>5, StopRecorderIs
<1> QED
  BY <1>0, <1>3, <1>5, <1>6 DEF Running, HaltedTo

-----------------------------------------------------------------------------
(* The private methods keep the controller's invariant.                    *)
Kept(c, e, n) == Heard(e, n) = Heard(c, n) /\ e.queue = c.queue /\ Len(e.chunk) = Len(c.chunk)

LEMMA ControllerIs ==
    ASSUME NEW c, NEW n, ControllerInv(c, n)
    PROVE  c \in Controller /\ Recorders(c) /\ RecorderInv(c, n) /\ QueueInv(c, n)
BY DEF ControllerInv, RecorderInv, Recorders

LEMMA HaltedInv ==
    ASSUME NoneIsNothing, NEW c, NEW n \in Nat, ControllerInv(c, n),
           NEW e \in Controller, NEW h, h = Halted(c),
           e.queue = h.queue, e.stream = None, e.live = h.live, ~e.continuing, e.armed = h.armed,
           e.chunk = h.chunk, e.recorder \in {None, h.recorder},
           (e.session = c.session /\ e.handling = c.handling) \/ e.session = c.session + 1
    PROVE  /\ ControllerInv(e, n) /\ AllCut(e) /\ Kept(c, e, n)
           /\ Closed(c) => Closed(e)
           /\ \A r \in DOMAIN c.chunk : Running(c, r) \/ Ending(c, r) <=> Ending(e, r)
<1>1. c \in Controller /\ Recorders(c) /\ RecorderInv(c, n) /\ QueueInv(c, n)
  BY ControllerIs
<1>a. HaltedTo(c, h)
  BY <1>1, HaltedIs
<1>2. /\ h.live = c.live \ {c.stream} /\ h.recorder = c.recorder
      /\ h.armed = c.armed \ {c.checkpoint} /\ h.queue = c.queue
      /\ Len(h.chunk) = Len(c.chunk) /\ DOMAIN h.chunk = DOMAIN c.chunk
      /\ \A r \in DOMAIN c.chunk :
            /\ h.chunk[r].draft = c.chunk[r].draft
            /\ h.chunk[r].cut <=> (c.chunk[r].cut \/ c.chunk[r].state \in Unfinished)
            /\ h.chunk[r].state = IF r = c.recorder /\ Running(c, r) THEN "stopping" ELSE c.chunk[r].state
  BY <1>a DEF HaltedTo
<1>3. /\ DOMAIN e.chunk = DOMAIN c.chunk /\ Len(e.chunk) = Len(c.chunk)
      /\ e.queue = c.queue /\ e.live = {} /\ e.armed = {}
      /\ \A r \in DOMAIN c.chunk :
            /\ e.chunk[r].draft = c.chunk[r].draft
            /\ e.chunk[r].cut <=> (c.chunk[r].cut \/ c.chunk[r].state \in Unfinished)
            /\ e.chunk[r].state = IF Running(c, r) THEN "stopping" ELSE c.chunk[r].state
  BY <1>1, <1>2 DEF RecorderInv
<1>4. \A r \in DOMAIN c.chunk : /\ ~Running(e, r)
                                /\ Running(c, r) \/ Ending(c, r) <=> Ending(e, r)
  BY <1>3 DEF Running, Ending
<1>5. RecorderInv(e, n)
  <2>1. Fresh(e, n)
    BY <1>1, <1>3, <1>4 DEF RecorderInv, Fresh
  <2>2. e.recorder # None => e.recorder \in DOMAIN e.chunk
    BY <1>1, <1>2, <1>3 DEF Recorders
  <2> QED
    BY <1>3, <1>4, <2>1, <2>2 DEF RecorderInv
<1>6. AllCut(e)
  BY <1>3 DEF AllCut, Unfinished, Running
<1>7. QueueInv(e, n)
  <2>1. ASSUME NEW k \in DOMAIN e.queue
        PROVE  /\ e.queue[k].chunk \in DOMAIN e.chunk
               /\ e.chunk[e.queue[k].chunk].state = "queued"
               /\ e.queue[k].session <= e.session
               /\ IF e.queue[k].session = e.session THEN e.chunk[e.queue[k].chunk].draft = n
                                                    ELSE e.chunk[e.queue[k].chunk].cut
    <3> DEFINE j == c.queue[k]
    <3>1. j \in Job /\ j.chunk \in DOMAIN c.chunk /\ c.chunk[j.chunk].state = "queued" /\ j.session <= c.session
          /\ IF j.session = c.session THEN c.chunk[j.chunk].draft = n ELSE c.chunk[j.chunk].cut
      <4>1. c.queue \in Seq(Job)
        BY <1>1 DEF Controller
      <4> QED
        BY <1>1, <1>3, <4>1, ElementOfSeq, LenProperties DEF QueueInv
    <3>2. j.session \in Nat /\ c.session \in Nat /\ e.session \in {c.session, c.session + 1}
      BY <1>1, <3>1 DEF Job, Controller
    <3>3. e.chunk[j.chunk].state = "queued" /\ e.chunk[j.chunk].cut /\ e.chunk[j.chunk].draft = c.chunk[j.chunk].draft
      BY <1>3, <3>1 DEF Running, Unfinished
    <3> HIDE DEF j
    <3>4. j.session <= e.session /\ (j.session = e.session => e.session = c.session)
      BY <3>1, <3>2
    <3> QED
      BY <1>3, <3>1, <3>3, <3>4 DEF j
  <2>2. \A r \in DOMAIN e.chunk : e.chunk[r].state = "queued" => \E k \in DOMAIN e.queue : e.queue[k].chunk = r
    BY <1>1, <1>3 DEF QueueInv
  <2>3. \A r \in DOMAIN e.chunk : /\ e.chunk[r].draft <= n
                                  /\ e.chunk[r].state = "dropped" => e.chunk[r].cut
    BY <1>1, <1>3 DEF QueueInv
  <2>4. /\ Len(e.queue) <= Backlog
        /\ \A j, k \in DOMAIN e.queue : j < k => e.queue[j].chunk < e.queue[k].chunk
    BY <1>1, <1>3 DEF QueueInv
  <2> HIDE DEF Halted
  <2> QED
    BY <1>6, <2>1, <2>2, <2>3, <2>4 DEF QueueInv
<1>8. Heard(e, n) = Heard(c, n)
  BY <1>3 DEF Heard, Running
<1>9. Closed(c) => Closed(e)
  BY <1>3, <1>4 DEF Closed
<1> QED
  BY <1>3, <1>4, <1>5, <1>6, <1>7, <1>8, <1>9 DEF ControllerInv, Kept

LEMMA InterruptInv ==
    ASSUME NoneIsNothing, NEW c, NEW n \in Nat, ControllerInv(c, n), NEW e, e = Interrupt(c)
    PROVE  /\ ControllerInv(e, n) /\ AllCut(e) /\ Kept(c, e, n)
           /\ Closed(c) => Closed(e)
           /\ \A r \in DOMAIN c.chunk : Ending(c, r) => Ending(e, r)
           /\ e.session = c.session /\ e.handling = c.handling /\ e.stream = None /\ ~e.continuing
<1> DEFINE h == Halted(c)
<1>1. c \in Controller /\ Recorders(c) /\ RecorderInv(c, n) /\ QueueInv(c, n)
  BY ControllerIs
<1>2. CASE c.handling
  <2>1. e = [h EXCEPT !.listening = FALSE]
    BY <1>2 DEF Interrupt, Halted
  <2>2. h \in Controller /\ h.stream = None /\ ~h.continuing /\ h.session = c.session /\ h.handling = c.handling
    BY <1>1, HaltedIs DEF HaltedTo
  <2> HIDE DEF h
  <2>3. /\ e \in Controller /\ e.stream = None /\ ~e.continuing
        /\ e.session = c.session /\ e.handling = c.handling
        /\ e.queue = h.queue /\ e.live = h.live /\ e.armed = h.armed
        /\ e.chunk = h.chunk /\ e.recorder = h.recorder
    BY <2>1, <2>2 DEF Controller
  <2> QED
    BY <2>3, HaltedInv DEF h
<1>3. CASE ~c.handling
  <2>1. e = c
    BY <1>3 DEF Interrupt
  <2>2. c.stream = None /\ ~c.continuing /\ AllCut(c)
    BY <1>1, <1>3 DEF RecorderInv, QueueInv, Controller
  <2> QED
    BY <2>1, <2>2 DEF Kept
<1> QED
  BY <1>2, <1>3

LEMMA CancelledInv ==
    ASSUME NoneIsNothing, NEW c, NEW n \in Nat, ControllerInv(c, n), NEW e, e = Cancelled(c)
    PROVE  /\ ControllerInv(e, n) /\ AllCut(e) /\ Kept(c, e, n)
           /\ Closed(c) => Closed(e)
           /\ \A r \in DOMAIN c.chunk : Ending(c, r) => Ending(e, r)
           /\ e.session = c.session + 1 /\ ~e.handling /\ e.stream = None /\ ~e.continuing
<1> DEFINE h == Halted(c)
           s == h.session + 1
<1>1. c \in Controller /\ Recorders(c) /\ RecorderInv(c, n) /\ QueueInv(c, n)
  BY ControllerIs
<1>2. e = [h EXCEPT !.session = s, !.handling = FALSE, !.recorder = None, !.listening = FALSE]
  BY DEF Cancelled, Halted
<1>3. h \in Controller /\ h.stream = None /\ ~h.continuing /\ h.session = c.session /\ s \in Nat /\ s = c.session + 1
  <2>1. HaltedTo(c, h)
    BY <1>1, HaltedIs
  <2> HIDE DEF h
  <2>2. h.session \in Nat
    BY <2>1 DEF HaltedTo, Controller
  <2> QED
    BY <2>1, <2>2 DEF HaltedTo
<1> HIDE DEF h, s
<1>4. /\ e \in Controller /\ e.stream = None /\ ~e.continuing
      /\ e.session = c.session + 1 /\ ~e.handling
      /\ e.queue = h.queue /\ e.live = h.live /\ e.armed = h.armed
      /\ e.chunk = h.chunk /\ e.recorder = None
  BY <1>2, <1>3 DEF Controller
<1> QED
  BY <1>4, HaltedInv DEF h

(* A recorder is stopped, perhaps to continue with the next one.           *)
LessArmedAs(c, e, n) ==
    /\ ControllerInv(e, n) /\ e.chunk = c.chunk /\ e.queue = c.queue /\ e.session = c.session
    /\ e.handling = c.handling /\ e.stream = c.stream /\ e.continuing = c.continuing
    /\ e.recorder = c.recorder

LEMMA LessArmed ==
    ASSUME NEW c, NEW n, ControllerInv(c, n), NEW armed, armed \subseteq c.armed,
           NEW e, e = [c EXCEPT !.armed = armed]
    PROVE  LessArmedAs(c, e, n)
<1>1. /\ e \in Controller /\ e.chunk = c.chunk /\ e.queue = c.queue /\ e.session = c.session
      /\ e.handling = c.handling /\ e.stream = c.stream /\ e.continuing = c.continuing
      /\ e.recorder = c.recorder /\ e.live = c.live /\ e.checkpoint = c.checkpoint /\ e.armed = armed
  BY DEF ControllerInv, Controller
<1>2. RecorderInv(e, n)
  BY <1>1 DEF ControllerInv, RecorderInv, Fresh, Running, Ending
<1>3. QueueInv(e, n)
  BY <1>1 DEF ControllerInv, QueueInv, AllCut
<1> QED
  BY <1>1, <1>2, <1>3 DEF ControllerInv, LessArmedAs

RecorderStops(c, e, n, b) ==
    /\ ControllerInv(e, n) /\ Kept(c, e, n) /\ (AllCut(c) => AllCut(e))
    /\ Recording(c) => c.recorder \in DOMAIN e.chunk /\ Ending(e, c.recorder)
    /\ ~Recording(c) /\ Closed(c) => Closed(e)
    /\ e.session = c.session /\ e.handling = c.handling /\ e.stream = c.stream /\ e.continuing = b

LEMMA StopRecorderInv ==
    ASSUME NoneIsNothing, NEW c, NEW n \in Nat, ControllerInv(c, n), NEW b \in BOOLEAN, b => Recording(c),
           NEW e, e = StopRecorder(c, b)
    PROVE  RecorderStops(c, e, n, b)
<1>1. c \in Controller /\ Recorders(c) /\ RecorderInv(c, n) /\ QueueInv(c, n)
  BY ControllerIs
<1>2. /\ e \in Controller
      /\ e.session = c.session /\ e.handling = c.handling /\ e.stream = c.stream /\ e.live = c.live
      /\ e.recorder = c.recorder /\ e.continuing = b
      /\ e.armed = c.armed \ {c.checkpoint} /\ e.queue = c.queue
      /\ Len(e.chunk) = Len(c.chunk) /\ DOMAIN e.chunk = DOMAIN c.chunk
      /\ \A r \in DOMAIN c.chunk :
            /\ e.chunk[r].draft = c.chunk[r].draft /\ e.chunk[r].cut = c.chunk[r].cut
            /\ e.chunk[r].state = IF r = c.recorder /\ Running(c, r) THEN "stopping" ELSE c.chunk[r].state
  BY <1>1, StopRecorderIs
<1>3. e.armed = {} /\ \A r \in DOMAIN c.chunk :
         e.chunk[r].state = IF Running(c, r) THEN "stopping" ELSE c.chunk[r].state
  BY <1>1, <1>2 DEF RecorderInv
<1>4. \A r \in DOMAIN c.chunk : /\ ~Running(e, r)
                                /\ Running(c, r) \/ Ending(c, r) <=> Ending(e, r)
  BY <1>3 DEF Running, Ending
<1>5. Recording(c) => c.recorder \in DOMAIN e.chunk /\ Ending(e, c.recorder) /\ c.stream # None
  BY <1>1, <1>2, <1>4 DEF Recording, Recorders, Running, RecorderInv
<1>6. RecorderInv(e, n)
  <2>1. Fresh(e, n)
    BY <1>1, <1>2, <1>4 DEF RecorderInv, Fresh
  <2>2. e.recorder # None => e.recorder \in DOMAIN e.chunk
    BY <1>1, <1>2 DEF Recorders
  <2>3. e.continuing => e.stream # None /\ \E r \in DOMAIN e.chunk : Ending(e, r)
    BY <1>2, <1>5
  <2>4. e.live \subseteq {e.stream} \ {None} /\ (e.stream # None => e.handling)
    BY <1>1, <1>2 DEF RecorderInv
  <2> QED
    BY <1>2, <1>3, <1>4, <2>1, <2>2, <2>3, <2>4 DEF RecorderInv
<1>7. AllCut(c) => AllCut(e)
  BY <1>2, <1>3 DEF AllCut, Unfinished, Running
<1>8. QueueInv(e, n)
  <2>1. ASSUME NEW k \in DOMAIN e.queue
        PROVE  /\ e.queue[k].chunk \in DOMAIN e.chunk
               /\ e.chunk[e.queue[k].chunk].state = "queued"
               /\ e.queue[k].session <= e.session
               /\ IF e.queue[k].session = e.session THEN e.chunk[e.queue[k].chunk].draft = n
                                                    ELSE e.chunk[e.queue[k].chunk].cut
    <3>1. /\ c.queue[k].chunk \in DOMAIN c.chunk /\ c.chunk[c.queue[k].chunk].state = "queued"
          /\ c.queue[k].session <= c.session
          /\ IF c.queue[k].session = c.session THEN c.chunk[c.queue[k].chunk].draft = n
                                               ELSE c.chunk[c.queue[k].chunk].cut
      BY <1>1, <1>2 DEF QueueInv
    <3>2. e.chunk[c.queue[k].chunk].state = "queued"
      BY <1>3, <3>1 DEF Running
    <3> QED
      BY <1>2, <3>1, <3>2
  <2>2. \A r \in DOMAIN e.chunk : e.chunk[r].state = "queued" => \E k \in DOMAIN e.queue : e.queue[k].chunk = r
    BY <1>1, <1>2, <1>3 DEF QueueInv
  <2>3. \A r \in DOMAIN e.chunk : /\ e.chunk[r].draft <= n
                                  /\ e.chunk[r].state = "dropped" => e.chunk[r].cut
    BY <1>1, <1>2, <1>3 DEF QueueInv
  <2>4. /\ Len(e.queue) <= Backlog
        /\ \A j, k \in DOMAIN e.queue : j < k => e.queue[j].chunk < e.queue[k].chunk
        /\ ~e.handling => AllCut(e)
    BY <1>1, <1>2, <1>7 DEF QueueInv
  <2> QED
    BY <2>1, <2>2, <2>3, <2>4 DEF QueueInv
<1>9. Heard(e, n) = Heard(c, n)
  BY <1>2, <1>3 DEF Heard, Running
<1>10. ~Recording(c) /\ Closed(c) => Closed(e)
  BY <1>2, <1>4 DEF Closed
<1> QED
  BY <1>2, <1>5, <1>6, <1>7, <1>8, <1>9, <1>10 DEF ControllerInv, Kept, RecorderStops

(* The stream is closed when nothing is recorded.                          *)
StreamStops(c, e, n) ==
    /\ ControllerInv(e, n) /\ Closed(e) /\ e.chunk = c.chunk /\ e.queue = c.queue
    /\ e.session = c.session /\ e.handling = c.handling /\ e.stream = None /\ ~e.continuing

LEMMA StopStreamInv ==
    ASSUME NoneIsNothing, NEW c, NEW n, ControllerInv(c, n), Closed(c), NEW listening \in BOOLEAN,
           NEW e, e = [StopStream(c) EXCEPT !.listening = listening] \/ e = StopStream(c)
    PROVE  StreamStops(c, e, n)
<1>1. c \in Controller /\ Recorders(c) /\ RecorderInv(c, n) /\ QueueInv(c, n)
  BY ControllerIs
<1>2. ~Recording(c) /\ ~c.continuing
  BY <1>1 DEF Closed, Recording, Running, Recorders, RecorderInv
<1>3. StopStream(c) = [c EXCEPT !.live = @ \ {c.stream}, !.stream = None]
  BY <1>2 DEF StopStream
<1> DEFINE d == StopStream(c)
<1>a. /\ d \in Controller /\ d.chunk = c.chunk /\ d.queue = c.queue
      /\ d.session = c.session /\ d.handling = c.handling /\ d.stream = None /\ d.continuing = c.continuing
      /\ d.recorder = c.recorder /\ d.armed = c.armed /\ d.live = c.live \ {c.stream}
      /\ d.checkpoint = c.checkpoint
  BY <1>1, <1>3 DEF Controller
<1>b. e = d \/ e = [d EXCEPT !.listening = listening]
  OBVIOUS
<1> HIDE DEF d
<1>4. /\ e \in Controller /\ e.chunk = c.chunk /\ e.queue = c.queue
      /\ e.session = c.session /\ e.handling = c.handling /\ e.stream = None /\ e.continuing = c.continuing
      /\ e.recorder = c.recorder /\ e.armed = c.armed /\ e.live = c.live \ {c.stream}
      /\ e.checkpoint = c.checkpoint
  <2>1. CASE e = d
    BY <1>a, <2>1
  <2>2. CASE e = [d EXCEPT !.listening = listening]
    BY <1>a, <2>2 DEF Controller
  <2> QED
    BY <1>b, <2>1, <2>2
<1>5. Closed(e)
  BY <1>4 DEF Closed, Running, Ending
<1>6. RecorderInv(e, n)
  BY <1>1, <1>2, <1>4 DEF RecorderInv, Fresh, Running, Ending, Closed
<1>7. QueueInv(e, n)
  BY <1>1, <1>4 DEF QueueInv, AllCut
<1> QED
  BY <1>2, <1>4, <1>5, <1>6, <1>7 DEF ControllerInv, StreamStops

(* A stream is opened when nothing is recorded.                            *)
OpenedAs(c, e, n, s) ==
    /\ ControllerInv(e, n) /\ Closed(e) /\ e.chunk = c.chunk /\ e.queue = c.queue
    /\ e.session = c.session /\ e.handling /\ e.stream = s /\ ~e.continuing

LEMMA OpenedInv ==
    ASSUME NoneIsNothing, NEW c, NEW n, ControllerInv(c, n), Closed(c), NEW s \in Nat, c.handling, c.stream = None,
           NEW e, e = [c EXCEPT !.stream = s, !.live = @ \cup {s}, !.listening = TRUE]
    PROVE  OpenedAs(c, e, n, s)
<1>1. c \in Controller /\ Recorders(c) /\ RecorderInv(c, n) /\ QueueInv(c, n)
  BY ControllerIs
<1>2. /\ e \in Controller /\ e.chunk = c.chunk /\ e.queue = c.queue
      /\ e.session = c.session /\ e.handling = c.handling /\ e.stream = s /\ e.continuing = c.continuing
      /\ e.recorder = c.recorder /\ e.armed = c.armed /\ e.live = c.live \cup {s}
      /\ e.checkpoint = c.checkpoint
  BY <1>1 DEF Controller
<1>3. Closed(e) /\ ~c.continuing
  BY <1>1, <1>2 DEF Closed, Running, Ending, RecorderInv
<1>4. s # None /\ c.live = {}
  BY <1>1 DEF NoneIsNothing, RecorderInv
<1>5. RecorderInv(e, n)
  BY <1>1, <1>2, <1>3, <1>4 DEF RecorderInv, Fresh, Running, Ending, Closed
<1>6. QueueInv(e, n)
  <2>1. AllCut(e) <=> AllCut(c)
    BY <1>2 DEF AllCut, Unfinished, Ending
  <2> QED
    BY <1>1, <1>2, <2>1 DEF QueueInv
<1> QED
  BY <1>2, <1>3, <1>5, <1>6 DEF ControllerInv, OpenedAs

(* The next chunk.                                                         *)
LEMMA StartRecorderInv ==
    ASSUME NoneIsNothing, drafted \in Nat, NEW c, ControllerInv(c, drafted), Closed(c),
           NEW e, e = StartRecorder(c)
    PROVE  /\ ControllerInv(e, drafted) /\ Heard(e, drafted) = Heard(c, drafted) /\ e.queue = c.queue
           /\ c.stream # None => Recording(e) /\ Len(e.chunk) = Len(c.chunk) + 1
           /\ c.stream = None => e = c
           /\ e.session = c.session /\ e.handling = c.handling /\ e.stream = c.stream /\ ~e.continuing
<1>1. c \in Controller /\ Recorders(c) /\ RecorderInv(c, drafted) /\ QueueInv(c, drafted)
  BY ControllerIs
<1>2. ~c.continuing
  BY <1>1 DEF Closed, RecorderInv
<1>3. CASE c.stream = None
  <2>1. e = c
    BY <1>3 DEF StartRecorder
  <2> QED
    BY <1>2, <1>3, <2>1
<1>4. CASE c.stream # None
  <2> DEFINE r == Len(c.chunk) + 1
             k == [draft |-> drafted, state |-> "recording", cut |-> FALSE]
             all == Append(c.chunk, k)
             armed == c.armed \cup {r}
  <2>1. e = [c EXCEPT !.chunk = all, !.recorder = r, !.checkpoint = r, !.armed = armed]
    BY <1>1, <1>4 DEF StartRecorder, RecorderInv
  <2>2. k \in Chunk /\ k.draft = drafted /\ k.state = "recording"
    BY DEF Chunk, Unfinished
  <2>3. c.chunk \in Seq(Chunk) /\ Len(c.chunk) \in Nat /\ DOMAIN c.chunk = 1 .. Len(c.chunk)
    BY <1>1, ChunksAre DEF Controller
  <2>4. r \in Nat /\ armed \in SUBSET Nat /\ r # None
    BY <1>1, <2>3 DEF NoneIsNothing, Controller
  <2> HIDE DEF k
  <2>5. /\ all \in Seq(Chunk) /\ Len(all) = r /\ all[r] = k /\ DOMAIN all = 1 .. r
        /\ \A s \in 1 .. Len(c.chunk) : all[s] = c.chunk[s]
    BY <2>2, <2>3, AppendProperties, LenProperties
  <2> HIDE DEF all, armed, r
  <2>6. /\ e \in Controller /\ e.chunk = all /\ e.recorder = r /\ e.checkpoint = r /\ e.armed = armed
        /\ e.session = c.session /\ e.handling = c.handling /\ e.stream = c.stream /\ e.live = c.live
        /\ e.queue = c.queue /\ e.continuing = c.continuing
    BY <1>1, <2>1, <2>4, <2>5 DEF Controller
  <2>7. /\ DOMAIN c.chunk = 1 .. Len(c.chunk) /\ DOMAIN e.chunk = 1 .. r /\ r = Len(c.chunk) + 1
        /\ \A s \in DOMAIN e.chunk : s # r => s \in DOMAIN c.chunk /\ e.chunk[s] = c.chunk[s]
        /\ \A s \in DOMAIN c.chunk : s \in DOMAIN e.chunk /\ s # r /\ e.chunk[s] = c.chunk[s]
        /\ e.chunk[r].state = "recording" /\ e.chunk[r].draft = drafted /\ r \in DOMAIN e.chunk
    BY <2>2, <2>3, <2>5, <2>6 DEF r
  <2>8. \A s \in DOMAIN e.chunk : ~Ending(e, s) /\ (Running(e, s) <=> s = r)
    BY <2>7 DEF Running, Ending, Closed
  <2>9. c.armed = {}
    BY <1>1 DEF RecorderInv, Closed
  <2>10. RecorderInv(e, drafted)
    <3>1. Fresh(e, drafted)
      BY <2>5, <2>6, <2>7, <2>8 DEF Fresh
    <3>2. \A s \in e.armed : s = e.checkpoint /\ s \in DOMAIN e.chunk /\ Running(e, s)
      BY <2>6, <2>7, <2>8, <2>9 DEF armed
    <3> QED
      BY <1>1, <1>2, <1>4, <2>6, <2>7, <2>8, <3>1, <3>2 DEF RecorderInv
  <2>11. AllCut(c) /\ ~c.handling => AllCut(e)
    BY <1>1, <1>4 DEF RecorderInv
  <2>12. QueueInv(e, drafted)
    <3>1. ASSUME NEW i \in DOMAIN e.queue
          PROVE  /\ e.queue[i].chunk \in DOMAIN e.chunk
                 /\ e.chunk[e.queue[i].chunk].state = "queued"
                 /\ e.queue[i].session <= e.session
                 /\ IF e.queue[i].session = e.session THEN e.chunk[e.queue[i].chunk].draft = drafted
                                                      ELSE e.chunk[e.queue[i].chunk].cut
      <4>1. /\ c.queue[i].chunk \in DOMAIN c.chunk /\ c.chunk[c.queue[i].chunk].state = "queued"
            /\ c.queue[i].session <= c.session
            /\ IF c.queue[i].session = c.session THEN c.chunk[c.queue[i].chunk].draft = drafted
                                                 ELSE c.chunk[c.queue[i].chunk].cut
        BY <1>1, <2>6 DEF QueueInv
      <4>2. c.queue[i].chunk \in DOMAIN e.chunk /\ e.chunk[c.queue[i].chunk] = c.chunk[c.queue[i].chunk]
        BY <2>7, <4>1
      <4> QED
        BY <2>6, <4>1, <4>2
    <3>2. \A s \in DOMAIN e.chunk : e.chunk[s].state = "queued" => \E i \in DOMAIN e.queue : e.queue[i].chunk = s
      BY <1>1, <2>6, <2>7 DEF QueueInv
    <3>3. \A s \in DOMAIN e.chunk : /\ e.chunk[s].draft <= drafted
                                    /\ e.chunk[s].state = "dropped" => e.chunk[s].cut
      BY <1>1, <2>7 DEF QueueInv
    <3>4. /\ Len(e.queue) <= Backlog
          /\ \A i, j \in DOMAIN e.queue : i < j => e.queue[i].chunk < e.queue[j].chunk
          /\ ~e.handling => AllCut(e)
      BY <1>1, <2>6, <2>11 DEF QueueInv
    <3> QED
      BY <3>1, <3>2, <3>3, <3>4 DEF QueueInv
  <2>13. Heard(e, drafted) = Heard(c, drafted)
    BY <2>7 DEF Heard
  <2>14. Recording(e) /\ Len(e.chunk) = Len(c.chunk) + 1
    BY <2>4, <2>5, <2>6, <2>7 DEF Recording
  <2> QED
    BY <1>2, <1>4, <2>6, <2>10, <2>12, <2>13, <2>14 DEF ControllerInv
<1> QED
  BY <1>3, <1>4

(* A chunk that an interruption overtook is dropped.                       *)
LEMMA DropInv ==
    ASSUME NEW c, NEW n \in Nat, ControllerInv(c, n), AllCut(c), ~c.continuing, NEW r \in DOMAIN c.chunk, Ending(c, r),
           NEW e, e = [c EXCEPT !.chunk[r].state = "dropped"]
    PROVE  /\ ControllerInv(e, n) /\ AllCut(e) /\ Closed(e) /\ Kept(c, e, n)
           /\ e.session = c.session /\ e.handling = c.handling /\ e.stream = c.stream /\ ~e.continuing
<1>1. c \in Controller /\ Recorders(c) /\ RecorderInv(c, n) /\ QueueInv(c, n)
  BY ControllerIs
<1>a. Becomes(c, e, r, "dropped")
  BY <1>1, ChunkBecomes
<1>2. /\ e \in Controller
      /\ e.session = c.session /\ e.handling = c.handling /\ e.stream = c.stream /\ e.live = c.live
      /\ e.recorder = c.recorder /\ e.continuing = c.continuing
      /\ e.checkpoint = c.checkpoint /\ e.armed = c.armed /\ e.queue = c.queue
      /\ Len(e.chunk) = Len(c.chunk) /\ DOMAIN e.chunk = DOMAIN c.chunk
      /\ e.chunk[r].state = "dropped"
      /\ \A s \in DOMAIN c.chunk : /\ s # r => e.chunk[s] = c.chunk[s]
                                   /\ e.chunk[s].draft = c.chunk[s].draft
                                   /\ e.chunk[s].cut = c.chunk[s].cut
  BY <1>a DEF Becomes
<1>3. \A s \in DOMAIN c.chunk : Running(c, s) \/ Ending(c, s) => s = r
  BY <1>1 DEF RecorderInv, Fresh
<1>4. Closed(e)
  BY <1>2, <1>3 DEF Closed, Running, Ending
<1>5. c.armed = {} /\ ~Running(c, r) /\ c.chunk[r].cut
  BY <1>1, <1>3 DEF RecorderInv, Running, Ending, AllCut, Unfinished
<1>6. RecorderInv(e, n)
  BY <1>1, <1>2, <1>4, <1>5 DEF RecorderInv, Fresh, Closed, Recorders
<1>7. AllCut(e)
  BY <1>2 DEF AllCut, Unfinished
<1>8. QueueInv(e, n)
  <2>1. ASSUME NEW k \in DOMAIN e.queue
        PROVE  /\ e.queue[k].chunk \in DOMAIN e.chunk
               /\ e.chunk[e.queue[k].chunk].state = "queued"
               /\ e.queue[k].session <= e.session
               /\ IF e.queue[k].session = e.session THEN e.chunk[e.queue[k].chunk].draft = n
                                                    ELSE e.chunk[e.queue[k].chunk].cut
    <3>1. /\ c.queue[k].chunk \in DOMAIN c.chunk /\ c.chunk[c.queue[k].chunk].state = "queued"
          /\ c.queue[k].session <= c.session
          /\ IF c.queue[k].session = c.session THEN c.chunk[c.queue[k].chunk].draft = n
                                               ELSE c.chunk[c.queue[k].chunk].cut
      BY <1>1, <1>2 DEF QueueInv
    <3>2. c.queue[k].chunk # r
      BY <3>1 DEF Ending
    <3> QED
      BY <1>2, <3>1, <3>2
  <2>2. \A s \in DOMAIN e.chunk : e.chunk[s].state = "queued" => \E k \in DOMAIN e.queue : e.queue[k].chunk = s
    BY <1>1, <1>2 DEF QueueInv
  <2>3. \A s \in DOMAIN e.chunk : /\ e.chunk[s].draft <= n
                                  /\ e.chunk[s].state = "dropped" => e.chunk[s].cut
    BY <1>1, <1>2, <1>5 DEF QueueInv
  <2>4. /\ Len(e.queue) <= Backlog
        /\ \A j, k \in DOMAIN e.queue : j < k => e.queue[j].chunk < e.queue[k].chunk
    BY <1>1, <1>2 DEF QueueInv
  <2> QED
    BY <1>7, <2>1, <2>2, <2>3, <2>4 DEF QueueInv
<1>9. Heard(e, n) = Heard(c, n)
  BY <1>2 DEF Heard, Ending
<1> QED
  BY <1>2, <1>4, <1>6, <1>7, <1>8, <1>9 DEF ControllerInv, Kept

(* A chunk is queued for transcription.                                    *)
LEMMA JobsAre ==
    ASSUME NEW c \in Controller
    PROVE  /\ Len(c.queue) \in Nat /\ DOMAIN c.queue = 1 .. Len(c.queue)
           /\ \A k \in DOMAIN c.queue : c.queue[k] \in Job
<1>1. c.queue \in Seq(Job)
  BY DEF Controller
<1> QED
  BY <1>1, LenProperties, ElementOfSeq

QueuedAs(c, e, r, n) ==
    /\ ControllerInv(e, n) /\ Closed(e) /\ Heard(e, n) = Heard(c, n)
    /\ e.queue = Append(c.queue, [chunk |-> r, session |-> c.session])
    /\ e.session = c.session /\ e.handling = c.handling /\ e.stream = c.stream /\ ~e.continuing
    /\ Len(e.chunk) = Len(c.chunk)
    /\ AllCut(c) => AllCut(e)
    /\ \A words : WordsInv(words, c, n) => WordsInv(words, e, n)

NoLonger(d, e) ==
    /\ e \in Controller /\ e.queue = d.queue /\ e.chunk = d.chunk
    /\ e.session = d.session /\ e.handling = d.handling /\ e.stream = d.stream /\ e.live = d.live
    /\ e.recorder = d.recorder /\ ~e.continuing
    /\ e.checkpoint = d.checkpoint /\ e.armed = d.armed
    /\ ~d.continuing => d = e

LEMMA NotContinuing == ASSUME NEW d \in Controller PROVE NoLonger(d, [d EXCEPT !.continuing = FALSE])
<1>0. PICK e : e = [d EXCEPT !.continuing = FALSE]
  OBVIOUS
<1>1. d.continuing \in BOOLEAN
  BY DEF Controller
<1>2. ~d.continuing => d.continuing = FALSE
  BY <1>1
<1>3. ~d.continuing => d = e
  BY <1>0, <1>2 DEF Controller
<1> QED
  BY <1>0, <1>3 DEF Controller, NoLonger

QueuedTo(c, d, e, r, n) ==
    /\ QueuedAs(c, e, r, n)
    /\ d.continuing = c.continuing /\ d.handling = c.handling /\ d.stream = c.stream
    /\ ~d.continuing => d = e

LEMMA QueuedInv ==
    ASSUME NoneIsNothing, NEW c, NEW n \in Nat, ControllerInv(c, n), c.handling, HasRoom(c),
           NEW r \in DOMAIN c.chunk, Ending(c, r),
           NEW d, d = QueueTranscription(c, r),
           NEW e, e = [d EXCEPT !.continuing = FALSE]
    PROVE  QueuedTo(c, d, e, r, n)
<1> DEFINE job == [chunk |-> r, session |-> c.session]
           all == Append(c.queue, job)
           b == [c EXCEPT !.chunk[r].state = "queued"]
<1>1. c \in Controller /\ Recorders(c) /\ RecorderInv(c, n) /\ QueueInv(c, n)
  BY ControllerIs
<1>2. /\ Len(c.queue) \in Nat /\ DOMAIN c.queue = 1 .. Len(c.queue) /\ c.queue \in Seq(Job)
      /\ Len(c.chunk) \in Nat /\ DOMAIN c.chunk = 1 .. Len(c.chunk) /\ c.session \in Nat
  BY <1>1, JobsAre, ChunksAre DEF Controller
<1>3. job \in Job /\ job.chunk = r /\ job.session = c.session
  BY <1>2 DEF Job
<1>4. /\ all \in Seq(Job) /\ Len(all) = Len(c.queue) + 1 /\ all[Len(c.queue) + 1] = job
      /\ DOMAIN all = 1 .. Len(c.queue) + 1
      /\ \A k \in 1 .. Len(c.queue) : all[k] = c.queue[k]
  BY <1>2, <1>3, AppendProperties, LenProperties
<1>5. d = [b EXCEPT !.queue = all]
  BY DEF Controller, QueueTranscription
<1>6. Becomes(c, b, r, "queued")
  BY <1>1, ChunkBecomes DEF Unfinished
<1>a. e = [d EXCEPT !.continuing = FALSE]
  OBVIOUS
<1> HIDE DEF job, all, b
<1>7. /\ d \in Controller /\ d.queue = all /\ d.chunk = b.chunk
      /\ d.session = c.session /\ d.handling = c.handling /\ d.stream = c.stream /\ d.live = c.live
      /\ d.recorder = c.recorder /\ d.continuing = c.continuing
      /\ d.checkpoint = c.checkpoint /\ d.armed = c.armed
  BY <1>4, <1>5, <1>6 DEF Controller, Becomes
<1>b. NoLonger(d, e)
  BY <1>7, <1>a, NotContinuing
<1>8. /\ e \in Controller /\ e.queue = all /\ e.chunk = b.chunk
      /\ e.session = c.session /\ e.handling = c.handling /\ e.stream = c.stream /\ e.live = c.live
      /\ e.recorder = c.recorder /\ ~e.continuing
      /\ e.checkpoint = c.checkpoint /\ e.armed = c.armed
  BY <1>7, <1>b DEF NoLonger
<1>c. /\ Len(c.queue) \in Nat /\ DOMAIN c.queue = 1 .. Len(c.queue)
      /\ Len(e.queue) = Len(c.queue) + 1 /\ Len(c.queue) + 1 \in DOMAIN e.queue
      /\ e.queue[Len(c.queue) + 1] = job /\ job.chunk = r /\ job.session = c.session
      /\ \A k \in DOMAIN c.queue : k \in DOMAIN e.queue /\ e.queue[k] = c.queue[k]
      /\ \A k \in DOMAIN e.queue : k \in Nat /\ (k \in DOMAIN c.queue \/ k = Len(c.queue) + 1)
      /\ \A j, k \in DOMAIN e.queue : j < k => j \in DOMAIN c.queue
  <2>1. DOMAIN e.queue = 1 .. Len(c.queue) + 1 /\ Len(e.queue) = Len(c.queue) + 1
    BY <1>4, <1>8
  <2>2. Len(c.queue) + 1 \in DOMAIN e.queue /\ e.queue[Len(c.queue) + 1] = job
    <3>1. Len(c.queue) + 1 \in 1 .. Len(c.queue) + 1
      BY <1>2
    <3>2. e.queue = all /\ all[Len(c.queue) + 1] = job
      BY <1>4, <1>8
    <3> QED
      BY <2>1, <3>1, <3>2
  <2>3. \A k \in DOMAIN c.queue : k \in DOMAIN e.queue /\ e.queue[k] = c.queue[k]
    BY <1>2, <1>4, <1>8, <2>1
  <2>4. /\ \A k \in DOMAIN e.queue : k \in Nat /\ (k \in DOMAIN c.queue \/ k = Len(c.queue) + 1)
        /\ \A j, k \in DOMAIN e.queue : j < k => j \in DOMAIN c.queue
    <3>1. PICK m \in Nat : m = Len(c.queue)
      BY <1>2
    <3>2. DOMAIN e.queue = 1 .. m + 1 /\ DOMAIN c.queue = 1 .. m
      BY <1>2, <2>1, <3>1
    <3>3. \A k \in DOMAIN e.queue : k \in Nat /\ (k \in DOMAIN c.queue \/ k = m + 1)
      BY <3>2
    <3>4. \A j, k \in DOMAIN e.queue : j < k => j \in DOMAIN c.queue
      BY <3>2
    <3> QED
      BY <3>1, <3>3, <3>4
  <2> QED
    BY <1>2, <1>3, <2>1, <2>2, <2>3, <2>4
<1>9. ~d.continuing => d = e
  BY <1>b DEF NoLonger
<1>10. /\ Len(e.chunk) = Len(c.chunk) /\ DOMAIN e.chunk = DOMAIN c.chunk
       /\ e.chunk[r].state = "queued"
       /\ \A s \in DOMAIN c.chunk : /\ s # r => e.chunk[s] = c.chunk[s]
                                    /\ e.chunk[s].draft = c.chunk[s].draft
                                    /\ e.chunk[s].cut = c.chunk[s].cut
  BY <1>6, <1>8 DEF Becomes
<1>11. \A s \in DOMAIN c.chunk : Running(c, s) \/ Ending(c, s) => s = r
  BY <1>1 DEF RecorderInv, Fresh
<1>12. r = Len(c.chunk) /\ c.chunk[r].draft = n
  BY <1>1 DEF RecorderInv, Fresh
<1>13. Closed(e)
  BY <1>10, <1>11 DEF Closed, Running, Ending
<1>14. RecorderInv(e, n)
  <2>1. c.armed = {}
    BY <1>1, <1>11 DEF RecorderInv, Running, Ending
  <2> QED
    BY <1>1, <1>8, <1>10, <1>13, <2>1 DEF RecorderInv, Fresh, Closed, Recorders
<1>15. AllCut(c) => AllCut(e)
  BY <1>10 DEF AllCut, Unfinished, Ending
<1>16. \A k \in DOMAIN c.queue : c.queue[k].chunk \in DOMAIN c.chunk /\ c.queue[k].chunk < r
  <2> SUFFICES ASSUME NEW k \in DOMAIN c.queue PROVE c.queue[k].chunk \in DOMAIN c.chunk /\ c.queue[k].chunk < r
    OBVIOUS
  <2>1. c.queue[k].chunk \in DOMAIN c.chunk /\ c.queue[k].chunk # r
    BY <1>1 DEF QueueInv, Ending
  <2> QED
    BY <1>2, <1>12, <2>1
<1>17. QueueInv(e, n)
  <2>1. ASSUME NEW k \in DOMAIN e.queue
        PROVE  /\ e.queue[k].chunk \in DOMAIN e.chunk
               /\ e.chunk[e.queue[k].chunk].state = "queued"
               /\ e.queue[k].session <= e.session
               /\ IF e.queue[k].session = e.session THEN e.chunk[e.queue[k].chunk].draft = n
                                                    ELSE e.chunk[e.queue[k].chunk].cut
    <3>1. CASE k \in DOMAIN c.queue
      <4>1. /\ c.queue[k].chunk \in DOMAIN c.chunk /\ c.chunk[c.queue[k].chunk].state = "queued"
            /\ c.queue[k].session <= c.session
            /\ IF c.queue[k].session = c.session THEN c.chunk[c.queue[k].chunk].draft = n
                                                 ELSE c.chunk[c.queue[k].chunk].cut
        BY <1>1, <3>1 DEF QueueInv
      <4>2. e.queue[k] = c.queue[k] /\ c.queue[k].chunk # r
        <5>1. c.queue[k].chunk # r
          BY <4>1 DEF Ending
        <5> QED
          BY <1>c, <3>1, <5>1
      <4>3. c.queue[k].chunk \in DOMAIN e.chunk /\ e.chunk[c.queue[k].chunk] = c.chunk[c.queue[k].chunk]
        BY <1>10, <4>1, <4>2
      <4>4. e.session = c.session
        BY <1>8
      <4> QED
        BY <4>1, <4>2, <4>3, <4>4
    <3>2. CASE k = Len(c.queue) + 1
      <4>1. e.queue[k] = job
        BY <1>c, <3>2
      <4> QED
        <5>1. r \in DOMAIN e.chunk /\ e.chunk[r].state = "queued" /\ e.chunk[r].draft = n
          BY <1>10, <1>12
        <5>2. e.session = c.session /\ c.session \in Nat
          BY <1>2, <1>8
        <5> QED
          BY <1>c, <4>1, <5>1, <5>2
    <3> QED
      BY <1>c, <3>1, <3>2
  <2>2. ASSUME NEW s \in DOMAIN e.chunk, e.chunk[s].state = "queued"
        PROVE  \E k \in DOMAIN e.queue : e.queue[k].chunk = s
    <3>1. CASE s = r
      <4>1. Len(c.queue) + 1 \in DOMAIN e.queue /\ e.queue[Len(c.queue) + 1].chunk = s
        BY <1>c, <3>1
      <4> QED
        BY <4>1
    <3>2. CASE s # r
      <4>1. PICK k \in DOMAIN c.queue : c.queue[k].chunk = s
        BY <1>1, <1>10, <2>2, <3>2 DEF QueueInv
      <4>2. k \in DOMAIN e.queue /\ e.queue[k].chunk = s
        BY <1>c, <4>1
      <4> QED
        BY <4>2
    <3> QED
      BY <3>1, <3>2
  <2>3. \A s \in DOMAIN e.chunk : /\ e.chunk[s].draft <= n
                                  /\ e.chunk[s].state = "dropped" => e.chunk[s].cut
    BY <1>1, <1>10 DEF QueueInv
  <2>4. Len(e.queue) <= Backlog
    <3>1. Backlog \in Nat /\ Len(c.queue) < Backlog
      BY CaptureAssumption DEF HasRoom
    <3> QED
      BY <1>c, <3>1
  <2>5. ASSUME NEW j \in DOMAIN e.queue, NEW k \in DOMAIN e.queue, j < k PROVE e.queue[j].chunk < e.queue[k].chunk
    <3>1. j \in DOMAIN c.queue /\ e.queue[j] = c.queue[j]
      BY <1>c, <2>5
    <3>2. CASE k \in DOMAIN c.queue
      <4>1. e.queue[k] = c.queue[k]
        BY <1>c, <3>2
      <4> QED
        BY <1>1, <2>5, <3>1, <3>2, <4>1 DEF QueueInv
    <3>3. CASE k = Len(c.queue) + 1
      <4>1. e.queue[k] = job
        BY <1>c, <3>3
      <4>2. c.queue[j].chunk < r
        BY <1>16, <3>1
      <4>3. e.queue[k].chunk = r
        BY <1>c, <4>1
      <4> QED
        BY <3>1, <4>2, <4>3
    <3>4. k \in DOMAIN c.queue \/ k = Len(c.queue) + 1
      BY <1>c
    <3> QED
      BY <3>2, <3>3, <3>4
  <2>6. ~e.handling => AllCut(e)
    BY <1>8
  <2> QED
    BY <2>1, <2>2, <2>3, <2>4, <2>5, <2>6 DEF QueueInv
<1>18. Heard(e, n) = Heard(c, n)
  BY <1>10 DEF Heard, Ending
<1>19. ASSUME NEW words, WordsInv(words, c, n) PROVE WordsInv(words, e, n)
  <2>1. ASSUME NEW i \in DOMAIN words, NEW k \in DOMAIN e.queue PROVE words[i] < e.queue[k].chunk
    <3>1. CASE k \in DOMAIN c.queue
      BY <1>c, <1>19, <3>1 DEF WordsInv
    <3>2. CASE k = Len(c.queue) + 1
      <4>1. words[i] \in DOMAIN c.chunk /\ words[i] # r
        BY <1>19 DEF WordsInv, Heard, Ending
      <4> QED
        BY <1>2, <1>c, <1>12, <3>2, <4>1
    <3> QED
      BY <1>c, <3>1, <3>2
  <2> QED
    BY <1>18, <1>19, <2>1 DEF WordsInv
<1>20. e.queue = Append(c.queue, [chunk |-> r, session |-> c.session])
  BY <1>8 DEF all, job
<1> QED
  BY <1>7, <1>8, <1>9, <1>10, <1>13, <1>14, <1>15, <1>17, <1>18, <1>19, <1>20 DEF ControllerInv, QueuedAs, QueuedTo

LEMMA WordsSame ==
    ASSUME NEW c, NEW e, NEW n, Heard(e, n) = Heard(c, n), e.queue = c.queue
    PROVE  \A words : WordsInv(words, c, n) => WordsInv(words, e, n)
BY DEF WordsInv

(* The recorder's stop event: the chunk is queued or dropped, and the next *)
(* one begins where a checkpoint stopped the last.                         *)
StoppedAs(c, e, n) ==
    /\ ControllerInv(e, n)
    /\ \A words : WordsInv(words, c, n) => WordsInv(words, e, n)
    /\ e.session = c.session /\ e.handling = c.handling /\ ~e.continuing /\ e.stream \in {c.stream, None}
    /\ Len(e.chunk) <= Len(c.chunk) + 1
    /\ ~c.continuing => Closed(e) /\ Len(e.chunk) = Len(c.chunk) /\ (AllCut(c) => AllCut(e))
    /\ c.handling /\ ~HasRoom(c) => AllCut(e) /\ e.stream = None
    /\ c.continuing /\ HasRoom(c) => Recording(e)

LEMMA StopEventInv ==
    ASSUME NoneIsNothing, drafted \in Nat, NEW c, ControllerInv(c, drafted), NEW r \in DOMAIN c.chunk, Ending(c, r),
           NEW e, e = Continue(IF c.handling THEN QueueTranscription(c, r) ELSE [c EXCEPT !.chunk[r].state = "dropped"])
    PROVE  StoppedAs(c, e, drafted)
<1>1. /\ c \in Controller /\ Recorders(c) /\ RecorderInv(c, drafted) /\ QueueInv(c, drafted)
      /\ Len(c.chunk) \in Nat
  BY ControllerIs, ChunksAre
<1>2. c.continuing => c.stream # None /\ c.handling
  BY <1>1 DEF RecorderInv
<1>3. CASE c.handling /\ HasRoom(c)
  <2>d. PICK d : d = QueueTranscription(c, r)
    OBVIOUS
  <2>f. PICK f : f = [d EXCEPT !.continuing = FALSE]
    OBVIOUS
  <2>1. e = Continue(d)
    BY <1>3, <2>d
  <2>a. QueuedTo(c, d, f, r, drafted)
    BY <1>3, <2>d, <2>f, QueuedInv
  <2>2. /\ QueuedAs(c, f, r, drafted)
        /\ d.continuing = c.continuing /\ d.handling = c.handling /\ d.stream = c.stream
        /\ ~d.continuing => d = f
    BY <2>a DEF QueuedTo
  <2>3. e = IF d.continuing /\ d.handling /\ d.stream # None THEN StartRecorder(f) ELSE d
    BY <2>1, <2>f DEF Continue
  <2>4. CASE c.continuing
    <3>1. e = StartRecorder(f)
      BY <1>2, <2>2, <2>3, <2>4
    <3>2. ControllerInv(f, drafted) /\ Closed(f) /\ f.stream # None
      BY <1>2, <2>2, <2>4 DEF QueuedAs
    <3>3. /\ ControllerInv(e, drafted) /\ Heard(e, drafted) = Heard(f, drafted) /\ e.queue = f.queue
          /\ Recording(e) /\ Len(e.chunk) = Len(f.chunk) + 1
          /\ e.session = f.session /\ e.handling = f.handling /\ e.stream = f.stream /\ ~e.continuing
      BY <3>1, <3>2, StartRecorderInv
    <3>4. \A words : WordsInv(words, c, drafted) => WordsInv(words, e, drafted)
      BY <2>2, <3>3, WordsSame DEF QueuedAs
    <3>5. /\ e.session = c.session /\ e.handling = c.handling /\ e.stream = c.stream
          /\ Len(e.chunk) = Len(c.chunk) + 1
      BY <2>2, <3>3 DEF QueuedAs
    <3>6. Len(e.chunk) <= Len(c.chunk) + 1
      BY <1>1, <3>5
    <3> QED
      BY <1>3, <2>4, <3>3, <3>4, <3>5, <3>6 DEF StoppedAs
  <2>5. CASE ~c.continuing
    <3>1. e = f
      BY <2>2, <2>3, <2>5
    <3>2. Len(e.chunk) <= Len(c.chunk) + 1
      BY <1>1, <2>2, <3>1 DEF QueuedAs
    <3> QED
      BY <1>3, <2>2, <2>5, <3>1, <3>2 DEF QueuedAs, StoppedAs
  <2> QED
    BY <2>4, <2>5
<1>4. CASE c.handling /\ ~HasRoom(c)
  <2> DEFINE i == Interrupt(c)
             d == [i EXCEPT !.chunk[r].state = "dropped"]
  <2>1. e = Continue(d)
    BY <1>4 DEF QueueTranscription
  <2>2. /\ ControllerInv(i, drafted) /\ AllCut(i) /\ Kept(c, i, drafted) /\ Ending(i, r)
        /\ i.session = c.session /\ i.handling = c.handling /\ i.stream = None /\ ~i.continuing
    BY InterruptInv
  <2> HIDE DEF i
  <2>3. r \in DOMAIN i.chunk
    BY <1>1, <2>2, ChunksAre DEF Kept, ControllerInv
  <2>4. /\ ControllerInv(d, drafted) /\ AllCut(d) /\ Closed(d) /\ Kept(i, d, drafted)
        /\ d.session = i.session /\ d.handling = i.handling /\ d.stream = i.stream /\ ~d.continuing
    BY <2>2, <2>3, DropInv
  <2>5. e = d
    BY <2>1, <2>4 DEF Continue
  <2> HIDE DEF d
  <2>6. \A words : WordsInv(words, c, drafted) => WordsInv(words, e, drafted)
    BY <2>2, <2>4, <2>5, WordsSame DEF Kept
  <2>7. Len(e.chunk) = Len(c.chunk) /\ Len(e.chunk) <= Len(c.chunk) + 1
    BY <1>1, <2>2, <2>4, <2>5 DEF Kept
  <2> QED
    BY <1>4, <2>2, <2>4, <2>5, <2>6, <2>7 DEF StoppedAs
<1>5. CASE ~c.handling
  <2> DEFINE d == [c EXCEPT !.chunk[r].state = "dropped"]
  <2>1. e = Continue(d)
    BY <1>5
  <2>2. AllCut(c) /\ ~c.continuing
    BY <1>1, <1>2, <1>5 DEF QueueInv
  <2>3. /\ ControllerInv(d, drafted) /\ AllCut(d) /\ Closed(d) /\ Kept(c, d, drafted)
        /\ d.session = c.session /\ d.handling = c.handling /\ d.stream = c.stream /\ ~d.continuing
    BY <2>2, DropInv
  <2>4. e = d
    BY <2>1, <2>3 DEF Continue
  <2> HIDE DEF d
  <2>5. \A words : WordsInv(words, c, drafted) => WordsInv(words, e, drafted)
    BY <2>3, <2>4, WordsSame DEF Kept
  <2>6. Len(e.chunk) = Len(c.chunk) /\ Len(e.chunk) <= Len(c.chunk) + 1
    BY <1>1, <2>3, <2>4 DEF Kept
  <2> QED
    BY <1>5, <2>2, <2>3, <2>4, <2>5, <2>6 DEF StoppedAs
<1> QED
  BY <1>3, <1>4, <1>5

(* The oldest chunk's transcription answers.                               *)
AnsweredAs(c, e, n) ==
    /\ ControllerInv(e, n) /\ Len(e.chunk) = Len(c.chunk) /\ (AllCut(c) => AllCut(e))
    /\ e.session = c.session /\ e.handling = c.handling /\ e.stream = c.stream /\ e.continuing = c.continuing
    /\ e.recorder = c.recorder
    /\ e.queue = Tail(c.queue)
    /\ DOMAIN e.chunk = DOMAIN c.chunk
    /\ \A r \in DOMAIN c.chunk : (Running(e, r) <=> Running(c, r)) /\ (Ending(e, r) <=> Ending(c, r))

AnsweredWith(c, e, r, state) ==
    /\ e \in Controller /\ e.queue = Tail(c.queue)
    /\ e.session = c.session /\ e.handling = c.handling /\ e.stream = c.stream /\ e.live = c.live
    /\ e.recorder = c.recorder /\ e.continuing = c.continuing
    /\ e.checkpoint = c.checkpoint /\ e.armed = c.armed
    /\ Len(e.chunk) = Len(c.chunk) /\ DOMAIN e.chunk = DOMAIN c.chunk
    /\ e.chunk[r].state = state
    /\ \A s \in DOMAIN c.chunk : /\ s # r => e.chunk[s] = c.chunk[s]
                                 /\ e.chunk[s].draft = c.chunk[s].draft
                                 /\ e.chunk[s].cut = c.chunk[s].cut

LEMMA AnswerChanges ==
    ASSUME NEW c \in Controller, c.queue # << >>, NEW r \in DOMAIN c.chunk,
           NEW state \in {"heard", "silent", "failed", "dropped"}
    PROVE  AnsweredWith(c, [c EXCEPT !.queue = Tail(@), !.chunk[r].state = state], r, state)
<1> DEFINE rest == Tail(c.queue)
           b == [c EXCEPT !.chunk[r].state = state]
<1>1. PICK e : e = [c EXCEPT !.queue = rest, !.chunk[r].state = state]
  OBVIOUS
<1>2. c.queue \in Seq(Job)
  BY DEF Controller
<1>3. rest \in Seq(Job)
  BY <1>2, HeadTailProperties
<1>4. Becomes(c, b, r, state)
  BY ChunkBecomes
<1>5. e = [b EXCEPT !.queue = rest]
  BY <1>1 DEF Controller
<1> HIDE DEF b, rest
<1>6. /\ e \in Controller /\ e.queue = rest /\ e.chunk = b.chunk
      /\ e.session = b.session /\ e.handling = b.handling /\ e.stream = b.stream /\ e.live = b.live
      /\ e.recorder = b.recorder /\ e.continuing = b.continuing
      /\ e.checkpoint = b.checkpoint /\ e.armed = b.armed
  <2>1. b \in Controller
    BY <1>4 DEF Becomes
  <2> QED
    BY <1>3, <1>5, <2>1 DEF Controller
<1>7. AnsweredWith(c, e, r, state)
  BY <1>4, <1>6 DEF Becomes, AnsweredWith, rest
<1> QED
  BY <1>1, <1>7 DEF rest

Gains(c, e, n, wanted, outcome, r) ==
    \A words \in Seq(Nat) : WordsInv(words, c, n) =>
        WordsInv(IF wanted /\ outcome = "heard" THEN Append(words, r) ELSE words, e, n)

LEMMA AnsweredInv ==
    ASSUME NEW c, NEW n \in Nat, ControllerInv(c, n), c.queue # << >>,
           NEW job, job = Head(c.queue), NEW outcome \in {"heard", "silent", "failed"},
           NEW wanted \in BOOLEAN, wanted <=> job.session = c.session,
           NEW state, state = IF wanted THEN outcome ELSE "dropped",
           NEW e, AnsweredWith(c, e, job.chunk, state)
    PROVE  AnsweredAs(c, e, n) /\ Gains(c, e, n, wanted, outcome, job.chunk)
<1> DEFINE r == job.chunk
           rest == Tail(c.queue)
<1>1. c \in Controller /\ Recorders(c) /\ RecorderInv(c, n) /\ QueueInv(c, n)
  BY ControllerIs
<1>2. /\ Len(c.queue) \in Nat /\ DOMAIN c.queue = 1 .. Len(c.queue) /\ c.queue \in Seq(Job)
      /\ Len(c.chunk) \in Nat /\ DOMAIN c.chunk = 1 .. Len(c.chunk) /\ c.session \in Nat
  BY <1>1, JobsAre, ChunksAre DEF Controller
<1>3. /\ rest \in Seq(Job) /\ Len(rest) = Len(c.queue) - 1 /\ Len(c.queue) \in Nat \ {0}
      /\ DOMAIN rest = 1 .. Len(c.queue) - 1
      /\ \A k \in 1 .. Len(c.queue) - 1 : rest[k] = c.queue[k + 1]
  BY <1>2, HeadTailProperties, LenProperties, EmptySeq
<1>4. job = c.queue[1] /\ 1 \in DOMAIN c.queue
  BY <1>2, <1>3
<1>5. /\ r \in DOMAIN c.chunk /\ c.chunk[r].state = "queued"
      /\ IF wanted THEN c.chunk[r].draft = n ELSE c.chunk[r].cut
  BY <1>1, <1>4 DEF QueueInv
<1>6. state \in {"heard", "silent", "failed", "dropped"} /\ state \notin Unfinished
  BY DEF Unfinished
<1>9. state = (IF wanted THEN outcome ELSE "dropped")
  OBVIOUS
<1>10. /\ e \in Controller /\ e.queue = rest
       /\ e.session = c.session /\ e.handling = c.handling /\ e.stream = c.stream /\ e.live = c.live
       /\ e.recorder = c.recorder /\ e.continuing = c.continuing
       /\ e.checkpoint = c.checkpoint /\ e.armed = c.armed
       /\ Len(e.chunk) = Len(c.chunk) /\ DOMAIN e.chunk = DOMAIN c.chunk
       /\ e.chunk[r].state = state
       /\ \A s \in DOMAIN c.chunk : /\ s # r => e.chunk[s] = c.chunk[s]
                                    /\ e.chunk[s].draft = c.chunk[s].draft
                                    /\ e.chunk[s].cut = c.chunk[s].cut
  BY DEF AnsweredWith
<1> HIDE DEF r, rest
<1>11. \A s \in DOMAIN c.chunk : (Running(e, s) <=> Running(c, s)) /\ (Ending(e, s) <=> Ending(c, s))
  BY <1>5, <1>6, <1>10 DEF Running, Ending, Unfinished
<1>12. AllCut(c) => AllCut(e)
  BY <1>6, <1>10 DEF AllCut
<1>13. RecorderInv(e, n)
  BY <1>1, <1>10, <1>11 DEF RecorderInv, Fresh, Recorders
<1>14. \A k \in DOMAIN rest : k + 1 \in DOMAIN c.queue /\ 1 < k + 1 /\ rest[k] = c.queue[k + 1]
  BY <1>2, <1>3
<1>15. \A k \in DOMAIN rest : r < rest[k].chunk
  BY <1>1, <1>4, <1>14 DEF QueueInv, r
<1>16. QueueInv(e, n)
  <2>1. ASSUME NEW k \in DOMAIN e.queue
        PROVE  /\ e.queue[k].chunk \in DOMAIN e.chunk
               /\ e.chunk[e.queue[k].chunk].state = "queued"
               /\ e.queue[k].session <= e.session
               /\ IF e.queue[k].session = e.session THEN e.chunk[e.queue[k].chunk].draft = n
                                                    ELSE e.chunk[e.queue[k].chunk].cut
    <3>1. PICK i \in DOMAIN c.queue : e.queue[k] = c.queue[i]
      BY <1>10, <1>14
    <3>2. /\ c.queue[i].chunk \in DOMAIN c.chunk /\ c.chunk[c.queue[i].chunk].state = "queued"
          /\ c.queue[i].session <= c.session
          /\ IF c.queue[i].session = c.session THEN c.chunk[c.queue[i].chunk].draft = n
                                               ELSE c.chunk[c.queue[i].chunk].cut
      BY <1>1 DEF QueueInv
    <3>3. c.queue[i].chunk # r
      BY <1>2, <1>5, <1>10, <1>15, <3>1, <3>2
    <3> QED
      BY <1>10, <3>1, <3>2, <3>3
  <2>2. ASSUME NEW s \in DOMAIN e.chunk, e.chunk[s].state = "queued"
        PROVE  \E k \in DOMAIN e.queue : e.queue[k].chunk = s
    <3>1. s # r
      BY <1>6, <1>10, <2>2 DEF Unfinished
    <3>2. PICK k \in DOMAIN c.queue : c.queue[k].chunk = s
      BY <1>1, <1>10, <2>2, <3>1 DEF QueueInv
    <3>3. k # 1
      BY <1>4, <3>1, <3>2 DEF r
    <3>4. k - 1 \in DOMAIN rest /\ rest[k - 1] = c.queue[k]
      BY <1>2, <1>3, <3>3
    <3> QED
      BY <1>10, <3>2, <3>4
  <2>3. \A s \in DOMAIN e.chunk : /\ e.chunk[s].draft <= n
                                  /\ e.chunk[s].state = "dropped" => e.chunk[s].cut
    BY <1>1, <1>5, <1>9, <1>10 DEF QueueInv
  <2>4. Len(e.queue) <= Backlog
    <3>1. Backlog \in Nat /\ Len(c.queue) <= Backlog
      BY <1>1, CaptureAssumption DEF QueueInv
    <3> QED
      BY <1>2, <1>3, <1>10, <3>1
  <2>5. ASSUME NEW j \in DOMAIN e.queue, NEW k \in DOMAIN e.queue, j < k PROVE e.queue[j].chunk < e.queue[k].chunk
    <3>1. j + 1 \in DOMAIN c.queue /\ k + 1 \in DOMAIN c.queue /\ j + 1 < k + 1
      BY <1>3, <1>10, <1>14, <2>5
    <3>2. c.queue[j + 1].chunk < c.queue[k + 1].chunk
      BY <1>1, <3>1 DEF QueueInv
    <3> QED
      BY <1>10, <1>14, <3>2
  <2>6. ~e.handling => AllCut(e)
    BY <1>1, <1>10, <1>12 DEF QueueInv
  <2> QED
    BY <2>1, <2>2, <2>3, <2>4, <2>5, <2>6 DEF QueueInv
<1>17. ASSUME NEW words, WordsInv(words, c, n), ~(wanted /\ outcome = "heard") PROVE WordsInv(words, e, n)
  <2>1. Heard(e, n) = Heard(c, n)
    BY <1>5, <1>9, <1>10, <1>17 DEF Heard
  <2>2. \A i \in DOMAIN words, k \in DOMAIN e.queue : words[i] < e.queue[k].chunk
    BY <1>10, <1>14, <1>17 DEF WordsInv
  <2> QED
    BY <1>17, <2>1, <2>2 DEF WordsInv
<1>18. ASSUME NEW words \in Seq(Nat), WordsInv(words, c, n), wanted, outcome = "heard"
       PROVE  WordsInv(Append(words, r), e, n)
  <2> DEFINE all == Append(words, r)
  <2>1. /\ DOMAIN words = 1 .. Len(words) /\ Len(words) \in Nat /\ r \in Nat
        /\ \A i \in DOMAIN words : words[i] \in Nat
    BY <1>2, <1>5, <1>18, LenProperties, ElementOfSeq
  <2>2. /\ DOMAIN all = 1 .. Len(words) + 1 /\ all[Len(words) + 1] = r
        /\ \A i \in 1 .. Len(words) : all[i] = words[i]
    BY <2>1, AppendProperties, LenProperties
  <2> HIDE DEF all
  <2>3. \A s \in DOMAIN c.chunk : s \in Heard(e, n) <=> s \in Heard(c, n) \/ s = r
    BY <1>5, <1>9, <1>10, <1>18 DEF Heard
  <2>4. \A i \in DOMAIN words : words[i] \in Heard(c, n) /\ words[i] < r
    BY <1>4, <1>18 DEF WordsInv, r
  <2>5. \A i \in DOMAIN all : IF i \in DOMAIN words THEN all[i] = words[i] ELSE i = Len(words) + 1 /\ all[i] = r
    BY <2>1, <2>2
  <2>6. ASSUME NEW i \in DOMAIN all PROVE all[i] \in Heard(e, n)
    <3>1. \A s \in Heard(c, n) : s \in DOMAIN c.chunk
      BY DEF Heard
    <3> QED
      BY <1>5, <2>3, <2>4, <2>5, <3>1
  <2>7. ASSUME NEW i \in DOMAIN all, NEW j \in DOMAIN all, i < j PROVE all[i] < all[j]
    <3>1. i \in DOMAIN words
      BY <2>1, <2>2, <2>7
    <3>2. CASE j \in DOMAIN words
      BY <1>18, <2>5, <2>7, <3>1, <3>2 DEF WordsInv
    <3>3. CASE j \notin DOMAIN words
      BY <2>4, <2>5, <3>1, <3>3
    <3> QED
      BY <3>2, <3>3
  <2>8. ASSUME NEW i \in DOMAIN all, NEW k \in DOMAIN e.queue PROVE all[i] < e.queue[k].chunk
    <3>1. r < e.queue[k].chunk
      BY <1>10, <1>15
    <3>2. CASE i \in DOMAIN words
      BY <1>10, <1>14, <1>18, <2>5, <3>2 DEF WordsInv
    <3> QED
      BY <2>5, <3>1, <3>2
  <2>9. ASSUME NEW s \in Heard(e, n) PROVE \E i \in DOMAIN all : all[i] = s
    <3>1. s \in DOMAIN c.chunk
      BY <1>10 DEF Heard
    <3>2. CASE s = r
      BY <2>1, <2>2, <3>2
    <3>3. CASE s # r
      <4>1. PICK i \in DOMAIN words : words[i] = s
        BY <1>18, <2>3, <3>1, <3>3 DEF WordsInv
      <4>2. i \in DOMAIN all /\ all[i] = s
        BY <2>1, <2>2, <4>1
      <4> QED
        BY <4>2
    <3> QED
      BY <3>2, <3>3
  <2> QED
    BY <2>6, <2>7, <2>8, <2>9 DEF WordsInv, all
<1>19. AnsweredAs(c, e, n)
  BY <1>10, <1>11, <1>12, <1>13, <1>16 DEF ControllerInv, AnsweredAs, rest
<1> QED
  BY <1>17, <1>18, <1>19 DEF r, Gains

-----------------------------------------------------------------------------
(* The page.  A patient author acts when nothing is under way.             *)
PatientSpeaker == Environment \subseteq {"wake"}

LEMMA IndIs ==
    ASSUME DictationInd
    PROVE  /\ drafted \in Nat /\ drafted <= MaxDrafts
           /\ ControllerInv(capture, drafted) /\ DraftInv(draft, capture, drafted)
           /\ CallInv(calls, draft, capture) /\ MicInv(draft, capture, calls) /\ RoomInv(capture, calls)
           /\ MaxDrafts \in Nat /\ MaxChunks \in Nat /\ MaxSessions \in Nat
           /\ capture.session \in Nat /\ Len(capture.chunk) \in Nat /\ capture \in Controller
<1>1. capture \in Controller /\ MaxDrafts \in Nat /\ MaxChunks \in Nat /\ MaxSessions \in Nat
  BY CaptureAssumption DEF DictationInd, ControllerInv
<1> QED
  BY <1>1, ChunksAre DEF DictationInd, Controller

LEMMA CallIs ==
    ASSUME NEW q, NEW d, NEW c, CallInv(q, d, c), NEW i \in DOMAIN q
    PROVE  /\ i = 1 /\ q = <<q[1]>> /\ q[1] \in ACall /\ AtInv(q[1], d, c) /\ KindInv(q[1], d, c)
           /\ RemoveAt(q, i) = << >>
<1>1. PICK a \in ACall : q = <<a>> /\ AtInv(a, d, c) /\ KindInv(a, d, c)
  BY DEF CallInv
<1>2. i = 1 /\ q[1] = a /\ Len(q) = 1
  BY <1>1
<1>3. RemoveAt(q, 1) = SubSeq(q, 1, 0) \o SubSeq(q, 2, 1)
  BY <1>2 DEF RemoveAt
<1>4. SubSeq(q, 1, 0) = << >> /\ SubSeq(q, 2, 1) = << >>
  BY SubSeqEmpty
<1>5. RemoveAt(q, i) = << >>
  BY <1>2, <1>3, <1>4
<1> QED
  BY <1>1, <1>2, <1>5

LEMMA OneCall ==
    ASSUME NEW a \in ACall, NEW d, NEW c, AtInv(a, d, c), KindInv(a, d, c)
    PROVE  CallInv(<<a>>, d, c)
BY DEF CallInv

LEMMA NoCall == \A d, c : CallInv(<< >>, d, c) /\ ~IsPause(<< >>) /\ ~IsWake(<< >>) /\ ~IsStart(<< >>)
BY DEF CallInv, IsPause, IsWake, IsStart

LEMMA CallKinds == \A a : /\ <<a>> # << >> /\ <<a>>[1] = a
                          /\ IsPause(<<a>>) <=> a.kind = "pause"
                          /\ IsWake(<<a>>) <=> a.at = "wake"
                          /\ IsStart(<<a>>) <=> a.kind = "start"
BY DEF IsPause, IsWake, IsStart

LEMMA Acts ==
    ASSUME PatientSpeaker, DictationInd, MayAct
    PROVE  calls = << >> /\ \A r \in DOMAIN capture.chunk : ~Ending(capture, r)
BY DEF PatientSpeaker, MayAct, Ending

LEMMA CallMade ==
    ASSUME NEW kind \in Kinds, NEW at \in {"media", "wake", "stop", "queue", "drain", "clean"}, NEW on \in Nat,
           NEW a, a = Call(kind, at, on)
    PROVE  a \in ACall /\ a.kind = kind /\ a.at = at /\ a.on = on
<1>1. << >> \in Seq(Nat)
  BY EmptySeq
<1> QED
  BY <1>1 DEF Call, ACall

(* The draft.                                                              *)
LEMMA StatusIs ==
    ASSUME NoneIsNothing, NEW d \in {None} \cup Draft, NEW status \in State, NEW reason \in Reason,
           NEW e, e = WithStatus(d, status, reason)
    PROVE  /\ e \in {None} \cup Draft
           /\ e = None <=> d = None
           /\ d # None => /\ e.status = status /\ e.id = d.id /\ e.words = d.words /\ e.content = d.content
<1>1. CASE d = None
  BY <1>1 DEF WithStatus
<1>2. CASE d # None
  <2>1. e = [d EXCEPT !.status = status, !.reason = reason] /\ d \in Draft
    BY <1>2 DEF WithStatus
  <2>2. e \in Draft /\ e.status = status /\ e.id = d.id /\ e.words = d.words /\ e.content = d.content
    BY <2>1 DEF Draft
  <2>3. e # None
    BY <2>2, DraftIsSome
  <2> QED
    BY <1>2, <2>2, <2>3
<1> QED
  BY <1>1, <1>2

Grace(d) == IF d = None THEN 2 ELSE IF d.status \in {"interrupted", "review"} THEN 1 ELSE 0

LEMMA DraftIs ==
    ASSUME NEW d, NEW c, NEW n, DraftInv(d, c, n)
    PROVE  /\ d \in {None} \cup Draft
           /\ d # None => d \in Draft /\ d.id = n /\ d.content = d.words /\ WordsInv(d.words, c, n)
                          /\ d.words \in Seq(Nat) /\ d.status \in State /\ d.reason \in Reason
           /\ d = None \/ d.status \notin {"recording", "processing"} => AllCut(c)
           /\ c.session <= MaxSessions + Grace(d)
<1>1. d \in {None} \cup Draft
  BY DEF DraftInv
<1>2. d # None => d \in Draft /\ d.words \in Seq(Nat) /\ d.status \in State /\ d.reason \in Reason
  BY <1>1 DEF Draft
<1> QED
  BY <1>1, <1>2 DEF DraftInv, Grace

(* The draft keeps its words, and the controller theirs.                   *)
LEMMA DraftThen ==
    ASSUME NEW d, NEW c, NEW n, DraftInv(d, c, n),
           NEW f \in {None} \cup Draft, NEW e,
           f # None => d # None /\ f.id = d.id /\ f.words = d.words /\ f.content = d.words,
           \A words : WordsInv(words, c, n) => WordsInv(words, e, n),
           f = None \/ f.status \notin {"recording", "processing"} => AllCut(e),
           e.session <= MaxSessions + Grace(f)
    PROVE  DraftInv(f, e, n)
BY DEF DraftInv, Grace

LEMMA RoomIs ==
    ASSUME NEW c, NEW q, Len(c.chunk) \in Nat, MaxChunks \in Nat
    PROVE  RoomInv(c, q) <=>
             /\ Len(c.chunk) <= MaxChunks
             /\ IsStart(q) \/ c.continuing => Len(c.chunk) + 1 <= MaxChunks
             /\ IsStart(q) /\ c.continuing => Len(c.chunk) + 2 <= MaxChunks
<1> DEFINE n == Len(c.chunk)
<1>1. CASE IsStart(q) /\ c.continuing
  BY <1>1 DEF RoomInv
<1>2. CASE IsStart(q) /\ ~c.continuing
  BY <1>2 DEF RoomInv
<1>3. CASE ~IsStart(q) /\ c.continuing
  BY <1>3 DEF RoomInv
<1>4. CASE ~IsStart(q) /\ ~c.continuing
  BY <1>4 DEF RoomInv
<1> QED
  BY <1>1, <1>2, <1>3, <1>4

(* A call of start begins a session: what was queued belongs to earlier    *)
(* ones.                                                                   *)
BegunAs(c, e, m) ==
    /\ ControllerInv(e, m) /\ Closed(e) /\ AllCut(e) /\ e.chunk = c.chunk /\ e.queue = c.queue
    /\ e.session = c.session + 1 /\ e.handling /\ e.stream = None /\ ~e.continuing /\ ~c.continuing
    /\ \A k \in DOMAIN e.queue : e.queue[k].session # e.session

LEMMA SessionInv ==
    ASSUME NEW c, NEW n \in Nat, NEW m \in Nat, n <= m, ControllerInv(c, n), Closed(c), AllCut(c), c.stream = None,
           NEW e, e = [c EXCEPT !.session = @ + 1, !.handling = TRUE]
    PROVE  BegunAs(c, e, m)
<1>1. c \in Controller /\ RecorderInv(c, n) /\ QueueInv(c, n)
  BY DEF ControllerInv
<1>2. /\ e \in Controller /\ e.session = c.session + 1 /\ e.handling /\ e.chunk = c.chunk /\ e.queue = c.queue
      /\ e.stream = c.stream /\ e.live = c.live /\ e.listening = c.listening /\ e.recorder = c.recorder
      /\ e.continuing = c.continuing /\ e.checkpoint = c.checkpoint /\ e.armed = c.armed
  <2>1. c.session \in Nat
    BY <1>1 DEF Controller
  <2>2. PICK s \in Nat : s = c.session + 1
    BY <2>1
  <2>3. PICK d : d = [c EXCEPT !.session = s]
    OBVIOUS
  <2>4. e = [d EXCEPT !.handling = TRUE]
    BY <2>2, <2>3
  <2>5. /\ d \in Controller /\ d.session = s /\ d.chunk = c.chunk /\ d.queue = c.queue
        /\ d.stream = c.stream /\ d.live = c.live /\ d.listening = c.listening /\ d.recorder = c.recorder
        /\ d.continuing = c.continuing /\ d.checkpoint = c.checkpoint /\ d.armed = c.armed
    BY <1>1, <2>3 DEF Controller
  <2>6. /\ e \in Controller /\ e.session = d.session /\ e.handling /\ e.chunk = d.chunk /\ e.queue = d.queue
        /\ e.stream = d.stream /\ e.live = d.live /\ e.listening = d.listening /\ e.recorder = d.recorder
        /\ e.continuing = d.continuing /\ e.checkpoint = d.checkpoint /\ e.armed = d.armed
    BY <2>4, <2>5 DEF Controller
  <2> QED
    BY <2>2, <2>5, <2>6
<1>3. ~c.continuing
  BY <1>1 DEF RecorderInv
<1>4. Closed(e) /\ AllCut(e)
  BY <1>2 DEF Closed, AllCut, Running, Ending
<1>5. RecorderInv(e, m)
  <2>1. Fresh(e, m)
    BY <1>4 DEF Fresh, Closed
  <2> QED
    BY <2>1, <1>1, <1>2, <1>3, <1>4 DEF RecorderInv, Closed, Running, Ending
<1>6. ASSUME NEW k \in DOMAIN e.queue
      PROVE  /\ e.queue[k].chunk \in DOMAIN e.chunk /\ e.chunk[e.queue[k].chunk].state = "queued"
             /\ e.queue[k].session <= e.session /\ e.queue[k].session # e.session
             /\ e.chunk[e.queue[k].chunk].cut
  <2> DEFINE j == c.queue[k]
  <2>1. j \in Job /\ j.chunk \in DOMAIN c.chunk /\ c.chunk[j.chunk].state = "queued" /\ j.session <= c.session
    BY <1>1, <1>2, <1>6, JobsAre DEF QueueInv
  <2>2. c.chunk[j.chunk].cut
    BY <2>1 DEF AllCut, Unfinished
  <2>3. j.session \in Nat /\ c.session \in Nat
    BY <2>1, <1>1 DEF Job, Controller
  <2>4. j.session <= e.session /\ j.session # e.session
    BY <2>1, <2>3, <1>2
  <2> QED
    BY <2>1, <2>2, <2>4, <1>2
<1>7. \A r \in DOMAIN e.chunk : /\ e.chunk[r].draft <= m
                                /\ e.chunk[r].state = "dropped" => e.chunk[r].cut
  <2> SUFFICES ASSUME NEW r \in DOMAIN c.chunk
               PROVE  c.chunk[r].draft <= m /\ (c.chunk[r].state = "dropped" => c.chunk[r].cut)
    BY <1>2
  <2>1. c.chunk[r].draft <= n /\ (c.chunk[r].state = "dropped" => c.chunk[r].cut)
    BY <1>1 DEF QueueInv
  <2>2. c.chunk[r].draft \in Nat
    BY <1>1, ChunksAre DEF Chunk
  <2> QED
    BY <2>1, <2>2
<1>8. QueueInv(e, m)
  <2>1. /\ Len(e.queue) <= Backlog
        /\ \A j, k \in DOMAIN e.queue : j < k => e.queue[j].chunk < e.queue[k].chunk
        /\ \A r \in DOMAIN e.chunk : e.chunk[r].state = "queued" => \E k \in DOMAIN e.queue : e.queue[k].chunk = r
    BY <1>1, <1>2 DEF QueueInv
  <2> QED
    BY <2>1, <1>2, <1>6, <1>7 DEF QueueInv
<1> QED
  BY <1>1, <1>2, <1>3, <1>4, <1>5, <1>6, <1>8 DEF ControllerInv, BegunAs

(* A start asks for the microphone.                                        *)
Asked(c, d) ==
    /\ calls' = <<Call("start", "media", c.session + 1)>>
    /\ CallInv(calls', d, capture') /\ MicInv(d, capture', calls') /\ RoomInv(capture', calls')

LEMMA StartInv ==
    ASSUME DictationInd, PatientSpeaker, NoneIsNothing, MayAct, Start,
           draft = None \/ draft.status \in {"paused", "interrupted"},
           NEW m \in Nat, drafted <= m
    PROVE  /\ ControllerInv(capture', m) /\ AllCut(capture')
           /\ capture'.chunk = capture.chunk /\ capture'.queue = capture.queue /\ capture'.session <= MaxSessions
           /\ \A d \in Draft : d.status \in {"requesting", "paused", "interrupted"} => Asked(capture, d)
<1>1. /\ drafted \in Nat /\ ControllerInv(capture, drafted) /\ DraftInv(draft, capture, drafted)
      /\ CallInv(calls, draft, capture) /\ MicInv(draft, capture, calls) /\ RoomInv(capture, calls)
      /\ MaxSessions \in Nat /\ capture.session \in Nat /\ Len(capture.chunk) \in Nat /\ MaxChunks \in Nat
  BY IndIs
<1>2. calls = << >> /\ \A r \in DOMAIN capture.chunk : ~Ending(capture, r)
  BY Acts
<1>3. AllCut(capture)
  BY <1>1 DEF DraftInv
<1>4. capture.stream = None
  BY <1>1, <1>2, NoCall DEF MicInv
<1>5. Closed(capture)
  BY <1>1, <1>2, <1>4 DEF Closed, ControllerInv, RecorderInv
<1>6. PICK e : e = capture'
  OBVIOUS
<1>7. e = [capture EXCEPT !.session = @ + 1, !.handling = TRUE]
  BY <1>6 DEF Start
<1>a. BegunAs(capture, e, m)
  BY <1>1, <1>3, <1>4, <1>5, <1>7, SessionInv
<1>8. /\ ControllerInv(e, m) /\ Closed(e) /\ AllCut(e) /\ e.chunk = capture.chunk /\ e.queue = capture.queue
      /\ e.session = capture.session + 1 /\ e.handling /\ e.stream = None /\ ~e.continuing /\ ~capture.continuing
      /\ \A k \in DOMAIN e.queue : e.queue[k].session # e.session
  BY <1>a DEF BegunAs
<1>9. capture.session < MaxSessions
  BY DEF Start
<1>10. PICK a : a = Call("start", "media", capture.session + 1)
  OBVIOUS
<1>11. calls' = <<a>>
  BY <1>2, <1>10 DEF Start
<1>12. a \in ACall /\ a.kind = "start" /\ a.at = "media" /\ a.on = e.session
  BY <1>1, <1>8, <1>10, CallMade DEF Kinds
<1>13. Len(e.chunk) + 1 <= MaxChunks
  <2>1. Opening = {}
    BY <1>2 DEF Opening
  <2>2. Cardinality(Opening) = 0
    BY <2>1, FS_EmptySet
  <2> QED
    BY <2>2, <1>1, <1>8 DEF Start, MayRecord
<1>14. ASSUME NEW d \in Draft, d.status \in {"requesting", "paused", "interrupted"} PROVE Asked(capture, d)
  <2>0. d # None
    BY DraftIsSome
  <2>1. AtInv(a, d, e)
    BY <1>8, <1>12 DEF AtInv
  <2>2. a.on \in 1 .. MaxSessions /\ a.on <= e.session
    BY <1>1, <1>8, <1>9, <1>12
  <2>3. KindInv(a, d, e)
    BY <2>0, <2>2, <1>8, <1>12, <1>14 DEF KindInv
  <2>4. CallInv(<<a>>, d, e)
    BY <2>1, <2>3, <1>12, OneCall
  <2>5. MicInv(d, e, <<a>>)
    BY <1>8, <1>14 DEF MicInv
  <2>6. RoomInv(e, <<a>>)
    BY <1>1, <1>8, <1>13, RoomIs
  <2> QED
    BY <2>4, <2>5, <2>6, <1>6, <1>10, <1>11 DEF Asked
<1>15. e.session <= MaxSessions
  BY <1>1, <1>8, <1>9
<1> QED
  BY <1>6, <1>8, <1>14, <1>15

LEMMA StartDictationInd == ASSUME DictationInd, PatientSpeaker, NoneIsNothing, StartDictation PROVE DictationInd'
<1>1. /\ drafted \in Nat /\ ControllerInv(capture, drafted) /\ MaxDrafts \in Nat /\ MaxSessions \in Nat
      /\ capture.session \in Nat /\ capture \in Controller
  BY IndIs
<1>2. PICK n : n = drafted + 1
  OBVIOUS
<1>3. /\ n \in Nat /\ drafted' = n /\ n \in 0 .. MaxDrafts /\ n # 0
      /\ draft' = [id |-> n, status |-> "requesting", reason |-> None, words |-> << >>, content |-> << >>]
  BY <1>1, <1>2 DEF StartDictation
<1>4. /\ ControllerInv(capture', n) /\ AllCut(capture')
      /\ capture'.chunk = capture.chunk /\ capture'.session <= MaxSessions
      /\ \A d \in Draft : d.status \in {"requesting", "paused", "interrupted"} => Asked(capture, d)
  BY <1>1, <1>2, <1>3, StartInv DEF StartDictation
<1>5. /\ draft' \in Draft /\ draft'.id = n /\ draft'.status = "requesting"
      /\ draft'.words = << >> /\ draft'.content = << >>
  <2>1. << >> \in Seq(Nat)
    BY EmptySeq
  <2> QED
    BY <1>3, <2>1 DEF Draft, State, Reason
<1>6. Asked(capture, draft')
  BY <1>4, <1>5
<1>7. Heard(capture', n) = {}
  <2> SUFFICES ASSUME NEW r \in DOMAIN capture.chunk PROVE capture.chunk[r].draft # n
    BY <1>4 DEF Heard
  <2>1. capture.chunk[r].draft <= drafted
    BY <1>1 DEF ControllerInv, QueueInv
  <2>2. capture.chunk[r].draft \in Nat
    BY <1>1, ChunksAre DEF Chunk
  <2> QED
    BY <1>1, <1>2, <2>1, <2>2
<1>8. WordsInv(draft'.words, capture', n)
  <2>1. DOMAIN draft'.words = {}
    BY <1>5
  <2> QED
    BY <1>7, <2>1 DEF WordsInv
<1>9. capture'.session <= MaxSessions + 0
  BY <1>4, <1>1
<1>10. DraftInv(draft', capture', n)
  BY <1>4, <1>5, <1>8, <1>9, DraftIsSome DEF DraftInv
<1> QED
  BY <1>3, <1>4, <1>6, <1>10 DEF DictationInd, Asked

LEMMA ResumeDictationInd == ASSUME DictationInd, PatientSpeaker, NoneIsNothing, ResumeDictation PROVE DictationInd'
<1>1. /\ drafted \in Nat /\ ControllerInv(capture, drafted) /\ DraftInv(draft, capture, drafted)
      /\ MaxSessions \in Nat /\ capture.session \in Nat
  BY IndIs
<1>2. draft' = draft /\ drafted' = drafted /\ draft # None /\ draft.status \in {"paused", "interrupted"}
  BY DEF ResumeDictation
<1>3. /\ ControllerInv(capture', drafted) /\ AllCut(capture')
      /\ capture'.chunk = capture.chunk /\ capture'.queue = capture.queue /\ capture'.session <= MaxSessions
      /\ \A d \in Draft : d.status \in {"requesting", "paused", "interrupted"} => Asked(capture, d)
  BY <1>1, <1>2, StartInv DEF ResumeDictation
<1>4. draft \in Draft /\ draft.id = drafted /\ draft.content = draft.words
  BY <1>1, <1>2, DraftIs
<1>5. Asked(capture, draft)
  BY <1>2, <1>3, <1>4
<1>6. \A words : WordsInv(words, capture, drafted) => WordsInv(words, capture', drafted)
  <2>1. Heard(capture', drafted) = Heard(capture, drafted)
    BY <1>3 DEF Heard
  <2> QED
    BY <2>1, <1>3, WordsSame
<1>7. capture'.session <= MaxSessions + Grace(draft)
  <2>1. capture'.session \in Nat
    BY <1>3 DEF ControllerInv, Controller
  <2>2. Grace(draft) \in Nat
    BY DEF Grace
  <2> QED
    BY <1>1, <1>3, <2>1, <2>2
<1>8. DraftInv(draft, capture', drafted)
  BY <1>1, <1>3, <1>4, <1>6, <1>7, DraftThen
<1> QED
  BY <1>2, <1>3, <1>5, <1>8 DEF DictationInd, Asked

(* A call goes on to await something else.                                 *)
Awaiting(q, a, at) == \E b \in ACall : q = <<b>> /\ b.kind = a.kind /\ b.at = at /\ b.on = a.on
AwaitingLast(q, a, at, on) == \E b \in ACall : q = <<b>> /\ b.kind = a.kind /\ b.at = at /\ b.on = on
AwaitingText(q, a, at, text) ==
    \E b \in ACall : q = <<b>> /\ b.kind = a.kind /\ b.at = at /\ b.on = a.on /\ b.text = text

LEMMA CallAt ==
    ASSUME NEW a \in ACall, NEW q, q = <<a>>, NEW at \in {"media", "wake", "stop", "queue", "drain", "clean"},
           NEW on \in Nat, NEW text \in Seq(Nat)
    PROVE  /\ Awaiting([q EXCEPT ![1].at = at], a, at)
           /\ AwaitingLast([q EXCEPT ![1].at = at, ![1].on = on], a, at, on)
           /\ AwaitingText([q EXCEPT ![1].at = at, ![1].text = text], a, at, text)
<1>1. q \in Seq(ACall) /\ Len(q) = 1 /\ q[1] = a
  OBVIOUS
<1>2. ASSUME NEW b \in ACall PROVE [q EXCEPT ![1] = b] = <<b>>
  <2>1. [q EXCEPT ![1] = b] \in Seq(ACall) /\ Len([q EXCEPT ![1] = b]) = 1 /\ [q EXCEPT ![1] = b][1] = b
    BY <1>1, ExceptSeq
  <2> QED
    BY <2>1
<1>3. PICK b : b = [a EXCEPT !.at = at]
  OBVIOUS
<1>4. b \in ACall /\ b.kind = a.kind /\ b.at = at /\ b.on = a.on /\ b.text = a.text
  BY <1>3 DEF ACall
<1>5. PICK d : d = [b EXCEPT !.on = on]
  OBVIOUS
<1>6. d \in ACall /\ d.kind = a.kind /\ d.at = at /\ d.on = on
  BY <1>4, <1>5 DEF ACall
<1>7. PICK e : e = [b EXCEPT !.text = text]
  OBVIOUS
<1>8. e \in ACall /\ e.kind = a.kind /\ e.at = at /\ e.on = a.on /\ e.text = text
  BY <1>4, <1>7 DEF ACall
<1>9. [q EXCEPT ![1].at = at] = <<b>>
  BY <1>1, <1>2, <1>3, <1>4
<1>10. PICK p : p = <<b>>
  OBVIOUS
<1>11. p = [q EXCEPT ![1].at = at]
  BY <1>9, <1>10
<1>12. \A k \in ACall : [p EXCEPT ![1] = k] = <<k>>
  <2> SUFFICES ASSUME NEW k \in ACall PROVE [p EXCEPT ![1] = k] = <<k>>
    OBVIOUS
  <2>1. p \in Seq(ACall) /\ Len(p) = 1
    BY <1>4, <1>10
  <2>2. [p EXCEPT ![1] = k] \in Seq(ACall) /\ Len([p EXCEPT ![1] = k]) = 1 /\ [p EXCEPT ![1] = k][1] = k
    BY <2>1, ExceptSeq
  <2> QED
    BY <2>2
<1>13. p[1] = b
  BY <1>10
<1>14. [p EXCEPT ![1].on = on] = <<d>> /\ [p EXCEPT ![1].text = text] = <<e>>
  BY <1>5, <1>6, <1>7, <1>8, <1>12, <1>13
<1>15. /\ [q EXCEPT ![1].at = at, ![1].on = on] = [p EXCEPT ![1].on = on]
       /\ [q EXCEPT ![1].at = at, ![1].text = text] = [p EXCEPT ![1].text = text]
  BY <1>11
<1> QED
  BY <1>4, <1>6, <1>8, <1>9, <1>14, <1>15 DEF Awaiting, AwaitingLast, AwaitingText

(* The recorder starts.                                                    *)
LEMMA StartedInd ==
    ASSUME DictationInd, NoneIsNothing, draft # None, IsStart(calls),
           NEW c, ControllerInv(c, drafted), Closed(c), c.stream # None, c.handling,
           c.chunk = capture.chunk, c.queue = capture.queue, c.session = capture.session, c.session <= MaxSessions,
           capture' = StartRecorder(c), draft' = Started(draft), calls' = << >>, drafted' = drafted
    PROVE  DictationInd'
<1>1. /\ drafted \in Nat /\ ControllerInv(capture, drafted) /\ DraftInv(draft, capture, drafted)
      /\ RoomInv(capture, calls) /\ MaxSessions \in Nat /\ MaxChunks \in Nat /\ Len(capture.chunk) \in Nat
      /\ capture.session \in Nat /\ drafted \in 0 .. MaxDrafts
  BY IndIs DEF DictationInd
<1>2. PICK e : e = capture'
  OBVIOUS
<1>3. /\ ControllerInv(e, drafted) /\ Heard(e, drafted) = Heard(c, drafted) /\ e.queue = c.queue
      /\ Recording(e) /\ Len(e.chunk) = Len(c.chunk) + 1
      /\ e.session = c.session /\ ~e.continuing
  BY <1>1, <1>2, StartRecorderInv
<1>4. draft \in Draft /\ draft.id = drafted /\ draft.content = draft.words /\ draft \in {None} \cup Draft
  BY <1>1, DraftIs
<1>5. PICK d : d = Started(draft)
  OBVIOUS
<1>6. d \in Draft /\ d # None /\ d.status = "recording" /\ d.id = draft.id /\ d.words = draft.words /\ d.content = draft.words
  <2>1. d = WithStatus(draft, "recording", None) /\ "recording" \in State /\ None \in Reason
    BY <1>5 DEF Started, State, Reason
  <2> QED
    BY <2>1, <1>4, StatusIs
<1>7. \A words : WordsInv(words, capture, drafted) => WordsInv(words, e, drafted)
  <2>1. Heard(e, drafted) = Heard(capture, drafted)
    BY <1>3 DEF Heard
  <2> QED
    BY <2>1, <1>3, WordsSame
<1>8. e.session <= MaxSessions + Grace(d)
  BY <1>1, <1>3, <1>6 DEF Grace
<1>9. DraftInv(d, e, drafted)
  BY <1>1, <1>4, <1>6, <1>7, <1>8, DraftThen
<1>10. MicInv(d, e, << >>)
  BY <1>3, <1>6 DEF MicInv
<1>11. RoomInv(e, << >>)
  BY <1>1, <1>3, RoomIs, NoCall
<1> QED
  BY <1>1, <1>2, <1>3, <1>5, <1>9, <1>10, <1>11, NoCall DEF DictationInd

(* Nothing has changed but that the call has returned.                     *)
LEMMA ReturnedInd ==
    ASSUME DictationInd, calls' = << >>, UNCHANGED <<draft, drafted, capture>>,
           capture.stream = None, draft # None => draft.status # "recording"
    PROVE  DictationInd'
<1>1. /\ drafted \in 0 .. MaxDrafts /\ ControllerInv(capture, drafted) /\ DraftInv(draft, capture, drafted)
      /\ RoomInv(capture, calls) /\ MaxChunks \in Nat /\ Len(capture.chunk) \in Nat
  BY IndIs DEF DictationInd
<1>2. MicInv(draft, capture, << >>)
  BY DEF MicInv
<1>3. RoomInv(capture, << >>)
  BY <1>1, RoomIs, NoCall
<1> QED
  BY <1>1, <1>2, <1>3, NoCall DEF DictationInd

LEMMA AskingIs ==
    ASSUME DictationInd, NEW i \in DOMAIN calls, calls[i].kind = "start"
    PROVE  /\ IsStart(calls) /\ Closed(capture) /\ ~IsPause(calls)
           /\ calls[i].on \in Nat /\ calls[i].on <= MaxSessions
           /\ draft # None => draft.status \in {"requesting", "paused", "interrupted"}
           /\ calls[i].on = capture.session =>
                 /\ draft # None /\ capture.handling
                 /\ \A k \in DOMAIN capture.queue : capture.queue[k].session # capture.session
<1>1. CallInv(calls, draft, capture) /\ MaxSessions \in Nat
  BY IndIs
<1>2. /\ i = 1 /\ calls = <<calls[1]>> /\ calls[1] \in ACall
      /\ AtInv(calls[1], draft, capture) /\ KindInv(calls[1], draft, capture)
  BY <1>1, CallIs
<1>3. calls[1].at # "stop"
  BY <1>2 DEF AtInv
<1>4. Closed(capture)
  BY <1>2, <1>3 DEF AtInv
<1>5. IsStart(calls) /\ ~IsPause(calls)
  BY <1>2, CallKinds
<1> QED
  BY <1>1, <1>2, <1>4, <1>5 DEF KindInv

LEMMA MediaIs ==
    ASSUME DictationInd, NEW i \in DOMAIN calls, calls[i].at = "media"
    PROVE  calls[i].kind = "start" /\ capture.stream = None /\ (Returned(i) => calls' = << >>)
<1>1. /\ i = 1 /\ AtInv(calls[1], draft, capture) /\ RemoveAt(calls, i) = << >>
  BY CallIs, IndIs
<1> QED
  BY <1>1 DEF AtInv, Returned

LEMMA GrantedInd ==
    ASSUME DictationInd, NoneIsNothing, NEW i \in DOMAIN calls, Granted(i)
    PROVE  DictationInd'
<1>1. /\ drafted \in 0 .. MaxDrafts /\ drafted \in Nat /\ ControllerInv(capture, drafted)
      /\ DraftInv(draft, capture, drafted)
      /\ RoomInv(capture, calls) /\ MaxSessions \in Nat /\ MaxChunks \in Nat /\ Len(capture.chunk) \in Nat
      /\ capture.session \in Nat /\ CallInv(calls, draft, capture)
  BY IndIs DEF DictationInd
<1>2. calls[i].kind = "start" /\ capture.stream = None /\ (Returned(i) => calls' = << >>)
  BY MediaIs DEF Granted
<1>3. /\ IsStart(calls) /\ Closed(capture) /\ ~IsPause(calls)
      /\ calls[i].on \in Nat /\ calls[i].on <= MaxSessions
      /\ draft # None => draft.status \in {"requesting", "paused", "interrupted"}
      /\ calls[i].on = capture.session =>
            /\ draft # None /\ capture.handling
            /\ \A k \in DOMAIN capture.queue : capture.queue[k].session # capture.session
  BY <1>2, AskingIs
<1>4. CASE ~Current(i)
  <2>1. calls' = << >> /\ UNCHANGED <<draft, drafted, capture>>
    BY <1>2, <1>4 DEF Granted
  <2> QED
    BY <2>1, <1>2, <1>3, ReturnedInd
<1>5. CASE Current(i)
  <2>1. PICK s \in Nat : s = calls[i].on /\ s = capture.session
    BY <1>3, <1>5 DEF Current
  <2>2. PICK c : c = [capture EXCEPT !.stream = s, !.live = @ \cup {s}, !.listening = TRUE]
    OBVIOUS
  <2>3. capture.handling /\ draft # None
    BY <1>3, <2>1
  <2>4. /\ ControllerInv(c, drafted) /\ Closed(c) /\ c.chunk = capture.chunk /\ c.queue = capture.queue
        /\ c.session = capture.session /\ c.handling /\ c.stream = s /\ ~c.continuing
    <3>1. OpenedAs(capture, c, drafted, s)
      BY <1>1, <1>2, <1>3, <2>2, <2>3, OpenedInv
    <3> QED
      BY <3>1 DEF OpenedAs
  <2>5. c.stream # None
    BY <2>1, <2>4 DEF NoneIsNothing
  <2>6. /\ drafted' = drafted
        /\ \/ capture' = c /\ calls' = [calls EXCEPT ![i].at = "wake"] /\ draft' = draft
           \/ capture' = StartRecorder(c) /\ draft' = Started(draft) /\ Returned(i)
    BY <1>5, <2>1, <2>2 DEF Granted
  <2>7. CASE capture' = StartRecorder(c) /\ draft' = Started(draft) /\ Returned(i)
    BY <1>2, <1>3, <2>1, <2>3, <2>4, <2>5, <2>6, <2>7, StartedInd
  <2>8. CASE capture' = c /\ calls' = [calls EXCEPT ![i].at = "wake"] /\ draft' = draft
    <3>1. i = 1 /\ calls = <<calls[1]>> /\ calls[1] \in ACall
      BY <1>1, CallIs
    <3>2. << >> \in Seq(Nat) /\ 0 \in Nat
      BY EmptySeq
    <3>3. PICK b \in ACall : calls' = <<b>> /\ b.kind = "start" /\ b.at = "wake" /\ b.on = s
      <4>1. calls' = [calls EXCEPT ![1].at = "wake"]
        BY <2>8, <3>1
      <4>2. Awaiting(calls', calls[1], "wake")
        BY <4>1, <3>1, <3>2, CallAt
      <4> QED
        BY <4>2, <1>2, <2>1, <3>1 DEF Awaiting
    <3>4. AtInv(b, draft, c)
      BY <2>1, <2>3, <2>4, <2>5, <3>3 DEF AtInv
    <3>5. KindInv(b, draft, c)
      <4>1. b.on \in 1 .. MaxSessions
        <5>1. calls[1] \in ACall /\ KindInv(calls[1], draft, capture)
          BY <1>1, CallIs
        <5> QED
          BY <5>1, <1>2, <2>1, <3>1, <3>3 DEF KindInv
      <4> QED
        BY <1>1, <1>3, <2>1, <2>3, <2>4, <3>3, <4>1 DEF KindInv
    <3>6. CallInv(<<b>>, draft, c)
      BY <3>4, <3>5, OneCall
    <3>7. MicInv(draft, c, <<b>>)
      BY <1>3, <2>3, <3>3, CallKinds DEF MicInv
    <3>8. RoomInv(c, <<b>>)
      <4>1. Len(capture.chunk) + 1 <= MaxChunks
        BY <1>1, <1>3, RoomIs
      <4>2. Len(c.chunk) \in Nat /\ Len(c.chunk) <= MaxChunks /\ Len(c.chunk) + 1 <= MaxChunks
        BY <1>1, <2>4, <4>1
      <4> QED
        BY <1>1, <2>4, <4>2, RoomIs
    <3>9. DraftInv(draft, c, drafted)
      <4>1. Heard(c, drafted) = Heard(capture, drafted)
        BY <2>4 DEF Heard
      <4>2. \A words : WordsInv(words, capture, drafted) => WordsInv(words, c, drafted)
        BY <2>4, <4>1, WordsSame
      <4>3. draft \in {None} \cup Draft /\ draft.content = draft.words /\ AllCut(capture)
            /\ capture.session <= MaxSessions + Grace(draft)
        BY <1>1, <1>3, <2>3, DraftIs
      <4>4. AllCut(c) /\ c.session <= MaxSessions + Grace(draft)
        BY <2>4, <4>3 DEF AllCut
      <4> QED
        BY <1>1, <2>3, <4>2, <4>3, <4>4, DraftThen
    <3> QED
      BY <1>1, <2>4, <2>6, <2>8, <3>3, <3>6, <3>7, <3>8, <3>9 DEF DictationInd
  <2> QED
    BY <2>6, <2>7, <2>8
<1> QED
  BY <1>4, <1>5

LEMMA DeniedInd ==
    ASSUME DictationInd, NoneIsNothing, NEW i \in DOMAIN calls, Denied(i)
    PROVE  DictationInd'
<1>1. /\ drafted \in 0 .. MaxDrafts /\ ControllerInv(capture, drafted) /\ DraftInv(draft, capture, drafted)
      /\ RoomInv(capture, calls) /\ MaxSessions \in Nat /\ MaxChunks \in Nat /\ Len(capture.chunk) \in Nat
      /\ capture.session \in Nat
  BY IndIs DEF DictationInd
<1>2. calls[i].kind = "start" /\ capture.stream = None /\ calls' = << >>
  BY MediaIs DEF Denied
<1>3. /\ draft # None => draft.status \in {"requesting", "paused", "interrupted"}
      /\ calls[i].on = capture.session => draft # None
  BY <1>2, AskingIs
<1>4. CASE ~Current(i)
  <2>1. UNCHANGED <<draft, drafted, capture>>
    BY <1>4 DEF Denied
  <2> QED
    BY <2>1, <1>2, <1>3, ReturnedInd
<1>5. CASE Current(i)
  <2>1. draft # None
    BY <1>3, <1>5 DEF Current
  <2>2. /\ draft \in {None} \cup Draft /\ draft.id = drafted /\ draft.content = draft.words /\ AllCut(capture)
        /\ capture.session <= MaxSessions + Grace(draft)
    BY <1>1, <1>3, <2>1, DraftIs
  <2>3. PICK d : d = draft'
    OBVIOUS
  <2>4. d = WithStatus(draft, "interrupted", "transcription_failure") /\ UNCHANGED <<drafted, capture>>
    BY <1>5, <2>3 DEF Denied, Interrupted
  <2>5. "interrupted" \in State /\ "transcription_failure" \in Reason
    BY DEF State, Reason
  <2>6. /\ d \in {None} \cup Draft /\ d # None /\ d.status = "interrupted"
        /\ d.id = draft.id /\ d.words = draft.words /\ d.content = draft.words
    BY <2>1, <2>2, <2>4, <2>5, StatusIs
  <2>7. capture.session <= MaxSessions + Grace(d)
    BY <1>1, <2>1, <2>2, <2>6 DEF Grace
  <2>8. DraftInv(d, capture, drafted)
    BY <1>1, <2>1, <2>2, <2>6, <2>7, DraftThen
  <2>9. MicInv(d, capture, << >>)
    BY <1>2, <2>6 DEF MicInv
  <2>10. RoomInv(capture, << >>)
    BY <1>1, RoomIs, NoCall
  <2> QED
    BY <1>1, <1>2, <2>3, <2>4, <2>8, <2>9, <2>10, NoCall DEF DictationInd
<1> QED
  BY <1>4, <1>5

LEMMA WokenInd ==
    ASSUME DictationInd, NoneIsNothing, NEW i \in DOMAIN calls, Woken(i)
    PROVE  DictationInd'
<1>1. /\ ControllerInv(capture, drafted) /\ CallInv(calls, draft, capture)
      /\ calls[i].at = "wake" /\ capture' = StartRecorder(capture) /\ draft' = Started(draft)
      /\ drafted' = drafted /\ drafted \in Nat
  BY IndIs DEF Woken
<1>2. i = 1 /\ AtInv(calls[1], draft, capture) /\ RemoveAt(calls, i) = << >>
  BY <1>1, CallIs
<1>3. /\ calls[i].kind = "start" /\ calls' = << >>
      /\ IF draft = None THEN capture.stream = None ELSE calls[i].on = capture.session /\ capture.stream # None
  BY <1>1, <1>2 DEF AtInv, Woken, Returned
<1>4. /\ IsStart(calls) /\ Closed(capture) /\ calls[i].on <= MaxSessions
      /\ draft # None => draft.status \in {"requesting", "paused", "interrupted"}
      /\ calls[i].on = capture.session => draft # None /\ capture.handling
  BY <1>3, AskingIs
<1>5. CASE draft = None
  <2>1. draft' = draft
    BY <1>1, <1>5 DEF Started, WithStatus
  <2>2. capture' = capture
    BY <1>1, <1>3, <1>5 DEF StartRecorder
  <2> QED
    BY <1>1, <1>3, <1>5, <2>1, <2>2, ReturnedInd
<1>6. CASE draft # None
  BY <1>1, <1>3, <1>4, <1>6, StartedInd
<1> QED
  BY <1>5, <1>6

LEMMA CheckpointInd ==
    ASSUME DictationInd, NoneIsNothing, NEW r, Checkpoint(r)
    PROVE  DictationInd'
<1>1. /\ drafted \in 0 .. MaxDrafts /\ drafted \in Nat
      /\ ControllerInv(capture, drafted) /\ DraftInv(draft, capture, drafted)
      /\ CallInv(calls, draft, capture) /\ MicInv(draft, capture, calls)
      /\ RoomInv(capture, calls) /\ MaxChunks \in Nat /\ Len(capture.chunk) \in Nat
  BY IndIs DEF DictationInd
<1>2. r \in DOMAIN capture.chunk /\ Running(capture, r)
  BY <1>1 DEF Checkpoint, ControllerInv, RecorderInv
<1>3. capture.recorder = r /\ capture.stream # None /\ ~capture.continuing /\ r # None
  BY <1>1, <1>2, ChunksAre DEF ControllerInv, RecorderInv, NoneIsNothing
<1>4. calls = << >>
  <2> SUFFICES ASSUME calls # << >> PROVE FALSE
    OBVIOUS
  <2>1. PICK a \in ACall : AtInv(a, draft, capture)
    BY <1>1 DEF CallInv
  <2>2. a.at = "stop" /\ a.on \in DOMAIN capture.chunk /\ Ending(capture, a.on)
    BY <2>1, <1>2 DEF AtInv, Closed
  <2>3. a.on = r
    BY <1>1, <1>2, <2>2 DEF ControllerInv, RecorderInv, Fresh
  <2> QED
    BY <1>2, <2>2, <2>3 DEF Running, Ending
<1>5. draft # None /\ draft.status \in {"recording", "processing"} /\ ~IsStart(calls)
  BY <1>1, <1>3, <1>4, NoCall DEF MicInv
<1>6. PICK c : c = [capture EXCEPT !.armed = @ \ {r}]
  OBVIOUS
<1>7. /\ ControllerInv(c, drafted) /\ c.chunk = capture.chunk /\ c.queue = capture.queue
      /\ c.session = capture.session /\ c.stream = capture.stream /\ c.recorder = capture.recorder
  <2>1. capture.armed \ {r} \subseteq capture.armed
    OBVIOUS
  <2>2. LessArmedAs(capture, c, drafted)
    BY <1>1, <1>6, <2>1, LessArmed
  <2> QED
    BY <2>2 DEF LessArmedAs
<1>8. PICK e : e = capture'
  OBVIOUS
<1>9. PICK b \in BOOLEAN : b = TRUE
  OBVIOUS
<1>10. e = StopRecorder(c, b)
  BY <1>6, <1>8, <1>9 DEF Checkpoint
<1>11. Recording(c)
  BY <1>2, <1>3, <1>7 DEF Recording, Running
<1>12. /\ ControllerInv(e, drafted) /\ Kept(c, e, drafted) /\ (AllCut(c) => AllCut(e))
       /\ e.session = c.session /\ e.stream = c.stream /\ e.continuing
  <2>1. RecorderStops(c, e, drafted, b)
    BY <1>1, <1>7, <1>9, <1>10, <1>11, StopRecorderInv
  <2> QED
    BY <1>9, <2>1 DEF RecorderStops
<1>13. \A words : WordsInv(words, capture, drafted) => WordsInv(words, e, drafted)
  <2>1. Heard(e, drafted) = Heard(capture, drafted)
    BY <1>7, <1>12 DEF Heard, Kept
  <2> QED
    BY <2>1, <1>7, <1>12, WordsSame DEF Kept
<1>14. DraftInv(draft, e, drafted)
  <2>1. draft \in {None} \cup Draft /\ draft.content = draft.words /\ capture.session <= MaxSessions + Grace(draft)
    BY <1>1, <1>5, DraftIs
  <2> QED
    BY <1>1, <1>5, <1>7, <1>12, <1>13, <2>1, DraftThen
<1>15. MicInv(draft, e, calls)
  BY <1>5, <1>12 DEF MicInv
<1>16. RoomInv(e, calls)
  <2>1. Cardinality(Opening) = 0
    <3>1. Opening = {}
      BY <1>4 DEF Opening
    <3> QED
      BY <3>1, FS_EmptySet
  <2>2. Len(capture.chunk) + 1 <= MaxChunks
    BY <1>1, <1>3, <2>1 DEF Checkpoint, MayRecord
  <2>3. Len(e.chunk) = Len(capture.chunk)
    BY <1>7, <1>12 DEF Kept
  <2> QED
    BY <1>1, <1>5, <2>2, <2>3, RoomIs
<1>17. UNCHANGED <<draft, drafted, calls>>
  BY DEF Checkpoint
<1> QED
  BY <1>1, <1>4, <1>8, <1>12, <1>14, <1>15, <1>16, <1>17, NoCall DEF DictationInd

(* An interrupted draft keeps its words.                                   *)
InterruptedIn(f, d, c) ==
    /\ d \in {None} \cup Draft
    /\ d = None <=> f = None
    /\ d # None => d.status = "interrupted" /\ d.id = f.id /\ d.words = f.words /\ d.content = f.words
    /\ c.session <= MaxSessions + Grace(d)

LEMMA InterruptedIs ==
    ASSUME NoneIsNothing, NEW f, NEW c \in Controller, NEW n, DraftInv(f, c, n), NEW reason \in Reason,
           NEW d, d = Interrupted(f, reason)
    PROVE  InterruptedIn(f, d, c)
<1>1. /\ f \in {None} \cup Draft /\ c.session <= MaxSessions + Grace(f)
      /\ f # None => f.content = f.words
  BY DraftIs
<1>2. d = WithStatus(f, "interrupted", reason) /\ "interrupted" \in State
  BY DEF Interrupted, State
<1>3. /\ d \in {None} \cup Draft /\ (d = None <=> f = None)
      /\ f # None => d.status = "interrupted" /\ d.id = f.id /\ d.words = f.words /\ d.content = f.content
  BY <1>1, <1>2, StatusIs
<1>4. Grace(f) \in 0 .. 2 /\ Grace(d) \in 0 .. 2 /\ Grace(f) <= Grace(d)
  BY <1>3 DEF Grace
<1>5. c.session \in Nat /\ MaxSessions \in Nat
  BY CaptureAssumption DEF Controller
<1> QED
  BY <1>1, <1>3, <1>4, <1>5 DEF InterruptedIn

LEMMA LastIsLast ==
    ASSUME NEW c \in Controller
    PROVE  LastQueued(c) \in Nat /\ LastIs(c, LastQueued(c))
<1>1. CASE c.queue = << >>
  BY <1>1 DEF LastQueued, LastIs
<1>2. CASE c.queue # << >>
  <2>1. c.queue \in Seq(Job)
    BY DEF Controller
  <2>2. Len(c.queue) \in DOMAIN c.queue
    BY <1>2, <2>1
  <2>3. LastQueued(c) = c.queue[Len(c.queue)].chunk
    BY <1>2 DEF LastQueued, Last
  <2> QED
    BY <2>2, <2>3, JobsAre DEF LastIs, Job
<1> QED
  BY <1>1, <1>2

(* The call that awaits the recorder goes on to await the queue.           *)
SeenStop(q, p, d, c, last) ==
    \/ q = << >> /\ p = << >>
    \/ \E b \in ACall : /\ p = <<b>> /\ b.kind \in {"pause", "finish"} /\ b.at = "queue" /\ b.on = last
                        /\ q # << >> /\ q[1].kind = b.kind /\ ~c.continuing /\ ~IsWake(q) /\ ~IsStart(q)
                        /\ KindInv(q[1], d, c)

LEMMA StopSeen ==
    ASSUME NEW q, NEW d, NEW c, NEW n, CallInv(q, d, c), ControllerInv(c, n), NEW r \in DOMAIN c.chunk, Ending(c, r),
           NEW last \in Nat,
           NEW p, p = [i \in DOMAIN q |-> IF q[i].at = "stop" /\ q[i].on = r THEN Call(q[i].kind, "queue", last) ELSE q[i]]
    PROVE  SeenStop(q, p, d, c, last)
<1>1. CASE q = << >>
  BY <1>1 DEF SeenStop
<1>2. CASE q # << >>
  <2>1. PICK a \in ACall : q = <<a>> /\ AtInv(a, d, c) /\ KindInv(a, d, c)
    BY <1>2 DEF CallInv
  <2>2. a.at = "stop" /\ a.on \in DOMAIN c.chunk /\ Ending(c, a.on) /\ ~c.continuing
    BY <2>1 DEF AtInv, Closed
  <2>3. a.on = r
    BY <2>2 DEF ControllerInv, RecorderInv, Fresh
  <2>4. a.kind \in {"pause", "finish"}
    BY <2>1, <2>2 DEF AtInv, ACall, Kinds
  <2>5. PICK b : b = Call(a.kind, "queue", last)
    OBVIOUS
  <2>6. b \in ACall /\ b.kind = a.kind /\ b.at = "queue" /\ b.on = last
    <3>1. a.kind \in Kinds
      BY <2>4 DEF Kinds
    <3> QED
      BY <3>1, <2>5, CallMade
  <2>7. p = <<b>>
    <3>1. DOMAIN q = {1} /\ q[1] = a
      BY <2>1
    <3>2. p = [i \in {1} |-> b]
      BY <2>2, <2>3, <2>5, <3>1
    <3> HIDE DEF Call
    <3> QED
      BY <3>2
  <2>8. ~IsWake(q) /\ ~IsStart(q)
    BY <2>1, <2>2, <2>4, CallKinds
  <2>9. q[1] = a
    BY <2>1
  <2> QED
    BY <1>2, <2>1, <2>2, <2>4, <2>6, <2>7, <2>8, <2>9 DEF SeenStop
<1> QED
  BY <1>1, <1>2

LEMMA StopEventInd ==
    ASSUME DictationInd, NoneIsNothing, NEW r \in DOMAIN capture.chunk, StopEvent(r)
    PROVE  DictationInd'
<1>1. /\ drafted \in 0 .. MaxDrafts /\ drafted \in Nat
      /\ ControllerInv(capture, drafted) /\ DraftInv(draft, capture, drafted)
      /\ CallInv(calls, draft, capture) /\ MicInv(draft, capture, calls)
      /\ RoomInv(capture, calls) /\ MaxChunks \in Nat /\ Len(capture.chunk) \in Nat /\ capture \in Controller
  BY IndIs DEF DictationInd
<1>2. Ending(capture, r) /\ drafted' = drafted
  BY DEF StopEvent, Ending
<1>3. PICK e : e = capture'
  OBVIOUS
<1>4. StoppedAs(capture, e, drafted)
  BY <1>1, <1>2, <1>3, StopEventInv DEF StopEvent
<1>5. /\ ControllerInv(e, drafted) /\ e \in Controller
      /\ \A words : WordsInv(words, capture, drafted) => WordsInv(words, e, drafted)
      /\ e.session = capture.session /\ ~e.continuing /\ e.stream \in {capture.stream, None}
      /\ Len(e.chunk) <= Len(capture.chunk) + 1
      /\ ~capture.continuing => Closed(e) /\ Len(e.chunk) = Len(capture.chunk) /\ (AllCut(capture) => AllCut(e))
      /\ capture.handling /\ ~HasRoom(capture) => AllCut(e) /\ e.stream = None
      /\ capture.continuing /\ HasRoom(capture) => Recording(e)
  BY <1>4 DEF StoppedAs, ControllerInv
<1>6. PICK d : d = draft'
  OBVIOUS
<1>7. d = IF capture.handling /\ ~HasRoom(capture) THEN Interrupted(draft, "transcription_failure") ELSE draft
  BY <1>6 DEF StopEvent
<1>8. PICK last \in Nat : last = LastQueued(e) /\ LastIs(e, last)
  BY <1>5, LastIsLast
<1>9. PICK p : p = calls'
  OBVIOUS
<1>10. \/ calls = << >> /\ p = << >>
       \/ \E b \in ACall : /\ p = <<b>> /\ b.kind \in {"pause", "finish"} /\ b.at = "queue" /\ b.on = last
                           /\ calls # << >> /\ calls[1].kind = b.kind /\ ~capture.continuing
                           /\ ~IsWake(calls) /\ ~IsStart(calls) /\ KindInv(calls[1], draft, capture)
  <2>1. p = [i \in DOMAIN calls |-> IF calls[i].at = "stop" /\ calls[i].on = r
                                    THEN Call(calls[i].kind, "queue", last) ELSE calls[i]]
    BY <1>3, <1>8, <1>9 DEF StopEvent
  <2> QED
    <3>1. SeenStop(calls, p, draft, capture, last)
      BY <1>1, <1>2, <2>1, StopSeen
    <3> QED
      BY <3>1 DEF SeenStop
<1>11. ~IsWake(calls) /\ ~IsStart(calls) /\ ~IsWake(p) /\ ~IsStart(p) /\ (IsPause(p) <=> IsPause(calls))
  <2>1. CASE calls = << >> /\ p = << >>
    BY <2>1, NoCall
  <2>2. ASSUME NEW b \in ACall, p = <<b>>, b.kind \in {"pause", "finish"}, b.at = "queue",
               calls # << >>, calls[1].kind = b.kind, ~IsWake(calls), ~IsStart(calls)
        PROVE  ~IsWake(calls) /\ ~IsStart(calls) /\ ~IsWake(p) /\ ~IsStart(p) /\ (IsPause(p) <=> IsPause(calls))
    <3>1. IsPause(calls) <=> b.kind = "pause"
      BY <2>2 DEF IsPause
    <3> QED
      BY <2>2, <3>1, CallKinds
  <2> QED
    BY <1>10, <2>1, <2>2
<1>12. capture.stream # None => draft # None /\ draft.status \in {"recording", "processing"} /\ capture.handling
  BY <1>1, <1>11 DEF MicInv, ControllerInv, RecorderInv
<1>13. capture.continuing => capture.stream # None
  BY <1>1 DEF ControllerInv, RecorderInv
<1>14. ~Recording(capture)
  <2> SUFFICES ASSUME Recording(capture) PROVE FALSE
    OBVIOUS
  <2>1. capture.recorder \in DOMAIN capture.chunk /\ Running(capture, capture.recorder)
    BY <1>1 DEF Recording, Running, ControllerInv, RecorderInv
  <2>2. capture.recorder = r
    BY <1>1, <1>2, <2>1 DEF ControllerInv, RecorderInv, Fresh
  <2> QED
    BY <1>2, <2>1, <2>2 DEF Running, Ending
<1>15. "transcription_failure" \in Reason
  BY DEF Reason
<1>16. /\ d \in {None} \cup Draft /\ (d = None <=> draft = None)
       /\ d # None => d.id = draft.id /\ d.words = draft.words /\ d.content = draft.words
       /\ d # None => d.status \in {draft.status, "interrupted"}
       /\ e.session <= MaxSessions + Grace(d)
  <2>1. CASE capture.handling /\ ~HasRoom(capture)
    <3>1. InterruptedIn(draft, d, capture)
      BY <1>1, <1>7, <1>15, <2>1, InterruptedIs
    <3> QED
      BY <1>5, <3>1 DEF InterruptedIn
  <2>2. CASE ~(capture.handling /\ ~HasRoom(capture))
    <3>1. d = draft
      BY <1>7, <2>2
    <3> QED
      BY <1>1, <1>5, <3>1, DraftIs
  <2> QED
    BY <2>1, <2>2
<1>17. d = None \/ d.status \notin {"recording", "processing"} => AllCut(e)
  <2>1. CASE capture.handling /\ ~HasRoom(capture)
    BY <1>5, <2>1
  <2>2. CASE ~(capture.handling /\ ~HasRoom(capture))
    <3>1. d = draft
      BY <1>7, <2>2
    <3> QED
      BY <1>1, <1>5, <1>12, <1>13, <3>1, DraftIs
  <2> QED
    BY <2>1, <2>2
<1>18. DraftInv(d, e, drafted)
  BY <1>1, <1>5, <1>16, <1>17, DraftThen
<1>19. CallInv(p, d, e)
  <2>1. CASE p = << >>
    BY <2>1, NoCall
  <2>2. ASSUME NEW b \in ACall, p = <<b>>, b.kind \in {"pause", "finish"}, b.at = "queue", b.on = last,
               calls[1].kind = b.kind, ~capture.continuing, KindInv(calls[1], draft, capture)
        PROVE  CallInv(p, d, e)
    <3>1. AtInv(b, d, e)
      BY <1>5, <1>8, <2>2 DEF AtInv
    <3>2. KindInv(b, d, e)
      BY <1>16, <2>2 DEF KindInv
    <3> QED
      BY <2>2, <3>1, <3>2, OneCall
  <2> QED
    BY <1>10, <2>1, <2>2
<1>20. MicInv(d, e, p)
  <2>1. ASSUME d # None, d.status = "recording", ~IsPause(p) PROVE Recording(e)
    <3>1. d = draft /\ (capture.handling => HasRoom(capture))
      <4>1. CASE capture.handling /\ ~HasRoom(capture)
        <5>1. InterruptedIn(draft, d, capture)
          BY <1>1, <1>7, <1>15, <4>1, InterruptedIs
        <5> QED
          BY <2>1, <5>1 DEF InterruptedIn
      <4> QED
        BY <1>7, <4>1
    <3>2. capture.continuing
      BY <1>1, <1>11, <1>14, <2>1, <3>1 DEF MicInv
    <3> QED
      BY <1>5, <1>12, <1>13, <3>1, <3>2
  <2>2. ASSUME e.stream # None PROVE d # None /\ d.status \in {"recording", "processing"}
    <3>1. e.stream = capture.stream /\ capture.handling /\ HasRoom(capture)
      BY <1>5, <1>12, <2>2
    <3> QED
      BY <1>7, <1>12, <2>2, <3>1
  <2> QED
    BY <2>1, <2>2 DEF MicInv
<1>21. RoomInv(e, p)
  <2>1. Len(e.chunk) \in Nat
    BY <1>5, ChunksAre
  <2> QED
    BY <1>1, <1>5, <1>11, <2>1, RoomIs
<1> QED
  BY <1>1, <1>2, <1>3, <1>5, <1>6, <1>9, <1>18, <1>19, <1>20, <1>21 DEF DictationInd

(* An interruption and a cancellation, whatever the page is doing.         *)
IndOf(d, c, q, n) ==
    /\ ControllerInv(c, n) /\ DraftInv(d, c, n)
    /\ CallInv(q, d, c) /\ MicInv(d, c, q) /\ RoomInv(c, q)

HaltedAs(c, e, n) ==
    /\ ControllerInv(e, n) /\ AllCut(e) /\ Kept(c, e, n)
    /\ Closed(c) => Closed(e)
    /\ \A r \in DOMAIN c.chunk : Ending(c, r) => Ending(e, r)
    /\ e.stream = None /\ ~e.continuing

LEMMA Halts ==
    ASSUME NoneIsNothing, NEW c, NEW n \in Nat, ControllerInv(c, n)
    PROVE  /\ HaltedAs(c, Interrupt(c), n) /\ Interrupt(c).session = c.session /\ Interrupt(c).handling = c.handling
           /\ HaltedAs(c, Cancelled(c), n) /\ Cancelled(c).session = c.session + 1
<1>1. PICK e : e = Interrupt(c)
  OBVIOUS
<1>2. HaltedAs(c, e, n) /\ e.session = c.session /\ e.handling = c.handling
  BY <1>1, InterruptInv DEF HaltedAs
<1>3. PICK f : f = Cancelled(c)
  OBVIOUS
<1>4. HaltedAs(c, f, n) /\ f.session = c.session + 1
  BY <1>3, CancelledInv DEF HaltedAs
<1> QED
  BY <1>1, <1>2, <1>3, <1>4

LEMMA HaltedInd ==
    ASSUME NoneIsNothing, NEW f, NEW c, NEW q, NEW n \in Nat, IndOf(f, c, q, n),
           NEW e, HaltedAs(c, e, n),
           (e.session = c.session /\ e.handling = c.handling) \/ e.session = c.session + 1,
           NEW d \in {None} \cup Draft,
           d # None => /\ f # None /\ d.status = "interrupted" /\ d.id = f.id /\ d.words = f.words /\ d.content = f.words
                       /\ ~IsWake(q),
           d = None => f = None \/ e.session = c.session + 1,
           e.session <= MaxSessions + Grace(d)
    PROVE  IndOf(d, e, q, n)
<1>1. ControllerInv(c, n) /\ DraftInv(f, c, n) /\ CallInv(q, f, c) /\ RoomInv(c, q) /\ c \in Controller
  BY DEF IndOf, ControllerInv
<1>2. /\ ControllerInv(e, n) /\ e \in Controller /\ AllCut(e) /\ Heard(e, n) = Heard(c, n) /\ e.queue = c.queue
      /\ Len(e.chunk) = Len(c.chunk) /\ Len(c.chunk) \in Nat /\ DOMAIN e.chunk = DOMAIN c.chunk
      /\ Closed(c) => Closed(e)
      /\ \A r \in DOMAIN c.chunk : Ending(c, r) => Ending(e, r)
      /\ e.stream = None /\ ~e.continuing
  BY <1>1, ChunksAre DEF HaltedAs, Kept, ControllerInv
<1>3. c.session \in Nat /\ e.session \in Nat /\ c.session <= e.session /\ MaxChunks \in Nat
  BY <1>1, <1>2, CaptureAssumption DEF Controller
<1>4. DraftInv(d, e, n)
  <2>1. \A words : WordsInv(words, c, n) => WordsInv(words, e, n)
    BY <1>2, WordsSame
  <2> QED
    BY <1>1, <1>2, <2>1, DraftThen
<1>5. CallInv(q, d, e)
  <2>1. CASE q = << >>
    BY <2>1, NoCall
  <2>2. CASE q # << >>
    <3>1. PICK a \in ACall : q = <<a>> /\ AtInv(a, f, c) /\ KindInv(a, f, c)
      BY <1>1, <2>2 DEF CallInv
    <3>2. a.at = "wake" => d = None
      BY <3>1, CallKinds
    <3>3. AtInv(a, d, e)
      <4>1. a.at \in {"queue", "drain"} => LastIs(e, a.on)
        BY <1>2, <3>1 DEF AtInv, LastIs
      <4>2. IF a.at = "stop" THEN a.on \in DOMAIN e.chunk /\ Ending(e, a.on) /\ ~e.continuing ELSE Closed(e)
        BY <1>2, <3>1 DEF AtInv
      <4>3. a.at = "clean" => e.queue = << >> /\ (d # None => a.text = d.words)
        BY <1>2, <3>1 DEF AtInv
      <4>4. (a.kind = "start" <=> a.at \in {"media", "wake"}) /\ (a.at \in {"drain", "clean"} => a.kind = "finish")
        BY <3>1 DEF AtInv
      <4> QED
        BY <1>2, <3>2, <4>1, <4>2, <4>3, <4>4 DEF AtInv
    <3>4. KindInv(a, d, e)
      <4>1. ASSUME a.kind = "start"
            PROVE  /\ a.on \in 1 .. MaxSessions /\ a.on <= e.session
                   /\ a.on = e.session => /\ d # None /\ e.handling
                                          /\ \A k \in DOMAIN e.queue : e.queue[k].session # e.session
        <5>1. a.on \in 1 .. MaxSessions /\ a.on <= c.session /\ a.on \in Nat
          BY <3>1, <4>1 DEF KindInv, ACall
        <5>2. a.on <= e.session
          BY <1>3, <5>1
        <5>3. a.on = e.session => e.session = c.session
          BY <1>3, <5>1
        <5>4. e.session = c.session => e.handling = c.handling /\ (d = None => f = None)
          BY <1>3
        <5>5. a.on = c.session => /\ f # None /\ c.handling
                                  /\ \A k \in DOMAIN c.queue : c.queue[k].session # c.session
          BY <3>1, <4>1 DEF KindInv
        <5> QED
          BY <1>2, <5>1, <5>2, <5>3, <5>4, <5>5
      <4> QED
        BY <4>1 DEF KindInv
    <3> QED
      BY <3>1, <3>3, <3>4, OneCall
  <2> QED
    BY <2>1, <2>2
<1>6. MicInv(d, e, q)
  BY <1>2 DEF MicInv
<1>7. RoomInv(e, q)
  BY <1>1, <1>2, <1>3, RoomIs
<1> QED
  BY <1>2, <1>4, <1>5, <1>6, <1>7 DEF IndOf

LEMMA IndAs == DictationInd <=> drafted \in 0 .. MaxDrafts /\ IndOf(draft, capture, calls, drafted)
BY DEF DictationInd, IndOf

LEMMA Unwoken ==
    ASSUME DictationInd, PatientSpeaker, AtWake => "early" \in Environment
    PROVE  ~IsWake(calls)
<1>1. ~AtWake
  BY DEF PatientSpeaker
<1>2. CASE calls = << >>
  BY <1>2, NoCall
<1>3. ASSUME NEW a \in ACall, calls = <<a>> PROVE ~IsWake(calls)
  <2>1. 1 \in DOMAIN calls /\ calls[1] = a
    BY <1>3
  <2> QED
    BY <1>1, <1>3, <2>1, CallKinds DEF AtWake
<1> QED
  BY <1>2, <1>3, IndIs DEF CallInv

LEMMA LifecycleInd == ASSUME DictationInd, PatientSpeaker, NoneIsNothing, Lifecycle PROVE DictationInd'
<1>1. drafted \in 0 .. MaxDrafts /\ drafted \in Nat /\ IndOf(draft, capture, calls, drafted)
  BY IndIs, IndAs DEF DictationInd
<1>2. ControllerInv(capture, drafted) /\ DraftInv(draft, capture, drafted) /\ capture \in Controller
  BY <1>1 DEF IndOf, ControllerInv
<1>3. ~IsWake(calls)
  BY Unwoken DEF Lifecycle
<1>4. PICK e : e = capture'
  OBVIOUS
<1>5. HaltedAs(capture, e, drafted) /\ e.session = capture.session /\ e.handling = capture.handling
  BY <1>1, <1>2, <1>4, Halts DEF Lifecycle
<1>6. PICK d : d = draft'
  OBVIOUS
<1>7. InterruptedIn(draft, d, capture)
  <2>1. d = Interrupted(draft, "connection_lost") /\ "connection_lost" \in Reason
    BY <1>6 DEF Lifecycle, Reason
  <2> QED
    BY <1>2, <2>1, InterruptedIs
<1>8. IndOf(d, e, calls, drafted)
  BY <1>1, <1>3, <1>5, <1>7, HaltedInd DEF InterruptedIn
<1> QED
  BY <1>1, <1>4, <1>6, <1>8, IndAs DEF Lifecycle, DictationInd, IndOf

LEMMA StorageFailsInd == ASSUME DictationInd, PatientSpeaker, NoneIsNothing, StorageFails PROVE DictationInd'
<1>1. drafted \in 0 .. MaxDrafts /\ drafted \in Nat /\ IndOf(draft, capture, calls, drafted)
  BY IndIs, IndAs DEF DictationInd
<1>2. ControllerInv(capture, drafted) /\ DraftInv(draft, capture, drafted) /\ capture \in Controller
  BY <1>1 DEF IndOf, ControllerInv
<1>3. ~IsWake(calls)
  BY Unwoken DEF StorageFails
<1>4. PICK e : e = capture'
  OBVIOUS
<1>5. HaltedAs(capture, e, drafted) /\ e.session = capture.session + 1
  BY <1>1, <1>2, <1>4, Halts DEF StorageFails
<1>6. PICK d : d = draft'
  OBVIOUS
<1>7. InterruptedIn(draft, d, capture)
  <2>1. d = Interrupted(draft, "storage_failure") /\ "storage_failure" \in Reason
    BY <1>6 DEF StorageFails, Reason
  <2> QED
    BY <1>2, <2>1, InterruptedIs
<1>8. e.session <= MaxSessions + Grace(d)
  <2>1. draft # None /\ Grace(draft) = 0
    BY DEF StorageFails, Active, Grace
  <2>2. capture.session <= MaxSessions + 0
    BY <1>2, <2>1, DraftIs
  <2>3. Grace(d) = 1
    BY <1>7, <2>1 DEF InterruptedIn, Grace
  <2>4. capture.session \in Nat /\ MaxSessions \in Nat
    BY IndIs
  <2> QED
    BY <1>5, <2>2, <2>3, <2>4
<1>9. IndOf(d, e, calls, drafted)
  BY <1>1, <1>3, <1>5, <1>7, <1>8, HaltedInd DEF InterruptedIn
<1> QED
  BY <1>1, <1>4, <1>6, <1>9, IndAs DEF StorageFails, DictationInd, IndOf

LEMMA DiscardDictationInd == ASSUME DictationInd, NoneIsNothing, DiscardDictation PROVE DictationInd'
<1>1. drafted \in 0 .. MaxDrafts /\ drafted \in Nat /\ IndOf(draft, capture, calls, drafted)
  BY IndIs, IndAs DEF DictationInd
<1>2. ControllerInv(capture, drafted) /\ DraftInv(draft, capture, drafted)
  BY <1>1 DEF IndOf
<1>3. PICK e : e = capture'
  OBVIOUS
<1>4. HaltedAs(capture, e, drafted) /\ e.session = capture.session + 1
  BY <1>1, <1>2, <1>3, Halts DEF DiscardDictation
<1>5. PICK d : d = None /\ d \in {None} \cup Draft
  OBVIOUS
<1>6. draft' = d
  BY <1>5 DEF DiscardDictation
<1>7. e.session <= MaxSessions + Grace(d)
  <2>1. draft # None
    BY DEF DiscardDictation
  <2>2. Grace(draft) \in 0 .. 1 /\ Grace(d) = 2
    BY <1>5, <2>1 DEF Grace
  <2>3. capture.session <= MaxSessions + Grace(draft)
    BY <1>2, DraftIs
  <2>4. capture.session \in Nat /\ MaxSessions \in Nat
    BY IndIs
  <2> QED
    BY <1>4, <2>2, <2>3, <2>4
<1>8. IndOf(d, e, calls, drafted)
  BY <1>1, <1>4, <1>5, <1>7, HaltedInd
<1> QED
  BY <1>1, <1>3, <1>6, <1>8 DEF DiscardDictation, DictationInd, IndOf

(* The oldest request is answered, whatever the page is doing.             *)
TranscriptAs(f, r, d) ==
    /\ d \in Draft /\ d # None /\ d.id = f.id /\ d.status = f.status
    /\ d.words = Append(f.words, r) /\ d.content = d.words

LEMMA TranscriptIs ==
    ASSUME NoneIsNothing, NEW f \in Draft, NEW r \in Nat, f.content = f.words
    PROVE  TranscriptAs(f, r, Transcript(f, r))
<1>0. PICK d : d = Transcript(f, r)
  OBVIOUS
<1>1. f # None
  BY DraftIsSome
<1> DEFINE words == Append(f.words, r)
<1>2. words \in Seq(Nat)
  BY DEF Draft
<1> HIDE DEF words
<1>3. PICK b : b = [f EXCEPT !.words = words]
  OBVIOUS
<1>4. b \in Draft /\ b.id = f.id /\ b.status = f.status /\ b.words = words /\ b.content = f.content
  BY <1>2, <1>3 DEF Draft
<1>5. d = [b EXCEPT !.content = words]
  BY <1>0, <1>1, <1>3 DEF Transcript, words
<1>6. d \in Draft /\ d.id = b.id /\ d.status = b.status /\ d.words = b.words /\ d.content = words
  BY <1>2, <1>4, <1>5 DEF Draft
<1> QED
  BY <1>0, <1>4, <1>6, DraftIsSome DEF words, TranscriptAs

TailOf(t, s) ==
    /\ \A k \in DOMAIN t : \E j \in DOMAIN s : t[k] = s[j]
    /\ t # << >> => t[Len(t)] = s[Len(s)]

LEMMA Tails == ASSUME NEW S, NEW s \in Seq(S), s # << >> PROVE TailOf(Tail(s), s)
<1>0. PICK t : t = Tail(s)
  OBVIOUS
<1>1. /\ t \in Seq(S) /\ Len(t) = Len(s) - 1
      /\ \A k \in 1 .. Len(t) : t[k] = s[k + 1]
  BY <1>0, HeadTailProperties
<1>2. Len(s) \in Nat /\ Len(t) \in Nat /\ DOMAIN s = 1 .. Len(s) /\ DOMAIN t = 1 .. Len(t)
  BY <1>1, LenProperties
<1>3. ASSUME NEW k \in DOMAIN t PROVE \E j \in DOMAIN s : t[k] = s[j]
  <2>1. k + 1 \in DOMAIN s /\ t[k] = s[k + 1]
    BY <1>1, <1>2, <1>3
  <2> QED
    BY <2>1
<1>4. ASSUME t # << >> PROVE t[Len(t)] = s[Len(s)]
  <2>1. Len(t) # 0
    BY <1>1, <1>4, EmptySeq
  <2>2. Len(t) \in 1 .. Len(t) /\ Len(t) + 1 = Len(s)
    BY <1>1, <1>2, <2>1
  <2> QED
    BY <1>1, <2>2
<1> QED
  BY <1>0, <1>3, <1>4 DEF TailOf

Answer(c, r, new) == [c EXCEPT !.queue = Tail(@), !.chunk[r].state = new]

LEMMA AnsweredInd ==
    ASSUME NoneIsNothing, NEW f, NEW c, NEW q, NEW n \in Nat, IndOf(f, c, q, n), c.queue # << >>,
           NEW job, job = Head(c.queue), NEW outcome \in {"heard", "silent", "failed"},
           NEW wanted \in BOOLEAN, wanted <=> job.session = c.session,
           NEW new, new = IF wanted THEN outcome ELSE "dropped",
           NEW e, e = Answer(c, job.chunk, new),
           NEW d, d = IF wanted /\ outcome = "heard" THEN Transcript(f, job.chunk) ELSE f
    PROVE  IndOf(d, e, q, n) /\ (wanted /\ IsWake(q) => f = None)
<1>1. /\ ControllerInv(c, n) /\ DraftInv(f, c, n) /\ CallInv(q, f, c) /\ RoomInv(c, q) /\ MicInv(f, c, q)
      /\ c \in Controller
  BY DEF IndOf, ControllerInv
<1>2. /\ 1 \in DOMAIN c.queue /\ job = c.queue[1] /\ job \in Job /\ c.queue \in Seq(Job)
      /\ Len(c.queue) \in Nat /\ DOMAIN c.queue = 1 .. Len(c.queue)
  <2>1. c.queue \in Seq(Job) /\ Len(c.queue) # 0
    BY <1>1 DEF Controller
  <2> QED
    BY <2>1, JobsAre, <1>1
<1>3. job.chunk \in DOMAIN c.chunk /\ job.chunk \in Nat
  BY <1>1, <1>2 DEF ControllerInv, QueueInv, Job
<1>4. PICK state \in {"heard", "silent", "failed", "dropped"} : state = new /\ state = IF wanted THEN outcome ELSE "dropped"
  OBVIOUS
<1>5. AnsweredWith(c, e, job.chunk, state)
  <2>1. AnsweredWith(c, [c EXCEPT !.queue = Tail(@), !.chunk[job.chunk].state = state], job.chunk, state)
    BY <1>1, <1>3, AnswerChanges
  <2> QED
    BY <1>4, <2>1 DEF Answer
<1>6. AnsweredAs(c, e, n) /\ Gains(c, e, n, wanted, outcome, job.chunk)
  BY <1>1, <1>4, <1>5, AnsweredInv, SMTT(30)
<1>7. /\ ControllerInv(e, n) /\ Len(e.chunk) = Len(c.chunk) /\ (AllCut(c) => AllCut(e))
      /\ e.session = c.session /\ e.handling = c.handling /\ e.stream = c.stream /\ e.continuing = c.continuing
      /\ e.recorder = c.recorder /\ e.queue = Tail(c.queue) /\ DOMAIN e.chunk = DOMAIN c.chunk
      /\ \A r \in DOMAIN c.chunk : (Running(e, r) <=> Running(c, r)) /\ (Ending(e, r) <=> Ending(c, r))
  BY <1>6 DEF AnsweredAs
<1>8. \A words \in Seq(Nat) : WordsInv(words, c, n) =>
         WordsInv(IF wanted /\ outcome = "heard" THEN Append(words, job.chunk) ELSE words, e, n)
  BY <1>6 DEF Gains
<1>9. /\ f \in {None} \cup Draft
      /\ f # None => f \in Draft /\ f.id = n /\ f.content = f.words /\ WordsInv(f.words, c, n) /\ f.words \in Seq(Nat)
      /\ f = None \/ f.status \notin {"recording", "processing"} => AllCut(c)
      /\ c.session <= MaxSessions + Grace(f)
  BY <1>1, DraftIs
<1>10. /\ d \in {None} \cup Draft /\ (d = None <=> f = None)
       /\ d # None => d.status = f.status /\ d.id = f.id /\ d.content = d.words /\ WordsInv(d.words, e, n)
  <2>1. CASE f = None
    BY <2>1 DEF Transcript
  <2>2. CASE f # None /\ wanted /\ outcome = "heard"
    <3>0. d = Transcript(f, job.chunk)
      BY <2>2
    <3>1. /\ d \in Draft /\ d # None /\ d.id = f.id /\ d.status = f.status
          /\ d.words = Append(f.words, job.chunk) /\ d.content = d.words
      <4>1. TranscriptAs(f, job.chunk, Transcript(f, job.chunk))
        BY <1>3, <1>9, <2>2, TranscriptIs
      <4> QED
        BY <3>0, <4>1 DEF TranscriptAs
    <3>2. WordsInv(IF wanted /\ outcome = "heard" THEN Append(f.words, job.chunk) ELSE f.words, e, n)
      BY <1>8, <1>9, <2>2
    <3> QED
      BY <2>2, <3>1, <3>2
  <2>3. CASE f # None /\ ~(wanted /\ outcome = "heard")
    <3>1. d = f
      BY <2>3
    <3>2. WordsInv(IF wanted /\ outcome = "heard" THEN Append(f.words, job.chunk) ELSE f.words, e, n)
      BY <1>8, <1>9, <2>3
    <3> QED
      BY <1>9, <2>3, <3>1, <3>2
  <2> QED
    BY <2>1, <2>2, <2>3
<1>11. Grace(d) = Grace(f)
  BY <1>10 DEF Grace
<1>12. DraftInv(d, e, n)
  <2>1. d = None \/ d.status \notin {"recording", "processing"} => AllCut(e)
    BY <1>7, <1>9, <1>10
  <2>2. e.session <= MaxSessions + (IF d = None THEN 2 ELSE IF d.status \in {"interrupted", "review"} THEN 1 ELSE 0)
    BY <1>7, <1>9, <1>11 DEF Grace
  <2> QED
    BY <1>9, <1>10, <2>1, <2>2 DEF DraftInv
<1>c. TailOf(e.queue, c.queue) /\ c.queue # << >>
  BY <1>2, <1>7, Tails
<1>13. \A on : LastIs(c, on) => LastIs(e, on)
  BY <1>c DEF LastIs, TailOf
<1>14. \A k \in DOMAIN e.queue : \E j \in DOMAIN c.queue : e.queue[k] = c.queue[j]
  BY <1>c DEF TailOf
<1>15. Closed(c) => Closed(e)
  BY <1>7 DEF Closed
<1>16. CallInv(q, d, e) /\ (wanted /\ IsWake(q) => f = None)
  <2>1. CASE q = << >>
    BY <2>1, NoCall
  <2>2. CASE q # << >>
    <3>1. PICK a \in ACall : q = <<a>> /\ AtInv(a, f, c) /\ KindInv(a, f, c)
      BY <1>1, <2>2 DEF CallInv
    <3>2. a.at # "clean"
      BY <3>1 DEF AtInv
    <3>3. AtInv(a, d, e)
      <4>1. a.at \in {"queue", "drain"} => LastIs(e, a.on)
        BY <1>13, <3>1 DEF AtInv
      <4>2. IF a.at = "stop" THEN a.on \in DOMAIN e.chunk /\ Ending(e, a.on) /\ ~e.continuing ELSE Closed(e)
        BY <1>7, <1>15, <3>1 DEF AtInv
      <4>3. a.at = "wake" => IF d = None THEN e.stream = None ELSE a.on = e.session /\ e.stream # None
        BY <1>7, <1>10, <3>1 DEF AtInv
      <4>4. /\ a.kind = "start" <=> a.at \in {"media", "wake"}
            /\ a.at \in {"drain", "clean"} => a.kind = "finish"
            /\ a.at \in {"media", "drain", "clean"} => e.stream = None
        BY <1>7, <3>1 DEF AtInv
      <4> QED
        BY <3>2, <4>1, <4>2, <4>3, <4>4 DEF AtInv
    <3>4. KindInv(a, d, e)
      <4>1. a.on = c.session /\ a.kind = "start" => \A k \in DOMAIN e.queue : e.queue[k].session # e.session
        <5>1. a.on = c.session /\ a.kind = "start" => \A k \in DOMAIN c.queue : c.queue[k].session # c.session
          BY <3>1 DEF KindInv
        <5>2. e.session = c.session
          BY <1>7
        <5> QED
          BY <1>14, <5>1, <5>2
      <4> QED
        BY <1>7, <1>10, <3>1, <4>1 DEF KindInv
    <3>5. wanted /\ IsWake(q) => f = None
      <4> SUFFICES ASSUME wanted, IsWake(q), f # None PROVE FALSE
        OBVIOUS
      <4>1. a.at = "wake"
        BY <3>1, CallKinds
      <4>2. a.kind = "start" /\ a.on = c.session
        BY <3>1, <4>1 DEF AtInv
      <4> QED
        BY <1>2, <3>1, <4>2 DEF KindInv
    <3> QED
      BY <3>1, <3>3, <3>4, <3>5, OneCall
  <2> QED
    BY <2>1, <2>2
<1>17. MicInv(d, e, q)
  <2>1. Recording(c) => Recording(e)
    <3> SUFFICES ASSUME Recording(c) PROVE Recording(e)
      OBVIOUS
    <3>1. c.recorder # None /\ c.recorder \in DOMAIN c.chunk
      BY <1>1 DEF Recording, Running, ControllerInv, RecorderInv
    <3>2. Running(c, c.recorder)
      BY DEF Recording, Running
    <3>3. Running(e, c.recorder)
      BY <1>7, <3>1, <3>2
    <3>4. e.recorder = c.recorder
      BY <1>7
    <3> QED
      BY <3>1, <3>3, <3>4 DEF Recording, Running
  <2> QED
    BY <1>1, <1>7, <1>10, <2>1 DEF MicInv
<1>18. RoomInv(e, q)
  <2>1. Len(c.chunk) \in Nat /\ MaxChunks \in Nat
    BY <1>1, ChunksAre, CaptureAssumption
  <2> QED
    BY <1>1, <1>7, <2>1, RoomIs
<1> QED
  BY <1>7, <1>12, <1>16, <1>17, <1>18 DEF IndOf

LEMMA TranscribedInd ==
    ASSUME DictationInd, NoneIsNothing, NEW outcome \in {"heard", "silent", "failed"}, Transcribed(outcome)
    PROVE  DictationInd'
<1>1. drafted \in 0 .. MaxDrafts /\ drafted \in Nat /\ IndOf(draft, capture, calls, drafted)
  BY IndIs, IndAs DEF DictationInd
<1>2. PICK job : job = Head(capture.queue)
  OBVIOUS
<1>3. PICK wanted \in BOOLEAN : wanted <=> job.session = capture.session
  <2>1. (job.session = capture.session) \in BOOLEAN
    OBVIOUS
  <2> QED
    BY <2>1
<1>a. Wanted(job) <=> wanted
  BY <1>3 DEF Wanted
<1>b. PICK new : new = IF Wanted(job) THEN outcome ELSE "dropped"
  OBVIOUS
<1>4. PICK c : c = Answer(capture, job.chunk, new)
  OBVIOUS
<1>5. PICK d : d = IF Wanted(job) /\ outcome = "heard" THEN Transcript(draft, job.chunk) ELSE draft
  OBVIOUS
<1>6. capture.queue # << >> /\ UNCHANGED <<drafted, calls>>
  BY DEF Transcribed
<1>7. IndOf(d, c, calls, drafted) /\ (wanted /\ IsWake(calls) => draft = None)
  <2>1. new = IF wanted THEN outcome ELSE "dropped"
    BY <1>a, <1>b
  <2>2. d = IF wanted /\ outcome = "heard" THEN Transcript(draft, job.chunk) ELSE draft
    BY <1>a, <1>5
  <2> QED
    BY <1>1, <1>2, <1>3, <1>4, <1>6, <2>1, <2>2, AnsweredInd
<1>8. /\ capture' = IF Wanted(job) /\ outcome = "failed" THEN Interrupt(c) ELSE c
      /\ draft' = IF Wanted(job) /\ outcome = "failed" THEN Interrupted(draft, "transcription_failure") ELSE d
  BY <1>2, <1>b, <1>4, <1>5 DEF Transcribed, Answer
<1>9. /\ capture' = IF wanted /\ outcome = "failed" THEN Interrupt(c) ELSE c
      /\ draft' = IF wanted /\ outcome = "failed" THEN Interrupted(draft, "transcription_failure") ELSE d
  BY <1>a, <1>8
<1>10. CASE ~(wanted /\ outcome = "failed")
  BY <1>1, <1>6, <1>7, <1>9, <1>10 DEF DictationInd, IndOf
<1>11. CASE wanted /\ outcome = "failed"
  <2>1. PICK e : e = capture'
    OBVIOUS
  <2>2. PICK f : f = draft'
    OBVIOUS
  <2>3. d = draft /\ e = Interrupt(c) /\ f = Interrupted(d, "transcription_failure")
    BY <1>a, <1>5, <1>9, <1>11, <2>1, <2>2
  <2>4. ControllerInv(c, drafted) /\ DraftInv(d, c, drafted) /\ c \in Controller
    BY <1>7 DEF IndOf, ControllerInv
  <2>5. HaltedAs(c, e, drafted) /\ e.session = c.session /\ e.handling = c.handling
    BY <1>1, <2>3, <2>4, Halts
  <2>6. "transcription_failure" \in Reason
    BY DEF Reason
  <2>7. InterruptedIn(d, f, c)
    BY <2>3, <2>4, <2>6, InterruptedIs
  <2>8. IndOf(f, e, calls, drafted)
    BY <1>1, <1>7, <1>11, <2>3, <2>5, <2>7, HaltedInd DEF InterruptedIn
  <2> QED
    BY <1>1, <1>6, <2>1, <2>2, <2>8 DEF DictationInd, IndOf
<1> QED
  BY <1>10, <1>11

(* A pause and a finish stop the recorder.                                 *)
StoppingTo(kind, d, e) ==
    /\ RecorderStops(capture, e, drafted, FALSE)
    /\ \E a \in ACall : <<Stopping(kind)>> = <<a>> /\ a.kind = kind /\ CallInv(<<a>>, d, e)

LEMMA StoppingInv ==
    ASSUME DictationInd, PatientSpeaker, NoneIsNothing, MayAct, NEW kind \in {"pause", "finish"},
           NEW d, d # None => d.status = IF kind = "pause" THEN "recording" ELSE "processing",
           NEW e, e = StopRecorder(capture, FALSE)
    PROVE  StoppingTo(kind, d, e)
<1>1. drafted \in Nat /\ ControllerInv(capture, drafted) /\ capture \in Controller
  BY IndIs
<1>2. \A r \in DOMAIN capture.chunk : ~Ending(capture, r)
  BY Acts
<1>3. PICK b \in BOOLEAN : b = FALSE
  OBVIOUS
<1>4. RecorderStops(capture, e, drafted, b)
  BY <1>1, <1>3, StopRecorderInv
<1>5. /\ Kept(capture, e, drafted) /\ ~e.continuing
      /\ Recording(capture) => capture.recorder \in DOMAIN e.chunk /\ Ending(e, capture.recorder)
      /\ ~Recording(capture) /\ Closed(capture) => Closed(e)
  BY <1>3, <1>4 DEF RecorderStops
<1>6. PICK a : a = Stopping(kind)
  OBVIOUS
<1>7. kind \in Kinds
  BY DEF Kinds
<1>8. CASE Recording(capture)
  <2>1. capture.recorder \in DOMAIN e.chunk /\ Ending(e, capture.recorder)
    BY <1>5, <1>8
  <2>2. capture.recorder \in Nat
    BY <1>1, <1>8 DEF Controller, Recording
  <2>3. a = Call(kind, "stop", capture.recorder)
    BY <1>6, <1>8 DEF Stopping
  <2>4. a \in ACall /\ a.kind = kind /\ a.at = "stop" /\ a.on = capture.recorder
    BY <1>7, <2>2, <2>3, CallMade
  <2>5. AtInv(a, d, e)
    BY <1>5, <2>1, <2>4 DEF AtInv
  <2>6. KindInv(a, d, e)
    BY <2>4 DEF KindInv
  <2> QED
    BY <1>3, <1>4, <1>6, <2>4, <2>5, <2>6, OneCall DEF StoppingTo
<1>9. CASE ~Recording(capture)
  <2>1. Closed(capture)
    <3> SUFFICES ASSUME NEW r \in DOMAIN capture.chunk, Running(capture, r) PROVE FALSE
      BY <1>2 DEF Closed
    <3>1. capture.recorder = r /\ r # None
      BY <1>1, ChunksAre DEF ControllerInv, RecorderInv, NoneIsNothing
    <3> QED
      BY <1>9, <3>1 DEF Recording, Running
  <2>2. Closed(e)
    BY <1>5, <1>9, <2>1
  <2>3. PICK last \in Nat : last = LastQueued(capture) /\ LastIs(capture, last)
    BY <1>1, LastIsLast
  <2>4. a = Call(kind, "queue", last)
    BY <1>6, <1>9, <2>3 DEF Stopping
  <2>5. a \in ACall /\ a.kind = kind /\ a.at = "queue" /\ a.on = last
    BY <1>7, <2>3, <2>4, CallMade
  <2>6. LastIs(e, last)
    BY <1>5, <2>3 DEF LastIs, Kept
  <2>7. AtInv(a, d, e)
    BY <2>2, <2>5, <2>6 DEF AtInv
  <2>8. KindInv(a, d, e)
    BY <2>5 DEF KindInv
  <2> QED
    BY <1>3, <1>4, <1>6, <2>5, <2>7, <2>8, OneCall DEF StoppingTo
<1> QED
  BY <1>8, <1>9

LEMMA PauseDictationInd == ASSUME DictationInd, PatientSpeaker, NoneIsNothing, PauseDictation PROVE DictationInd'
<1>1. /\ drafted \in 0 .. MaxDrafts /\ ControllerInv(capture, drafted) /\ DraftInv(draft, capture, drafted)
      /\ RoomInv(capture, calls) /\ MicInv(draft, capture, calls) /\ MaxChunks \in Nat /\ Len(capture.chunk) \in Nat
  BY IndIs DEF DictationInd
<1>2. calls = << >> /\ UNCHANGED <<draft, drafted>> /\ draft # None /\ draft.status = "recording"
  BY Acts DEF PauseDictation
<1>3. PICK e : e = capture'
  OBVIOUS
<1>4. StoppingTo("pause", draft, e)
  <2>1. "pause" \in {"pause", "finish"}
    OBVIOUS
  <2> QED
    BY <1>2, <1>3, <2>1, StoppingInv DEF PauseDictation
<1>5. PICK a \in ACall : <<Stopping("pause")>> = <<a>> /\ a.kind = "pause" /\ CallInv(<<a>>, draft, e)
  BY <1>4 DEF StoppingTo
<1>6. calls' = <<a>>
  <2>1. calls' = Append(<< >>, Stopping("pause"))
    BY <1>2 DEF PauseDictation
  <2>2. Append(<< >>, Stopping("pause")) = <<Stopping("pause")>>
    OBVIOUS
  <2> QED
    BY <1>5, <2>1, <2>2
<1>7. /\ ControllerInv(e, drafted) /\ Heard(e, drafted) = Heard(capture, drafted) /\ e.queue = capture.queue
      /\ Len(e.chunk) = Len(capture.chunk)
      /\ AllCut(capture) => AllCut(e)
      /\ e.session = capture.session /\ e.stream = capture.stream /\ ~e.continuing
  BY <1>4 DEF StoppingTo, RecorderStops, Kept
<1>8. DraftInv(draft, e, drafted)
  <2>1. \A words : WordsInv(words, capture, drafted) => WordsInv(words, e, drafted)
    BY <1>7, WordsSame
  <2>2. draft \in {None} \cup Draft /\ draft.content = draft.words /\ capture.session <= MaxSessions + Grace(draft)
    BY <1>1, <1>2, DraftIs
  <2> QED
    BY <1>1, <1>2, <1>7, <2>1, <2>2, DraftThen
<1>9. MicInv(draft, e, <<a>>)
  BY <1>2, <1>5, CallKinds DEF MicInv
<1>10. RoomInv(e, <<a>>)
  BY <1>1, <1>5, <1>7, CallKinds, RoomIs
<1> QED
  BY <1>1, <1>2, <1>3, <1>5, <1>6, <1>7, <1>8, <1>9, <1>10 DEF DictationInd

LEMMA FinishDictationInd == ASSUME DictationInd, PatientSpeaker, NoneIsNothing, FinishDictation PROVE DictationInd'
<1>1. /\ drafted \in 0 .. MaxDrafts /\ ControllerInv(capture, drafted) /\ DraftInv(draft, capture, drafted)
      /\ RoomInv(capture, calls) /\ MicInv(draft, capture, calls) /\ MaxChunks \in Nat /\ Len(capture.chunk) \in Nat
  BY IndIs DEF DictationInd
<1>2. calls = << >> /\ drafted' = drafted /\ draft # None /\ draft.status \in {"recording", "paused"}
  BY Acts DEF FinishDictation
<1>3. PICK e : e = capture'
  OBVIOUS
<1>a. PICK d : d = draft'
  OBVIOUS
<1>b. /\ draft \in Draft /\ draft.id = drafted /\ draft.content = draft.words
      /\ capture.session <= MaxSessions + Grace(draft)
  BY <1>1, <1>2, DraftIs
<1>c. /\ d \in Draft /\ d.status = "processing" /\ d.id = draft.id /\ d.words = draft.words /\ d.content = draft.words
  BY <1>a, <1>b DEF FinishDictation, Draft, State
<1>d. Grace(d) = Grace(draft) /\ d # None
  BY <1>2, <1>c, DraftIsSome DEF Grace
<1>4. StoppingTo("finish", d, e)
  <2>1. "finish" \in {"pause", "finish"} /\ d.status = IF "finish" = "pause" THEN "recording" ELSE "processing"
    BY <1>c
  <2> QED
    BY <1>2, <1>3, <2>1, StoppingInv DEF FinishDictation
<1>5. PICK a \in ACall : <<Stopping("finish")>> = <<a>> /\ a.kind = "finish" /\ CallInv(<<a>>, d, e)
  BY <1>4 DEF StoppingTo
<1>6. calls' = <<a>>
  <2>1. calls' = Append(<< >>, Stopping("finish"))
    BY <1>2 DEF FinishDictation
  <2>2. Append(<< >>, Stopping("finish")) = <<Stopping("finish")>>
    OBVIOUS
  <2> QED
    BY <1>5, <2>1, <2>2
<1>7. /\ ControllerInv(e, drafted) /\ Heard(e, drafted) = Heard(capture, drafted) /\ e.queue = capture.queue
      /\ Len(e.chunk) = Len(capture.chunk)
      /\ AllCut(capture) => AllCut(e)
      /\ e.session = capture.session /\ e.stream = capture.stream /\ ~e.continuing
  BY <1>4 DEF StoppingTo, RecorderStops, Kept
<1>8. DraftInv(d, e, drafted)
  <2>1. \A words : WordsInv(words, capture, drafted) => WordsInv(words, e, drafted)
    BY <1>7, WordsSame
  <2>2. d = None \/ d.status \notin {"recording", "processing"} => AllCut(e)
    BY <1>c, <1>d
  <2> QED
    BY <1>1, <1>2, <1>7, <1>b, <1>c, <1>d, <2>1, <2>2, DraftThen
<1>9. MicInv(d, e, <<a>>)
  BY <1>c, <1>d DEF MicInv
<1>10. RoomInv(e, <<a>>)
  BY <1>1, <1>5, <1>7, CallKinds, RoomIs
<1> QED
  BY <1>1, <1>2, <1>3, <1>a, <1>5, <1>6, <1>7, <1>8, <1>9, <1>10 DEF DictationInd

(* A call that is ready has seen the queue drained.                        *)
LEMMA ReadyIs ==
    ASSUME DictationInd, NEW i \in DOMAIN calls, Ready(i)
    PROVE  /\ capture.queue = << >> /\ Closed(capture) /\ AllCut(capture)
           /\ i = 1 /\ calls = <<calls[1]>> /\ calls[1] \in ACall
           /\ AtInv(calls[1], draft, capture) /\ KindInv(calls[1], draft, capture)
           /\ Returned(i) => calls' = << >>
<1>1. CallInv(calls, draft, capture) /\ ControllerInv(capture, drafted) /\ capture \in Controller
  BY IndIs
<1>2. /\ i = 1 /\ calls = <<calls[1]>> /\ calls[1] \in ACall
      /\ AtInv(calls[1], draft, capture) /\ KindInv(calls[1], draft, capture) /\ RemoveAt(calls, i) = << >>
  BY <1>1, CallIs
<1>3. calls[1].at \in {"queue", "drain"} /\ \A k \in DOMAIN capture.queue : capture.queue[k].chunk # calls[1].on
  BY <1>2 DEF Ready
<1>4. Closed(capture) /\ LastIs(capture, calls[1].on)
  BY <1>2, <1>3 DEF AtInv
<1>5. capture.queue = << >>
  <2> SUFFICES ASSUME capture.queue # << >> PROVE FALSE
    OBVIOUS
  <2>1. capture.queue \in Seq(Job)
    BY <1>1 DEF Controller
  <2>2. Len(capture.queue) \in DOMAIN capture.queue
    BY <2>1
  <2> QED
    BY <1>3, <1>4, <2>2 DEF LastIs
<1>6. AllCut(capture)
  <2> SUFFICES ASSUME NEW r \in DOMAIN capture.chunk, capture.chunk[r].state \in Unfinished PROVE FALSE
    BY DEF AllCut
  <2>1. capture.chunk[r].state = "queued"
    BY <1>4 DEF Unfinished, Closed, Running, Ending
  <2>2. DOMAIN capture.queue = {}
    BY <1>5
  <2> QED
    BY <1>1, <2>1, <2>2 DEF ControllerInv, QueueInv
<1> QED
  BY <1>2, <1>4, <1>5, <1>6 DEF Returned

(* What a call does when it is ready: the controller keeps its chunks and  *)
(* its queue, and its stream is closed.                                    *)
LEMMA ReadyInd ==
    ASSUME DictationInd, NoneIsNothing, capture.queue = << >>, AllCut(capture), ~IsStart(calls),
           NEW e, StreamStops(capture, e, drafted),
           NEW d \in {None} \cup Draft, d = None <=> draft = None,
           d # None => /\ d.status # "recording" /\ d.id = draft.id /\ d.words = draft.words /\ d.content = draft.words
                       /\ Grace(draft) <= Grace(d),
           NEW q, CallInv(q, d, e), ~IsStart(q)
    PROVE  IndOf(d, e, q, drafted)
<1>1. /\ ControllerInv(capture, drafted) /\ DraftInv(draft, capture, drafted)
      /\ RoomInv(capture, calls) /\ MaxChunks \in Nat /\ Len(capture.chunk) \in Nat
      /\ capture.session \in Nat /\ MaxSessions \in Nat
  BY IndIs
<1>2. /\ ControllerInv(e, drafted) /\ e.chunk = capture.chunk /\ e.queue = capture.queue
      /\ e.session = capture.session /\ e.stream = None /\ ~e.continuing
  BY DEF StreamStops
<1>3. \A words : WordsInv(words, capture, drafted) => WordsInv(words, e, drafted)
  <2>1. Heard(e, drafted) = Heard(capture, drafted)
    BY <1>2 DEF Heard
  <2> QED
    BY <1>2, <2>1, WordsSame
<1>4. AllCut(e)
  BY <1>2 DEF AllCut
<1>5. e.session <= MaxSessions + Grace(d)
  <2>1. capture.session <= MaxSessions + Grace(draft)
    BY <1>1, DraftIs
  <2>2. Grace(draft) \in Nat /\ Grace(d) \in Nat /\ Grace(draft) <= Grace(d)
    BY DEF Grace
  <2> QED
    BY <1>1, <1>2, <2>1, <2>2
<1>6. DraftInv(d, e, drafted)
  BY <1>1, <1>3, <1>4, <1>5, DraftThen
<1>7. MicInv(d, e, q)
  BY <1>2 DEF MicInv
<1>8. RoomInv(e, q)
  BY <1>1, <1>2, RoomIs
<1> QED
  BY <1>2, <1>6, <1>7, <1>8 DEF IndOf

LEMMA PausedInd ==
    ASSUME DictationInd, NoneIsNothing, NEW i \in DOMAIN calls, Paused(i)
    PROVE  DictationInd'
<1>1. /\ drafted \in 0 .. MaxDrafts /\ ControllerInv(capture, drafted) /\ DraftInv(draft, capture, drafted)
  BY IndIs DEF DictationInd
<1>2. /\ capture.queue = << >> /\ Closed(capture) /\ AllCut(capture)
      /\ i = 1 /\ calls = <<calls[1]>> /\ calls[1].kind = "pause" /\ KindInv(calls[1], draft, capture)
      /\ calls' = << >>
  BY ReadyIs DEF Paused
<1>3. ~IsStart(calls)
  BY <1>2, CallKinds
<1>4. PICK e : e = capture'
  OBVIOUS
<1>5. PICK listening \in BOOLEAN : listening = FALSE
  OBVIOUS
<1>6. StreamStops(capture, e, drafted)
  BY <1>1, <1>2, <1>4, <1>5, StopStreamInv DEF Paused
<1>7. PICK d : d = draft'
  OBVIOUS
<1>8. /\ d \in {None} \cup Draft /\ (d = None <=> draft = None)
      /\ d # None => /\ d.status \in {"interrupted", "paused"} /\ d.id = draft.id
                     /\ d.words = draft.words /\ d.content = draft.words /\ Grace(draft) <= Grace(d)
  <2>1. CASE draft = None
    BY <1>7, <2>1 DEF Paused, WithStatus
  <2>2. CASE draft # None /\ draft.status = "interrupted"
    <3>1. d = draft /\ draft.content = draft.words /\ Grace(draft) = 1 /\ draft \in Draft
      BY <1>1, <1>7, <2>2, DraftIs DEF Paused, Grace
    <3> QED
      BY <2>2, <3>1
  <2>3. CASE draft # None /\ draft.status # "interrupted"
    <3>1. d = WithStatus(draft, "paused", draft.reason)
      BY <1>7, <2>3 DEF Paused
    <3>2. draft \in {None} \cup Draft /\ draft.content = draft.words /\ draft.reason \in Reason
      BY <1>1, <2>3, DraftIs
    <3>3. "paused" \in State
      BY DEF State
    <3>4. /\ d \in {None} \cup Draft /\ (d = None <=> draft = None)
          /\ d.status = "paused" /\ d.id = draft.id /\ d.words = draft.words /\ d.content = draft.words
      BY <2>3, <3>1, <3>2, <3>3, StatusIs
    <3>5. Grace(draft) = 0 /\ Grace(d) = 0
      BY <1>2, <2>3, <3>4 DEF Grace, KindInv
    <3> QED
      BY <2>3, <3>4, <3>5
  <2> QED
    BY <2>1, <2>2, <2>3
<1>9. IndOf(d, e, << >>, drafted)
  BY <1>2, <1>3, <1>6, <1>8, NoCall, ReadyInd
<1> QED
  BY <1>1, <1>2, <1>4, <1>7, <1>9 DEF Paused, DictationInd, IndOf

LEMMA DrainedInd ==
    ASSUME DictationInd, NoneIsNothing, NEW i \in DOMAIN calls, Drained(i)
    PROVE  DictationInd'
<1>1. /\ drafted \in 0 .. MaxDrafts /\ ControllerInv(capture, drafted) /\ DraftInv(draft, capture, drafted)
      /\ capture \in Controller
  BY IndIs DEF DictationInd
<1>2. /\ capture.queue = << >> /\ Closed(capture) /\ AllCut(capture)
      /\ i = 1 /\ calls = <<calls[1]>> /\ calls[1] \in ACall /\ calls[1].kind = "finish"
      /\ KindInv(calls[1], draft, capture)
  BY ReadyIs DEF Drained
<1>3. ~IsStart(calls)
  BY <1>2, CallKinds
<1>4. PICK e : e = capture'
  OBVIOUS
<1>5. StreamStops(capture, e, drafted)
  BY <1>1, <1>2, <1>4, StopStreamInv DEF Drained
<1>6. /\ ControllerInv(e, drafted) /\ Closed(e) /\ e.queue = << >> /\ e.stream = None
  BY <1>2, <1>5 DEF StreamStops
<1>7. PICK b \in ACall : calls' = <<b>> /\ b.kind = "finish" /\ b.at = "drain"
  <2>1. calls' = [calls EXCEPT ![1].at = "drain", ![1].on = LastQueued(capture)]
    BY <1>2 DEF Drained
  <2>2. LastQueued(capture) \in Nat /\ << >> \in Seq(Nat)
    BY <1>1, LastIsLast, EmptySeq
  <2>3. AwaitingLast(calls', calls[1], "drain", LastQueued(capture))
    BY <1>2, <2>1, <2>2, CallAt
  <2> QED
    BY <1>2, <2>3 DEF AwaitingLast
<1>8. draft # None => draft.status \in {"processing", "interrupted"}
  BY <1>2 DEF KindInv
<1>9. CallInv(<<b>>, draft, e)
  <2>1. AtInv(b, draft, e)
    BY <1>6, <1>7 DEF AtInv, LastIs
  <2>2. KindInv(b, draft, e)
    BY <1>7, <1>8 DEF KindInv
  <2> QED
    BY <2>1, <2>2, OneCall
<1>10. IndOf(draft, e, <<b>>, drafted)
  <2>1. draft \in {None} \cup Draft /\ (draft # None => draft.content = draft.words)
    BY <1>1, DraftIs
  <2>2. Grace(draft) <= Grace(draft)
    BY DEF Grace
  <2>3. ~IsStart(<<b>>)
    BY <1>7, CallKinds
  <2> QED
    BY <1>2, <1>3, <1>5, <1>8, <1>9, <2>1, <2>2, <2>3, ReadyInd
<1> QED
  BY <1>1, <1>4, <1>7, <1>10 DEF Drained, DictationInd, IndOf

(* finish has returned, and the text is cleaned up or kept.                *)
LEMMA DeafInv ==
    ASSUME NEW c, NEW n, ControllerInv(c, n), Closed(c), c.stream = None, NEW e, e = [c EXCEPT !.listening = FALSE]
    PROVE  StreamStops(c, e, n)
<1>1. c \in Controller /\ RecorderInv(c, n) /\ QueueInv(c, n)
  BY DEF ControllerInv
<1>2. /\ e \in Controller /\ e.chunk = c.chunk /\ e.queue = c.queue
      /\ e.session = c.session /\ e.handling = c.handling /\ e.stream = None /\ e.continuing = c.continuing
      /\ e.recorder = c.recorder /\ e.armed = c.armed /\ e.live = c.live
      /\ e.checkpoint = c.checkpoint
  BY <1>1 DEF Controller
<1>3. Closed(e) /\ ~c.continuing
  BY <1>1, <1>2 DEF Closed, Running, Ending, RecorderInv
<1>4. RecorderInv(e, n)
  BY <1>1, <1>2, <1>3 DEF RecorderInv, Fresh, Running, Ending, Closed
<1>5. QueueInv(e, n)
  BY <1>1, <1>2 DEF QueueInv, AllCut
<1> QED
  BY <1>2, <1>3, <1>4, <1>5 DEF ControllerInv, StreamStops

ReviewOf(f, d) ==
    /\ d \in {None} \cup Draft /\ (d = None <=> f = None)
    /\ d # None => /\ d.status = "review" /\ d.id = f.id /\ d.words = f.words /\ d.content = f.words
                   /\ Grace(f) <= Grace(d)

LEMMA ReviewIs ==
    ASSUME NoneIsNothing, NEW f \in Draft
    PROVE  ReviewOf(f, [WithStatus(f, "review", None) EXCEPT !.content = f.words])
<1>1. PICK b : b = WithStatus(f, "review", None)
  OBVIOUS
<1>2. f # None /\ f \in {None} \cup Draft /\ "review" \in State /\ None \in Reason
  BY DraftIsSome DEF State, Reason
<1>3. /\ b \in {None} \cup Draft /\ b # None /\ b.status = "review" /\ b.id = f.id /\ b.words = f.words
  BY <1>1, <1>2, StatusIs
<1>4. PICK words \in Seq(Nat) : words = f.words
  BY DEF Draft
<1>5. PICK d : d = [b EXCEPT !.content = words]
  OBVIOUS
<1>6. d \in Draft /\ d.status = "review" /\ d.id = f.id /\ d.words = f.words /\ d.content = words
  BY <1>3, <1>4, <1>5 DEF Draft
<1>7. d # None
  BY <1>6, DraftIsSome
<1>8. Grace(d) = 1 /\ Grace(f) \in {0, 1}
  BY <1>2, <1>6, <1>7 DEF Grace
<1> QED
  BY <1>1, <1>2, <1>4, <1>5, <1>6, <1>7, <1>8 DEF ReviewOf

LEMMA FinishedInd ==
    ASSUME DictationInd, NoneIsNothing, NEW i \in DOMAIN calls, Finished(i)
    PROVE  DictationInd'
<1>1. /\ drafted \in 0 .. MaxDrafts /\ ControllerInv(capture, drafted) /\ DraftInv(draft, capture, drafted)
      /\ capture \in Controller
  BY IndIs DEF DictationInd
<1>2. /\ capture.queue = << >> /\ Closed(capture) /\ AllCut(capture)
      /\ i = 1 /\ calls = <<calls[1]>> /\ calls[1] \in ACall /\ calls[1].at = "drain"
      /\ AtInv(calls[1], draft, capture) /\ KindInv(calls[1], draft, capture)
      /\ Returned(i) => calls' = << >>
  BY ReadyIs DEF Finished
<1>3. calls[1].kind = "finish" /\ capture.stream = None
  BY <1>2 DEF AtInv
<1>4. ~IsStart(calls) /\ (draft # None => draft.status \in {"processing", "interrupted"})
  BY <1>2, <1>3, CallKinds DEF KindInv
<1>5. PICK e : e = capture'
  OBVIOUS
<1>6. StreamStops(capture, e, drafted)
  BY <1>1, <1>2, <1>3, <1>5, DeafInv DEF Finished
<1>7. PICK d : d = draft'
  OBVIOUS
<1>8. draft \in {None} \cup Draft /\ (draft # None => draft \in Draft /\ draft.content = draft.words /\ draft.words \in Seq(Nat))
  BY <1>1, DraftIs
<1>9. Grace(draft) <= Grace(draft)
  BY DEF Grace
<1>10. \/ Returned(i) /\ d = draft
       \/ Returned(i) /\ d = Interrupted(draft, "transcription_failure")
       \/ draft # None /\ calls' = [calls EXCEPT ![1].at = "clean", ![1].text = draft.words] /\ d = draft
       \/ draft # None /\ Returned(i) /\ d = [WithStatus(draft, "review", None) EXCEPT !.content = draft.words]
  BY <1>2, <1>7 DEF Finished
<1>11. CASE Returned(i) /\ d = draft
  <2>1. IndOf(d, e, << >>, drafted)
    BY <1>2, <1>4, <1>6, <1>8, <1>9, <1>11, NoCall, ReadyInd
  <2> QED
    BY <1>1, <1>2, <1>5, <1>7, <1>11, <2>1 DEF Finished, DictationInd, IndOf
<1>12. CASE Returned(i) /\ d = Interrupted(draft, "transcription_failure")
  <2>1. "transcription_failure" \in Reason
    BY DEF Reason
  <2>2. InterruptedIn(draft, d, capture)
    BY <1>1, <1>12, <2>1, InterruptedIs
  <2>3. /\ d \in {None} \cup Draft /\ (d = None <=> draft = None)
        /\ d # None => d.status = "interrupted" /\ d.id = draft.id /\ d.words = draft.words /\ d.content = draft.words
    BY <2>2 DEF InterruptedIn
  <2>4. d # None => Grace(draft) <= Grace(d)
    BY <2>3 DEF Grace
  <2>5. IndOf(d, e, << >>, drafted)
    BY <1>2, <1>4, <1>6, <2>3, <2>4, NoCall, ReadyInd
  <2> QED
    BY <1>1, <1>2, <1>5, <1>7, <1>12, <2>5 DEF Finished, DictationInd, IndOf
<1>13. CASE draft # None /\ calls' = [calls EXCEPT ![1].at = "clean", ![1].text = draft.words] /\ d = draft
  <2>1. AwaitingText(calls', calls[1], "clean", draft.words)
    <3>1. 0 \in Nat
      OBVIOUS
    <3> QED
      BY <1>2, <1>8, <1>13, <3>1, CallAt
  <2>2. PICK b \in ACall : calls' = <<b>> /\ b.kind = "finish" /\ b.at = "clean" /\ b.text = draft.words
    BY <1>3, <2>1 DEF AwaitingText
  <2>3. AtInv(b, draft, e)
    BY <1>2, <1>6, <2>2 DEF AtInv, StreamStops
  <2>4. KindInv(b, draft, e)
    BY <1>4, <2>2 DEF KindInv
  <2>5. CallInv(<<b>>, draft, e) /\ ~IsStart(<<b>>)
    BY <2>2, <2>3, <2>4, OneCall, CallKinds
  <2>6. IndOf(draft, e, <<b>>, drafted)
    BY <1>2, <1>4, <1>6, <1>8, <1>9, <2>5, ReadyInd
  <2> QED
    BY <1>1, <1>5, <1>7, <1>13, <2>2, <2>6 DEF Finished, DictationInd, IndOf
<1>14. CASE draft # None /\ Returned(i) /\ d = [WithStatus(draft, "review", None) EXCEPT !.content = draft.words]
  <2>1. ReviewOf(draft, d)
    BY <1>8, <1>14, ReviewIs
  <2>2. IndOf(d, e, << >>, drafted)
    BY <1>2, <1>4, <1>6, <2>1, NoCall, ReadyInd DEF ReviewOf
  <2> QED
    BY <1>1, <1>2, <1>5, <1>7, <1>14, <2>2 DEF Finished, DictationInd, IndOf
<1> QED
  BY <1>10, <1>11, <1>12, <1>13, <1>14

LEMMA CleanedInd ==
    ASSUME DictationInd, NoneIsNothing, NEW i \in DOMAIN calls, Cleaned(i)
    PROVE  DictationInd'
<1>1. /\ drafted \in 0 .. MaxDrafts /\ ControllerInv(capture, drafted) /\ DraftInv(draft, capture, drafted)
      /\ CallInv(calls, draft, capture) /\ capture \in Controller
  BY IndIs DEF DictationInd
<1>2. /\ i = 1 /\ calls = <<calls[1]>> /\ calls[1] \in ACall /\ calls[1].at = "clean"
      /\ AtInv(calls[1], draft, capture) /\ KindInv(calls[1], draft, capture) /\ RemoveAt(calls, i) = << >>
  BY <1>1, CallIs DEF Cleaned
<1>3. /\ calls[1].kind = "finish" /\ capture.stream = None /\ capture.queue = << >> /\ Closed(capture)
      /\ draft # None => calls[1].text = draft.words
      /\ calls' = << >> /\ UNCHANGED <<drafted, capture>>
  BY <1>2 DEF AtInv, Cleaned, Returned
<1>4. ~IsStart(calls)
  BY <1>2, <1>3, CallKinds
<1>5. AllCut(capture)
  <2> SUFFICES ASSUME NEW r \in DOMAIN capture.chunk, capture.chunk[r].state \in Unfinished PROVE FALSE
    BY DEF AllCut
  <2>1. capture.chunk[r].state = "queued"
    BY <1>3 DEF Unfinished, Closed, Running, Ending
  <2>2. DOMAIN capture.queue = {}
    BY <1>3
  <2> QED
    BY <1>1, <2>1, <2>2 DEF ControllerInv, QueueInv
<1>6. StreamStops(capture, capture, drafted)
  BY <1>1, <1>3 DEF StreamStops, ControllerInv, RecorderInv, Closed, Controller
<1>7. PICK d : d = draft'
  OBVIOUS
<1>8. ReviewOf(draft, d)
  <2>1. CASE draft = None
    BY <1>7, <2>1 DEF Cleaned, ReviewOf
  <2>2. CASE draft # None
    <3>1. d = [WithStatus(draft, "review", None) EXCEPT !.content = draft.words]
      BY <1>2, <1>3, <1>7, <2>2 DEF Cleaned
    <3>2. draft \in Draft
      BY <1>1, <2>2, DraftIs
    <3> QED
      BY <3>1, <3>2, ReviewIs
  <2> QED
    BY <2>1, <2>2
<1>9. IndOf(d, capture, << >>, drafted)
  BY <1>3, <1>4, <1>5, <1>6, <1>8, NoCall, ReadyInd DEF ReviewOf
<1> QED
  BY <1>1, <1>3, <1>7, <1>9 DEF DictationInd, IndOf

LEMMA KeepDictationInd == ASSUME DictationInd, PatientSpeaker, NoneIsNothing, KeepDictation PROVE DictationInd'
<1>1. /\ drafted \in 0 .. MaxDrafts /\ ControllerInv(capture, drafted) /\ DraftInv(draft, capture, drafted)
      /\ RoomInv(capture, calls) /\ MicInv(draft, capture, calls)
      /\ capture.session \in Nat /\ MaxSessions \in Nat
  BY IndIs DEF DictationInd
<1>2. /\ calls = << >> /\ UNCHANGED <<drafted, calls, capture>> /\ draft # None /\ draft.status = "review"
      /\ draft' = None
  BY Acts DEF KeepDictation
<1>3. capture.stream = None
  BY <1>1, <1>2, NoCall DEF MicInv
<1>4. AllCut(capture) /\ capture.session <= MaxSessions + 1
  BY <1>1, <1>2 DEF DraftInv
<1>5. DraftInv(None, capture, drafted)
  <2>1. capture.session <= MaxSessions + 2
    BY <1>1, <1>4
  <2> QED
    BY <1>4, <2>1 DEF DraftInv
<1>6. MicInv(None, capture, calls)
  BY <1>3 DEF MicInv
<1> QED
  BY <1>1, <1>2, <1>5, <1>6, NoCall DEF DictationInd

(* A reload drops the chunks that are on their way.                        *)
ReloadedAs(c, e, n) ==
    /\ ControllerInv(e, n) /\ AllCut(e) /\ e.session = 0 /\ e.stream = None /\ ~e.continuing
    /\ Len(e.chunk) = Len(c.chunk) /\ \A words : WordsInv(words, c, n) => WordsInv(words, e, n)

LEMMA SeqIs == ASSUME NEW S, NEW n \in Nat, NEW s \in [1 .. n -> S] PROVE s \in Seq(S) /\ Len(s) = n
<1>1. s \in Seq(S)
  BY SeqDef
<1> QED
  BY <1>1, LenProperties

LEMMA NewIs ==
    ASSUME NEW all \in Seq(Chunk), NEW e, e = NewCapture(all)
    PROVE  /\ e \in Controller /\ e.session = 0 /\ ~e.handling /\ e.stream = None /\ e.live = {} /\ e.recorder = None
           /\ ~e.continuing /\ e.armed = {} /\ e.queue = << >> /\ e.chunk = all
<1>1. << >> \in Seq(Job)
  BY EmptySeq
<1> QED
  BY <1>1 DEF NewCapture, Controller

LEMMA NewInv ==
    ASSUME NEW c, NEW n, ControllerInv(c, n), NEW all \in Seq(Chunk), Len(all) = Len(c.chunk),
           \A r \in DOMAIN c.chunk :
              /\ all[r].draft = c.chunk[r].draft
              /\ all[r].cut <=> (c.chunk[r].cut \/ c.chunk[r].state \in Unfinished)
              /\ all[r].state = IF c.chunk[r].state \in Unfinished THEN "dropped" ELSE c.chunk[r].state,
           NEW e, e \in Controller, e.session = 0, ~e.handling, e.stream = None, e.live = {}, e.recorder = None,
           ~e.continuing, e.armed = {}, e.queue = << >>, e.chunk = all
    PROVE  ReloadedAs(c, e, n)
<1>1. c \in Controller /\ QueueInv(c, n)
  BY DEF ControllerInv
<1>2. PICK len \in Nat : len = Len(c.chunk) /\ DOMAIN c.chunk = 1 .. len /\ \A r \in 1 .. len : c.chunk[r] \in Chunk
  BY <1>1, ChunksAre
<1>3. DOMAIN all = 1 .. len
  BY <1>2, LenProperties
<1>4. \A r \in 1 .. len : all[r].state \notin Unfinished
  BY <1>2 DEF Unfinished
<1>5. DOMAIN e.chunk = 1 .. len /\ DOMAIN e.queue = {} /\ Len(e.queue) = 0
  BY <1>3
<1>6. Closed(e) /\ AllCut(e)
  BY <1>4, <1>5 DEF Closed, AllCut, Running, Ending, Unfinished
<1>7. RecorderInv(e, n)
  BY <1>5, <1>6 DEF RecorderInv, Fresh, Closed
<1>8. QueueInv(e, n)
  <2>1. ASSUME NEW r \in 1 .. len PROVE e.chunk[r].draft <= n /\ (e.chunk[r].state = "dropped" => e.chunk[r].cut)
    BY <1>1, <1>2 DEF QueueInv
  <2>2. \A r \in 1 .. len : e.chunk[r].state # "queued"
    BY <1>4 DEF Unfinished
  <2>3. Len(e.queue) <= Backlog
    BY <1>5, CaptureAssumption
  <2> QED
    BY <1>5, <1>6, <2>1, <2>2, <2>3 DEF QueueInv
<1>9. Heard(e, n) = Heard(c, n)
  BY <1>2, <1>5 DEF Heard, Unfinished
<1>10. \A words : WordsInv(words, c, n) => WordsInv(words, e, n)
  BY <1>5, <1>9 DEF WordsInv
<1> QED
  BY <1>6, <1>7, <1>8, <1>10 DEF ControllerInv, ReloadedAs

LEMMA ReloadInv ==
    ASSUME NEW c, NEW n, ControllerInv(c, n),
           NEW e, e = NewCapture([i \in DOMAIN c.chunk |->
                                    [c.chunk[i] EXCEPT !.state = IF @ \in Unfinished THEN "dropped" ELSE @,
                                                       !.cut = @ \/ c.chunk[i].state \in Unfinished]])
    PROVE  ReloadedAs(c, e, n)
<1> DEFINE len == Len(c.chunk)
           k(r) == [c.chunk[r] EXCEPT !.state = IF @ \in Unfinished THEN "dropped" ELSE @,
                                      !.cut = @ \/ c.chunk[r].state \in Unfinished]
<1>1. PICK all : all = [r \in DOMAIN c.chunk |-> k(r)]
  OBVIOUS
<1>2. len \in Nat /\ DOMAIN c.chunk = 1 .. len /\ \A r \in 1 .. len : c.chunk[r] \in Chunk
  BY ChunksAre DEF ControllerInv
<1>3. ASSUME NEW r \in 1 .. len
      PROVE  /\ k(r) \in Chunk /\ k(r).draft = c.chunk[r].draft
             /\ k(r).cut <=> (c.chunk[r].cut \/ c.chunk[r].state \in Unfinished)
             /\ k(r).state = IF c.chunk[r].state \in Unfinished THEN "dropped" ELSE c.chunk[r].state
  <2>1. PICK b : b = c.chunk[r]
    OBVIOUS
  <2>2. b \in Chunk
    BY <1>2, <2>1
  <2>3. PICK state : state = IF b.state \in Unfinished THEN "dropped" ELSE b.state
    OBVIOUS
  <2>4. state \in {"heard", "silent", "failed", "dropped"}
    BY <2>2, <2>3 DEF Chunk
  <2>5. PICK cut \in BOOLEAN : cut <=> (b.cut \/ b.state \in Unfinished)
    <3>1. (b.cut \/ b.state \in Unfinished) \in BOOLEAN
      OBVIOUS
    <3> QED
      BY <3>1
  <2>6. PICK d : d = [b EXCEPT !.state = state]
    OBVIOUS
  <2>7. d \in Chunk /\ d.draft = b.draft /\ d.cut = b.cut /\ d.state = state
    BY <2>2, <2>4, <2>6 DEF Chunk
  <2>8. PICK f : f = [d EXCEPT !.cut = d.cut \/ b.state \in Unfinished]
    OBVIOUS
  <2>9. f \in Chunk /\ f.draft = d.draft /\ f.state = d.state /\ (f.cut <=> (d.cut \/ b.state \in Unfinished))
    BY <2>7, <2>8 DEF Chunk
  <2>10. k(r) = f
    BY <2>1, <2>3, <2>6, <2>8
  <2> HIDE DEF k
  <2> QED
    BY <2>1, <2>3, <2>7, <2>9, <2>10
<1>4. e = NewCapture(all)
  BY <1>1
<1> HIDE DEF len, k
<1>5. all \in [1 .. len -> Chunk] /\ \A r \in 1 .. len : all[r] = k(r)
  BY <1>1, <1>2, <1>3
<1>6. all \in Seq(Chunk) /\ Len(all) = len
  BY <1>2, <1>5, SeqIs
<1>7. \A r \in DOMAIN c.chunk :
        /\ all[r].draft = c.chunk[r].draft
        /\ all[r].cut <=> (c.chunk[r].cut \/ c.chunk[r].state \in Unfinished)
        /\ all[r].state = IF c.chunk[r].state \in Unfinished THEN "dropped" ELSE c.chunk[r].state
  BY <1>2, <1>3, <1>5
<1>8. /\ e \in Controller /\ e.session = 0 /\ ~e.handling /\ e.stream = None /\ e.live = {} /\ e.recorder = None
      /\ ~e.continuing /\ e.armed = {} /\ e.queue = << >> /\ e.chunk = all
  BY <1>4, <1>6, NewIs
<1> QED
  BY <1>6, <1>7, <1>8, NewInv DEF len

LEMMA ReloadInd == ASSUME DictationInd, NoneIsNothing, Reload PROVE DictationInd'
<1>1. /\ drafted \in 0 .. MaxDrafts /\ ControllerInv(capture, drafted) /\ DraftInv(draft, capture, drafted)
      /\ RoomInv(capture, calls) /\ MaxSessions \in Nat /\ MaxChunks \in Nat /\ Len(capture.chunk) \in Nat
      /\ capture \in Controller
  BY IndIs DEF DictationInd
<1>2. drafted' = drafted /\ calls' = << >> /\ draft # None
  BY DEF Reload
<1>3. PICK e : e = capture'
  OBVIOUS
<1>4. ReloadedAs(capture, e, drafted)
  BY <1>1, <1>3, ReloadInv DEF Reload
<1>5. /\ ControllerInv(e, drafted) /\ AllCut(e) /\ e.session = 0 /\ e.stream = None /\ ~e.continuing
      /\ Len(e.chunk) = Len(capture.chunk)
      /\ \A words : WordsInv(words, capture, drafted) => WordsInv(words, e, drafted)
  BY <1>4 DEF ReloadedAs
<1>6. PICK d : d = draft'
  OBVIOUS
<1>7. /\ d \in {None} \cup Draft /\ d # None /\ d.id = draft.id /\ d.words = draft.words /\ d.content = draft.words
      /\ d.status \notin Active
  <2>1. draft \in {None} \cup Draft /\ draft.content = draft.words
    BY <1>1, <1>2, DraftIs
  <2>2. CASE draft.status \in Active
    <3>1. d = Interrupted(draft, "storage_failure") /\ "storage_failure" \in Reason
      BY <1>6, <2>2 DEF Reload, Reason
    <3>2. InterruptedIn(draft, d, capture)
      BY <1>1, <3>1, InterruptedIs
    <3> QED
      BY <1>2, <3>2 DEF InterruptedIn, Active
  <2>3. CASE draft.status \notin Active
    <3>1. d = draft
      BY <1>6, <2>3 DEF Reload
    <3> QED
      BY <1>2, <2>1, <2>3, <3>1
  <2> QED
    BY <2>2, <2>3
<1>8. e.session <= MaxSessions + Grace(d)
  <2>1. Grace(d) \in Nat
    BY DEF Grace
  <2> QED
    BY <1>1, <1>5, <2>1
<1>9. DraftInv(d, e, drafted)
  BY <1>1, <1>2, <1>5, <1>7, <1>8, DraftThen
<1>10. MicInv(d, e, << >>)
  BY <1>5, <1>7 DEF MicInv, Active
<1>11. RoomInv(e, << >>)
  BY <1>1, <1>5, NoCall, RoomIs
<1> QED
  BY <1>1, <1>2, <1>3, <1>5, <1>6, <1>9, <1>10, <1>11, NoCall DEF DictationInd

-----------------------------------------------------------------------------
LEMMA DictationInit == ASSUME NoneIsNothing, Init PROVE DictationInd
<1>1. << >> \in Seq(Chunk) /\ capture = NewCapture(<< >>) /\ draft = None /\ drafted = 0 /\ calls = << >>
  BY EmptySeq DEF Init
<1>2. PICK c : c = capture
  OBVIOUS
<1>3. /\ c \in Controller /\ c.session = 0 /\ ~c.handling /\ c.stream = None /\ c.live = {} /\ c.recorder = None
      /\ ~c.continuing /\ c.armed = {} /\ c.queue = << >> /\ c.chunk = << >>
  BY <1>1, <1>2, NewIs
<1>4. DOMAIN c.chunk = {} /\ DOMAIN c.queue = {} /\ Len(c.queue) = 0 /\ Len(c.chunk) = 0
  BY <1>3
<1>5. /\ MaxDrafts \in Nat /\ MaxChunks \in Nat /\ MaxSessions \in Nat /\ Backlog \in Nat
  BY CaptureAssumption
<1>6. ControllerInv(c, 0) /\ AllCut(c)
  BY <1>3, <1>4, <1>5 DEF ControllerInv, RecorderInv, QueueInv, Fresh, AllCut
<1>7. DraftInv(None, c, 0)
  BY <1>3, <1>5, <1>6 DEF DraftInv
<1>8. MicInv(None, c, << >>)
  BY <1>3 DEF MicInv
<1>9. RoomInv(c, << >>)
  BY <1>3, <1>4, <1>5, NoCall, RoomIs
<1> QED
  BY <1>1, <1>2, <1>5, <1>6, <1>7, <1>8, <1>9, NoCall DEF DictationInd

LEMMA DictationStep == ASSUME PatientSpeaker, NoneIsNothing, DictationInd, [Next]_vars PROVE DictationInd'
<1>1. CASE UNCHANGED vars
  BY <1>1 DEF vars, DictationInd
<1>2. CASE StartDictation
  BY <1>2, StartDictationInd
<1>3. CASE ResumeDictation
  BY <1>3, ResumeDictationInd
<1>4. CASE PauseDictation
  BY <1>4, PauseDictationInd
<1>5. CASE FinishDictation
  BY <1>5, FinishDictationInd
<1>6. CASE KeepDictation
  BY <1>6, KeepDictationInd
<1>7. CASE DiscardDictation
  BY <1>7, DiscardDictationInd
<1>8. ASSUME NEW i \in DOMAIN calls, Granted(i) PROVE DictationInd'
  BY <1>8, GrantedInd
<1>9. ASSUME NEW i \in DOMAIN calls, Denied(i) PROVE DictationInd'
  BY <1>9, DeniedInd
<1>10. ASSUME NEW i \in DOMAIN calls, Woken(i) PROVE DictationInd'
  BY <1>10, WokenInd
<1>11. ASSUME NEW r \in DOMAIN capture.chunk, Checkpoint(r) PROVE DictationInd'
  BY <1>11, CheckpointInd
<1>12. CASE Transcription
  BY <1>12, TranscribedInd DEF Transcription
<1>13. CASE Stopped
  BY <1>13, StopEventInd DEF Stopped
<1>14. ASSUME NEW i \in DOMAIN calls, Paused(i) PROVE DictationInd'
  BY <1>14, PausedInd
<1>15. ASSUME NEW i \in DOMAIN calls, Drained(i) PROVE DictationInd'
  BY <1>15, DrainedInd
<1>16. ASSUME NEW i \in DOMAIN calls, Finished(i) PROVE DictationInd'
  BY <1>16, FinishedInd
<1>17. ASSUME NEW i \in DOMAIN calls, Cleaned(i) PROVE DictationInd'
  BY <1>17, CleanedInd
<1>18. CASE Lifecycle
  BY <1>18, LifecycleInd
<1>19. CASE StorageFails
  BY <1>19, StorageFailsInd
<1>20. CASE Reload
  BY <1>20, ReloadInd
<1> QED
  BY <1>1, <1>2, <1>3, <1>4, <1>5, <1>6, <1>7, <1>8, <1>9, <1>10, <1>11, <1>12, <1>13, <1>14, <1>15, <1>16, <1>17,
     <1>18, <1>19, <1>20 DEF Next, Resumed

LEMMA DictationIsSafe ==
    ASSUME NoneIsNothing, DictationInd
    PROVE  MicrophoneInv /\ OwnWords /\ ReviewIsComplete
<1>1. /\ drafted \in 0 .. MaxDrafts /\ drafted \in Nat /\ ControllerInv(capture, drafted)
      /\ DraftInv(draft, capture, drafted)
      /\ CallInv(calls, draft, capture) /\ MicInv(draft, capture, calls) /\ RoomInv(capture, calls)
      /\ MaxChunks \in Nat /\ MaxSessions \in Nat /\ capture.session \in Nat /\ Len(capture.chunk) \in Nat
  BY IndIs DEF DictationInd
<1>2. /\ draft \in {None} \cup Draft
      /\ draft # None => draft \in Draft /\ draft.id = drafted /\ draft.content = draft.words
                         /\ WordsInv(draft.words, capture, drafted)
      /\ capture.session <= MaxSessions + Grace(draft)
      /\ draft = None \/ draft.status \notin {"recording", "processing"} => AllCut(capture)
  BY <1>1, DraftIs
<1>3. RecorderInv(capture, drafted) /\ QueueInv(capture, drafted) /\ capture \in Controller
  BY <1>1 DEF ControllerInv
<1>4. TypeOK
  <2>1. draft # None => draft.id \in 1 .. drafted /\ draft.status \in State
    BY <1>1, <1>2 DEF Draft
  <2>2. capture.session \in 0 .. MaxSessions + 2
    <3>1. Grace(draft) \in 0 .. 2
      BY DEF Grace
    <3> QED
      BY <1>1, <1>2, <3>1
  <2>3. Len(capture.chunk) <= MaxChunks
    BY <1>1, RoomIs
  <2>4. Len(capture.queue) <= Backlog /\ (capture.recorder # None => capture.recorder \in DOMAIN capture.chunk)
    BY <1>3 DEF QueueInv, RecorderInv
  <2> QED
    BY <1>1, <2>1, <2>2, <2>3, <2>4 DEF TypeOK
<1>5. /\ IsPause(calls) => \E i \in DOMAIN calls : calls[i].kind = "pause"
      /\ IsWake(calls) => AtWake
  <2>1. CASE calls = << >>
    BY <2>1, NoCall
  <2>2. CASE calls # << >>
    <3>1. PICK a \in ACall : calls = <<a>>
      BY <1>1, <2>2 DEF CallInv
    <3>2. 1 \in DOMAIN calls /\ calls[1] = a
      BY <3>1
    <3> QED
      BY <3>1, <3>2, CallKinds DEF AtWake
  <2> QED
    BY <2>1, <2>2
<1>6. RecordingMeansRecording
  BY <1>1, <1>3, <1>5 DEF RecordingMeansRecording, MicInv, RecorderInv, Ending
<1>7. MicrophoneOff
  <2>1. capture.live # {} => capture.stream # None
    BY <1>3 DEF RecorderInv
  <2> QED
    BY <1>1, <1>5, <2>1 DEF MicrophoneOff, MicInv, Active
<1>8. OwnWords
  BY <1>2 DEF OwnWords, WordsInv, Heard
<1>9. ReviewIsComplete
  <2> SUFFICES ASSUME draft # None, draft.status = "review", NEW r \in DOMAIN capture.chunk,
                      capture.chunk[r].draft = draft.id, ~capture.chunk[r].cut
               PROVE  /\ capture.chunk[r].state \in {"heard", "silent", "failed"}
                      /\ capture.chunk[r].state = "heard" => \E i \in DOMAIN draft.words : draft.words[i] = r
    BY <1>2 DEF ReviewIsComplete
  <2>1. capture.chunk[r].state \notin Unfinished /\ capture.chunk[r].state # "dropped"
    BY <1>2, <1>3 DEF AllCut, QueueInv
  <2>2. capture.chunk[r] \in Chunk
    BY <1>3, ChunksAre
  <2>3. capture.chunk[r].state \in {"heard", "silent", "failed"}
    BY <2>1, <2>2 DEF Chunk
  <2> QED
    BY <1>2, <2>3 DEF WordsInv, Heard
<1> QED
  BY <1>4, <1>6, <1>7, <1>8, <1>9 DEF MicrophoneInv

-----------------------------------------------------------------------------
(* The theorems, of a patient speaker.                                     *)

LEMMA DictationIsInd == ASSUME PatientSpeaker, NoneIsNothing PROVE Spec => []DictationInd
<1>1. Init => DictationInd
  BY DictationInit
<1>2. DictationInd /\ [Next]_vars => DictationInd'
  BY DictationStep
<1> QED
  BY <1>1, <1>2, PTL DEF Spec

(* The microphone records while the draft says so, and is closed when no   *)
(* dictation wants it: start, the checkpoints, pause, finish, cancel and   *)
(* every interruption of capture.ts, however they are interleaved with the *)
(* recorder's stop events and the requests under way.                      *)
THEOREM MicrophoneOfAPatientSpeaker == ASSUME PatientSpeaker, NoneIsNothing PROVE Spec => []MicrophoneInv
<1>1. DictationInd => MicrophoneInv
  BY DictationIsSafe
<1> QED
  BY <1>1, DictationIsInd, PTL

(* A transcription is appended to the draft whose session asked for it, in *)
(* the order of the recordings, and to no later dictation.                 *)
THEOREM WordsOfThisDictation == ASSUME PatientSpeaker, NoneIsNothing PROVE Spec => []OwnWords
<1>1. DictationInd => OwnWords
  BY DictationIsSafe
<1> QED
  BY <1>1, DictationIsInd, PTL

(* A draft comes up for review when every recording of it that no          *)
(* interruption overtook has been transcribed, and holds what was heard.   *)
THEOREM ReviewHasEverything == ASSUME PatientSpeaker, NoneIsNothing PROVE Spec => []ReviewIsComplete
<1>1. DictationInd => ReviewIsComplete
  BY DictationIsSafe
<1> QED
  BY <1>1, DictationIsInd, PTL
=============================================================================
