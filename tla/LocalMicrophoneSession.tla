------------------------ MODULE LocalMicrophoneSession ------------------------
(***************************************************************************)
(* LocalMicrophoneIngressSession (app/audio_ingress/local_microphone.py)   *)
(* with the threads that use it in live_dashboard/app.py:                  *)
(*   - the capture thread (WebRTC callback or relay worker) hands in       *)
(*     normalised PCM and reports the end of a media track;                *)
(*   - the dashboard pauses, resumes, finishes and resets the call;        *)
(*   - one ASR worker prepares the model, drains chunk by chunk and        *)
(*     publishes how the run ended.                                        *)
(* Every session method runs under one condition's lock and is one step;   *)
(* between two methods of the worker the other threads interleave.         *)
(*                                                                         *)
(* PCM is counted in units; ChunkUnits of them make the two-second chunk.  *)
(* Units are numbered as they enter the session, so a chunk is the run of  *)
(* units [first, count] and loss or replay of audio is visible.            *)
(***************************************************************************)
EXTENDS Naturals, Sequences

CONSTANTS
    ChunkUnits,     \* LOCAL_MIC_CHUNK_BYTES, in units
    MaxQueue,       \* max_queue_depth
    HistoryLimit,   \* duplicate_history_limit of the owned boundary
    MaxUnits,       \* bound on the PCM units captured in a behaviour
    MaxGeneration   \* bound on the capture generations in a behaviour

\* The session and its boundary reject limits below one.
ASSUME SessionAssumption == /\ ChunkUnits \in Nat \ {0}
                            /\ MaxQueue \in Nat \ {0}
                            /\ HistoryLimit \in Nat \ {0}
                            /\ MaxUnits \in Nat
                            /\ MaxGeneration \in Nat \ {0}

Batches == [first : 1..MaxUnits, count : 1..ChunkUnits]
PcmDuration == [b \in Batches |-> b.count]
PcmFormat == "pcm_s16le_16khz_mono"

INSTANCE IngressStream WITH Payloads <- Batches, Duration <- PcmDuration,
                            Formats <- {PcmFormat}

VARIABLES
    mic,        \* fields of the session and of the boundary it owns
    worker,     \* program counter of the ASR worker
    cancelled,  \* the execution resource's cancellation event
    resetting,  \* the dashboard closed the session, cancel() still to come
    outcome     \* terminal snapshot the worker published, or "running"

vars == <<mic, worker, cancelled, resetting, outcome>>

Statuses == {"PERMISSION_PENDING", "READY", "STREAMING", "PAUSING", "PAUSED",
             "RECONNECTING", "STOP_REQUESTED", "COMPLETED", "FAILED",
             "OVERLOADED"}
Readinesses == {"PREPARING_MODEL", "WARMING_UP", "READY_TO_CAPTURE",
                "STREAMING", "FAILED"}
WorkerSteps == {"loading", "warming", "starting", "waiting", "processing",
                "finishing", "reporting", "excepting", "failing", "stopped"}
Outcomes == {"running", "COMPLETED", "CANCELLED", "MICROPHONE_OVERLOADED",
             "FAILED", "MODEL_PREPARATION_FAILED"}

Empty == [first |-> 0, count |-> 0]

Init ==
    /\ mic = [status         |-> "PERMISSION_PENDING",
              readiness      |-> "PREPARING_MODEL",
              live           |-> TRUE,      \* capability.active
              generation     |-> 1,
              seq            |-> 0,
              buffer         |-> Empty,
              pausePending   |-> FALSE,
              stopStatus     |-> "none",    \* _capture_stop_status
              inFlight       |-> 0,
              endReason      |-> "none",
              terminalStatus |-> "none",
              endEmitted     |-> FALSE,
              closed         |-> FALSE,
              phase          |-> "none",    \* the stream in the boundary
              stream         |-> NewStream(PcmFormat, 0),
              captured       |-> 0,         \* history: units handed in
              timeline       |-> <<>>,      \* history: chunks admitted
              delivered      |-> 0]         \* history: chunks drained
    /\ worker = "loading"
    /\ cancelled = FALSE
    /\ resetting = FALSE
    /\ outcome = "running"

-----------------------------------------------------------------------------
(* Session methods, as functions from session state to session state *)

Retained(m) == IF m.phase = "active" THEN Len(m.stream.queue) ELSE 0

\* _emit_end: the END event; the boundary drops what is still queued.
EndAccepted(m) == m.phase = "active" /\ EndReason(m.stream, m.seq) = "ended"

EmitEnd(m) ==
    IF m.endEmitted \/ ~EndAccepted(m) THEN m
    ELSE [m EXCEPT
            !.phase = IF m.endReason = "completed" THEN "ended"
                                                  ELSE "cancelled",
            !.stream = NewStream(PcmFormat, 0),
            !.seq = @ + 1,
            !.endEmitted = TRUE,
            !.status = IF m.terminalStatus # "none" THEN m.terminalStatus
                       ELSE IF m.endReason = "completed" THEN "COMPLETED"
                       ELSE @,
            !.live = FALSE]

CancelStatus(reason) ==
    IF reason \in {"OVERLOADED", "FAILED"} THEN reason ELSE "COMPLETED"

\* _cancel: the first reason wins, everything retained is discarded.
Cancel(m, reason) ==
    LET c == [m EXCEPT !.closed = TRUE,
                       !.buffer = Empty,
                       !.endReason = "cancelled",
                       !.terminalStatus = "none",
                       !.status = CancelStatus(reason)]
    IN  CASE m.closed -> m
          [] ~m.closed /\ m.phase = "active" -> EmitEnd(c)
          [] ~m.closed /\ m.phase # "active" ->
                [c EXCEPT !.endEmitted = TRUE, !.live = FALSE]

\* _emit_buffer: the boundary's answer decides.
Answer(m) == IF m.phase = "active" THEN AudioReason(m.stream, m.seq, m.buffer)
                                   ELSE "start_required"

ToEmit(m, allowShort) ==
    m.buffer.count = ChunkUnits \/ (allowShort /\ m.buffer.count > 0)

EmitRaises(m, allowShort) ==
    ToEmit(m, allowShort) /\ Answer(m) \notin {"frame_accepted", "queue_full"}

\* Mutant of EmitBuffer: the session's own counter stands still.
EmitUncounted(m, allowShort) ==
    IF ~ToEmit(m, allowShort) \/ EmitRaises(m, allowShort) THEN m
    ELSE IF Answer(m) = "queue_full"
    THEN Cancel([m EXCEPT !.stream = CountRejected(@), !.buffer = Empty],
                "OVERLOADED")
    ELSE [m EXCEPT !.stream = Admit(@, m.buffer),
                   !.timeline = Append(@, NextChunk(m.stream, m.buffer)),
                   !.buffer = Empty]

EmitBuffer(m, allowShort) ==
    IF ~ToEmit(m, allowShort) \/ EmitRaises(m, allowShort) THEN m
    ELSE IF Answer(m) = "queue_full"
    THEN Cancel([m EXCEPT !.stream = CountRejected(@), !.buffer = Empty],
                "OVERLOADED")
    ELSE [m EXCEPT !.stream = Admit(@, m.buffer),
                   !.timeline = Append(@, NextChunk(m.stream, m.buffer)),
                   !.seq = @ + 1,
                   !.buffer = Empty]

\* _append_normalized: fill the buffer, emit it when full, keep the rest.
Fill(m, n) ==
    IF n = 0 THEN m
    ELSE [m EXCEPT !.captured = @ + n,
                   !.buffer = [first |-> IF @.count = 0 THEN m.captured + 1
                                                        ELSE @.first,
                               count |-> @.count + n]]

AppendPcm(m, n) ==
    LET room == ChunkUnits - m.buffer.count
    IN  IF n < room THEN Fill(m, n)
        ELSE Fill(EmitBuffer(Fill(m, room), FALSE), n - room)

\* Mutant of FinishStop: the chunk being transcribed is forgotten.
FinishStopEarly(m) ==
    IF m.pausePending /\ Retained(m) = 0
    THEN [m EXCEPT !.pausePending = FALSE,
                   !.status = IF m.stopStatus = "none" THEN "PAUSED"
                                                       ELSE m.stopStatus,
                   !.stopStatus = "none"]
    ELSE m

\* _finish_capture_stop_if_drained
FinishStop(m) ==
    IF m.pausePending /\ Retained(m) = 0 /\ m.inFlight = 0
    THEN [m EXCEPT !.pausePending = FALSE,
                   !.status = IF m.stopStatus = "none" THEN "PAUSED"
                                                       ELSE m.stopStatus,
                   !.stopStatus = "none"]
    ELSE m

\* start: opens the call once, later only the capture.
Startable(m) == /\ m.live /\ ~m.closed
                /\ m.readiness = "READY_TO_CAPTURE"
                /\ m.status \in {"PERMISSION_PENDING", "RECONNECTING"}

\* Mutant of StartCapture: every capture opens a stream of its own.
StartAnew(m) ==
    [m EXCEPT !.phase = "active", !.stream = NewStream(PcmFormat, m.seq),
              !.seq = @ + 1, !.status = "READY", !.readiness = "STREAMING"]

StartCapture(m) ==
    LET opened == IF m.phase = "none"
                  THEN [m EXCEPT !.phase = "active",
                                 !.stream = NewStream(PcmFormat, m.seq),
                                 !.seq = @ + 1]
                  ELSE m
    IN  [opened EXCEPT !.status = "READY", !.readiness = "STREAMING"]

\* Mutant of StopCapture: the short rest in the buffer is thrown away.
StopWithoutRest(m, flushed, flushFails) ==
    FinishStop([AppendPcm([m EXCEPT !.status = "PAUSING"], flushed) EXCEPT
        !.buffer = Empty,
        !.pausePending = TRUE,
        !.stopStatus = IF flushFails THEN "FAILED" ELSE "PAUSED",
        !.live = FALSE,
        !.readiness = "READY_TO_CAPTURE"])

\* _stop_capture with flush: what the resampler still held comes out first.
StopCapture(m, flushed, flushFails) ==
    LET p      == AppendPcm([m EXCEPT !.status = "PAUSING"], flushed)
        raises == EmitRaises(p, TRUE)
        e      == IF raises THEN [p EXCEPT !.buffer = Empty]
                            ELSE EmitBuffer(p, TRUE)
    IN  FinishStop([e EXCEPT
            !.pausePending = TRUE,
            !.stopStatus = IF raises \/ flushFails THEN "FAILED" ELSE "PAUSED",
            !.live = FALSE,
            !.readiness = "READY_TO_CAPTURE"])

\* _request_draining_end: END follows when the queue has been drained.
RequestEnd(m, flushed) ==
    LET p == AppendPcm(m, flushed)
        e == EmitBuffer(p, TRUE)
        s == [e EXCEPT !.status = "STOP_REQUESTED",
                       !.pausePending = FALSE,
                       !.stopStatus = "none",
                       !.terminalStatus = "COMPLETED",
                       !.endReason = "completed",
                       !.live = FALSE]
    IN  IF EmitRaises(p, TRUE) \/ e.closed THEN e
        ELSE IF Retained(s) = 0 THEN EmitEnd(s) ELSE s

-----------------------------------------------------------------------------
(* Capture thread *)

Threads == <<worker, cancelled, resetting, outcome>>

\* START from the relay, before any audio.
StartCall == /\ Startable(mic)
             /\ mic' = StartCapture(mic)
             /\ UNCHANGED Threads

\* accept_frame / accept_validated_pcm of the current generation; n units come
\* out of the normaliser.  Frames of older generations are turned away.
AcceptFrame(n) ==
    LET m == IF Startable(mic) THEN StartCapture(mic) ELSE mic
        e == AppendPcm(m, n)
    IN  /\ mic.readiness \in {"READY_TO_CAPTURE", "STREAMING"}
        /\ mic.live /\ ~mic.closed
        /\ m.status \in {"READY", "STREAMING"}
        /\ mic.captured + n <= MaxUnits
        /\ mic' = [e EXCEPT !.status = IF e.live THEN "STREAMING" ELSE @]
        /\ UNCHANGED Threads

\* mark_reconnecting: the media track ended, the call did not.
MarkReconnecting ==
    /\ mic.live /\ ~mic.closed
    /\ mic.status \in {"READY", "STREAMING"}
    /\ mic' = [mic EXCEPT !.status = "RECONNECTING",
                          !.readiness = "READY_TO_CAPTURE"]
    /\ UNCHANGED Threads

-----------------------------------------------------------------------------
(* Dashboard and relay control.  Capture controls are rendered once the     *)
(* model is ready; the relay sends them in any state of an opened call.     *)
(* The resampler holds a rest only after frames of the current generation.  *)

ControlsShown == \/ mic.readiness \in {"READY_TO_CAPTURE", "STREAMING"}
                 \/ mic.phase # "none"

Flushable(m) == IF m.live /\ m.status \in {"STREAMING", "RECONNECTING"}
                THEN 0 .. (IF m.captured + ChunkUnits <= MaxUnits
                           THEN ChunkUnits ELSE MaxUnits - m.captured)
                ELSE {0}

PauseCapture ==
    /\ ControlsShown /\ ~mic.closed
    /\ mic.status \notin {"PAUSING", "PAUSED"}
    /\ mic.live
    /\ \/ \E flushed \in Flushable(mic) :
              mic' = StopCapture(mic, flushed, FALSE)
       \/ mic' = StopCapture(mic, 0, TRUE)
    /\ UNCHANGED Threads

\* resume_capture with a fresh capability starts the next generation.
ResumeCapture ==
    /\ ~mic.closed
    /\ mic.status \in {"PAUSED", "FAILED"}
    /\ ~mic.live
    /\ mic.generation < MaxGeneration
    /\ mic' = [mic EXCEPT !.live = TRUE,
                          !.generation = @ + 1,
                          !.buffer = Empty,
                          !.pausePending = FALSE,
                          !.stopStatus = "none",
                          !.status = "PERMISSION_PENDING",
                          !.readiness = "READY_TO_CAPTURE"]
    /\ UNCHANGED Threads

\* finish_call; before the first frame there is no stream to end.
FinishCall ==
    /\ ControlsShown
    /\ mic.endReason = "none" /\ ~mic.closed
    /\ \/ /\ mic.live
          /\ mic' = Cancel(mic, "FAILED")      \* the resampler flush failed
       \/ /\ mic.phase # "active"
          /\ mic' = Cancel(mic, "COMPLETED")
       \/ /\ mic.phase = "active"
          /\ \E flushed \in Flushable(mic) : mic' = RequestEnd(mic, flushed)
    /\ UNCHANGED Threads

\* _request_local_microphone_reset: close the session, then cancel the worker.
ResetCall == /\ ~resetting /\ ~cancelled
             /\ mic' = Cancel(mic, "RESET")
             /\ resetting' = TRUE
             /\ UNCHANGED <<worker, cancelled, outcome>>

CancelWorker == /\ resetting
                /\ resetting' = FALSE
                /\ cancelled' = TRUE
                /\ UNCHANGED <<mic, worker, outcome>>

-----------------------------------------------------------------------------
(* ASR worker: run_microphone *)

Session == <<mic, cancelled, resetting, outcome>>

AllowedReadiness ==
    {<<"PREPARING_MODEL", "WARMING_UP">>, <<"PREPARING_MODEL", "FAILED">>,
     <<"WARMING_UP", "READY_TO_CAPTURE">>, <<"WARMING_UP", "FAILED">>,
     <<"READY_TO_CAPTURE", "STREAMING">>, <<"READY_TO_CAPTURE", "FAILED">>,
     <<"STREAMING", "READY_TO_CAPTURE">>, <<"STREAMING", "FAILED">>}

\* set_asr_readiness raises on a closed session or a forbidden transition.
Prepare(from, to, next) ==
    /\ worker = from
    /\ IF ~mic.closed /\ <<mic.readiness, to>> \in AllowedReadiness
       THEN mic' = [mic EXCEPT !.readiness = to] /\ worker' = next
       ELSE mic' = mic /\ worker' = "excepting"
    /\ UNCHANGED <<cancelled, resetting, outcome>>

WarmUp == Prepare("loading", "WARMING_UP", "warming")
OfferCapture == Prepare("warming", "READY_TO_CAPTURE", "starting")

\* run_live checks the capability it was given once.
RunLive == /\ worker = "starting"
           /\ worker' = IF mic.live THEN "waiting" ELSE "excepting"
           /\ UNCHANGED Session

\* iter_audio_chunks
TakeChunk ==
    /\ worker = "waiting"
    /\ ~cancelled
    /\ Retained(mic) > 0
    /\ mic' = [mic EXCEPT !.stream = AfterDrain(@, 1),
                          !.delivered = @ + 1,
                          !.inFlight = @ + 1]
    /\ worker' = "processing"
    /\ UNCHANGED <<cancelled, resetting, outcome>>

\* Mutant of EndOfAudio: the iterator returns without sending END.
EndUnsent ==
    /\ worker = "waiting"
    /\ \/ cancelled /\ mic' = Cancel(mic, "RESOURCE_CLOSED")
       \/ /\ ~cancelled /\ Retained(mic) = 0 /\ mic.endReason # "none"
          /\ mic' = mic
    /\ worker' = "finishing"
    /\ UNCHANGED <<cancelled, resetting, outcome>>

EndOfAudio ==
    /\ worker = "waiting"
    /\ \/ cancelled /\ mic' = Cancel(mic, "RESOURCE_CLOSED")
       \/ /\ ~cancelled /\ Retained(mic) = 0 /\ mic.endReason # "none"
          /\ mic' = EmitEnd(mic)
    /\ worker' = "finishing"
    /\ UNCHANGED <<cancelled, resetting, outcome>>

\* The chunk was transcribed; show_step records it and acknowledges it.
Acknowledge ==
    /\ worker = "processing"
    /\ IF mic.closed \/ cancelled
       THEN mic' = mic /\ worker' = "excepting"
       ELSE /\ mic' = FinishStop([mic EXCEPT !.inFlight = @ - 1])
            /\ worker' = "waiting"
    /\ UNCHANGED <<cancelled, resetting, outcome>>

\* The pipeline loop sees the cancellation right after a chunk was handed out.
BreakOff == /\ worker = "processing" /\ cancelled
            /\ worker' = "finishing"
            /\ UNCHANGED Session

\* Loading, warm-up, transcription or finalisation raises.
WorkerRaises == /\ worker \in {"loading", "warming", "processing", "finishing"}
                /\ worker' = "excepting"
                /\ UNCHANGED Session

\* record_final_transcript_event needs an open session.
RecordFinal == /\ worker = "finishing"
               /\ worker' = IF mic.closed THEN "excepting" ELSE "reporting"
               /\ UNCHANGED Session

Stop(result) == /\ outcome' = result
                /\ worker' = "stopped"
                /\ UNCHANGED <<cancelled, resetting>>

Report == /\ worker = "reporting"
          /\ Stop(CASE cancelled -> "CANCELLED"
                    [] ~cancelled /\ mic.status = "OVERLOADED" ->
                            "MICROPHONE_OVERLOADED"
                    [] ~cancelled /\ mic.status = "FAILED" -> "FAILED"
                    [] ~cancelled /\ mic.status \notin {"OVERLOADED", "FAILED"}
                            -> "COMPLETED")
          /\ UNCHANGED mic

\* The except block: record_asr_failure raises on a closed session, and then
\* the resource publishes the generic terminal snapshot (_run_worker).
HandleException ==
    /\ worker = "excepting"
    /\ \/ cancelled /\ mic' = Cancel(mic, "RESOURCE_CLOSED") /\ Stop("CANCELLED")
       \/ ~cancelled /\ mic.closed /\ mic' = mic /\ Stop("FAILED")
       \/ /\ ~cancelled /\ ~mic.closed
          /\ mic' = [mic EXCEPT !.readiness = "FAILED"]
          /\ worker' = "failing"
          /\ outcome' = IF mic.readiness \in {"PREPARING_MODEL", "WARMING_UP"}
                        THEN "MODEL_PREPARATION_FAILED" ELSE "FAILED"
          /\ UNCHANGED <<cancelled, resetting>>

\* fail() takes the lock a second time to cancel.
FailSession == /\ worker = "failing"
               /\ mic' = Cancel(mic, "FAILED")
               /\ Stop(outcome)

WorkerProgress ==
    \/ WarmUp \/ OfferCapture \/ RunLive \/ TakeChunk \/ EndOfAudio
    \/ Acknowledge \/ RecordFinal \/ Report \/ HandleException \/ FailSession

Next == \/ StartCall
        \/ \E n \in 0..ChunkUnits : AcceptFrame(n)
        \/ MarkReconnecting
        \/ PauseCapture \/ ResumeCapture \/ FinishCall
        \/ ResetCall \/ CancelWorker
        \/ WorkerProgress \/ BreakOff \/ WorkerRaises

\* The worker thread runs on, and a reset goes on to cancel it.
Spec == /\ Init /\ [][Next]_vars
        /\ WF_vars(WorkerProgress)
        /\ WF_vars(CancelWorker)

-----------------------------------------------------------------------------
(* Properties *)

\* Type correctness; one worker never holds more than one chunk.
TypeOK ==
    /\ mic.status \in Statuses /\ mic.readiness \in Readinesses
    /\ mic.live \in BOOLEAN /\ mic.generation \in 1..MaxGeneration
    /\ mic.seq \in Nat
    /\ mic.buffer \in [first : 0..MaxUnits, count : 0..ChunkUnits]
    /\ mic.pausePending \in BOOLEAN
    /\ mic.stopStatus \in {"none", "PAUSED", "FAILED"}
    /\ mic.inFlight \in 0..1
    /\ mic.endReason \in {"none", "completed", "cancelled"}
    /\ mic.terminalStatus \in {"none", "COMPLETED"}
    /\ mic.endEmitted \in BOOLEAN /\ mic.closed \in BOOLEAN
    /\ mic.phase \in {"none", "active", "ended", "cancelled"}
    /\ mic.stream \in StreamState
    /\ mic.captured \in 0..MaxUnits
    /\ mic.timeline \in Seq(Chunk) /\ mic.delivered \in 0..Len(mic.timeline)
    /\ worker \in WorkerSteps /\ outcome \in Outcomes
    /\ cancelled \in BOOLEAN /\ resetting \in BOOLEAN

\* The session's counter and the boundary's expectation never drift apart, so
\* the END it owes is never rejected ("local_microphone_end_rejected"), and
\* END is what takes the stream away, once, whichever thread asks for it; the
\* worker never holds more than the one chunk it took (TypeOK).
NumbersAgree ==
    /\ TypeOK
    /\ mic.phase = "none" => mic.seq = 0
    /\ mic.phase = "active" => mic.seq = mic.stream.nextSeq /\ ~mic.endEmitted
    /\ mic.phase \in {"ended", "cancelled"} => mic.endEmitted
    /\ mic.endEmitted => ~mic.live /\ mic.endReason # "none"

\* While the session is open every unit it took in is in exactly one place,
\* in order: in an admitted chunk or in the buffer.  Pause, resume, reconnect
\* and finish neither lose nor replay audio, and a revoked capture leaves
\* nothing behind for the next one.  A call that ended as completed gave the
\* worker everything it had captured.
AdmittedUpTo ==
    LET t == mic.timeline
    IN  IF t = <<>> THEN 0
        ELSE t[Len(t)].payload.first + t[Len(t)].payload.count - 1

AudioIsConserved ==
    LET t == mic.timeline
    IN  /\ t # <<>> => t[1].payload.first = 1
        /\ \A i \in 1 .. Len(t) - 1 :
              t[i+1].payload.first = t[i].payload.first + t[i].payload.count
        /\ ~mic.closed =>
              /\ mic.captured = AdmittedUpTo + mic.buffer.count
              /\ mic.buffer.count > 0 =>
                    mic.live /\ mic.buffer.first = AdmittedUpTo + 1
        /\ mic.phase = "ended" =>
              mic.delivered = Len(t) /\ mic.captured = AdmittedUpTo

\* An open session shows PAUSED only after the last chunk was acknowledged,
\* and a capturing state only with a live capability and an open stream.
StatusIsTruthful ==
    ~mic.closed =>
        /\ mic.status = "PAUSED" =>
              Retained(mic) = 0 /\ mic.inFlight = 0 /\ ~mic.live
        /\ mic.status \in {"READY", "STREAMING", "RECONNECTING"} =>
              mic.live /\ mic.phase = "active"
        /\ mic.status = "PAUSING" <=> mic.pausePending

\* The session's call delivers its audio as CallAudioDelivery promises.
Delivery == INSTANCE CallAudioDelivery
    WITH Duration <- PcmDuration,
         phase <- CASE mic.phase = "none"   -> "unknown"
                    [] mic.phase = "active" -> "open"
                    [] mic.phase \in {"ended", "cancelled"} -> "closed",
         timeline <- mic.timeline,
         delivered <- mic.delivered

DeliversTheCall == Delivery!Spec

\* Nothing the dashboard asked for is left hanging: a pause settles (what was
\* admitted is drained, or the call fails), a requested end is emitted after
\* the queue was drained, and then the worker publishes a terminal snapshot.
CallSettles ==
    /\ mic.status = "PAUSING" ~> mic.status # "PAUSING"
    /\ mic.endReason # "none" ~> mic.endEmitted
    /\ mic.endEmitted ~> worker = "stopped"

=============================================================================
