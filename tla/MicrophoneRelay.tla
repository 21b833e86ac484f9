----------------------------- MODULE MicrophoneRelay -----------------------------
(***************************************************************************)
(* The microphone relay: a client with a native microphone                 *)
(* (scripts/run_local_microphone_relay_client.py) sends numbered records   *)
(* over one TCP connection to the receiver of the dashboard                *)
(* (app/audio_ingress/tcp_microphone_relay.py), which feeds a microphone   *)
(* session.  The client has four threads: the device's callback, the       *)
(* capture worker, the page's thread with its buttons, and the sender,     *)
(* which has one record at a time unanswered.  The receiver has one.       *)
(*                                                                         *)
(* Of the session only what its answers depend on is kept; it is modelled  *)
(* in full by LocalMicrophoneSession.  Audio is counted in units, numbered *)
(* as the device hands them over.  This client sends a record once, so the *)
(* receiver's window of fingerprints never answers a repeated one and is   *)
(* left out.                                                               *)
(***************************************************************************)
EXTENDS Naturals, Sequences

CONSTANTS
    ChunkUnits,     \* LOCAL_MIC_CHUNK_BYTES, in units
    BlockSizes,     \* units of the blocks the device may hand over
    CaptureDepth,   \* queue_depth of NativeRelayCapture
    SenderDepth,    \* queue_depth of BoundedRelaySender
    MaxUnits,       \* bound on the units captured in a behaviour
    MaxGeneration,  \* bound on the capture generations
    MaxPresses      \* bound on the buttons pressed

\* The device's blocks are short (external): those in the queue and the one the
\* worker holds are far from a chunk of two seconds.
ASSUME RelayAssumption ==
    /\ ChunkUnits \in Nat \ {0}
    /\ BlockSizes \subseteq Nat \ {0}
    /\ \A n \in BlockSizes : (CaptureDepth + 1) * n < ChunkUnits
    /\ CaptureDepth \in Nat \ {0} /\ SenderDepth \in Nat \ {0}
    /\ MaxUnits \in Nat /\ MaxGeneration \in Nat \ {0} /\ MaxPresses \in Nat

Buttons == {"PAUSE", "RESUME", "END"}
Kinds == {"START", "AUDIO"} \cup Buttons

Record(kind, seq, generation, units) ==
    [kind |-> kind, seq |-> seq, generation |-> generation, units |-> units]
NoRecord == Record("none", 0, 0, <<>>)
StartRecord == Record("START", 0, 1, <<>>)

VARIABLES
    sender,     \* BoundedRelaySender and its thread
    capture,    \* NativeRelayCapture, its worker and the device's callback
    page,       \* thread of the client's page: the button being handled; with
                \* history: whether one met a device being opened or resumed
    up, down,   \* records and answers on the wire
    link,       \* which ends of the connection are open
    receiver,   \* LocalhostMicrophoneRelayReceiver with its state machine
    session,    \* the microphone session behind it
    dashboard,  \* how far a Finish on the dashboard has come
    audio       \* history: units captured, admitted, acknowledged

client == <<sender, capture, page>>
wire == <<up, down, link>>
server == <<receiver, session, dashboard>>
vars == <<client, wire, server, audio>>

Init ==
    /\ sender = [status |-> "CONNECTING", generation |-> 1, next |-> 1,
                 queue |-> <<>>, failure |-> "none", closed |-> FALSE,
                 pc |-> "connecting", out |-> NoRecord]
    /\ capture = [pc |-> "none", stream |-> "none", opened |-> FALSE,
                  admitting |-> FALSE, drained |-> TRUE, overflow |-> FALSE,
                  stop |-> FALSE, queue |-> <<>>, buffer |-> <<>>,
                  rest |-> <<>>, held |-> NoRecord, callback |-> "out"]
    /\ page = [pc |-> "idle", button |-> "none", held |-> NoRecord, presses |-> 0,
             early |-> FALSE]
    /\ up = <<>> /\ down = <<>>
    /\ link = [client |-> FALSE, server |-> FALSE]
    /\ receiver = [pc |-> "accepting", state |-> "AWAIT_START", generation |-> 0,
                   next |-> 0, failure |-> "none", closed |-> FALSE]
    /\ session = [status |-> "new", generation |-> 1]
    /\ dashboard = "idle"
    /\ audio = [captured |-> 0, admitted |-> <<>>, acknowledged |-> <<>>]

-----------------------------------------------------------------------------
(* The sender: status, numbers and queue, shared by three threads *)

\* _fail: the first failure counts, and none after the end.
Failed(s, reason) ==
    IF s.status \in {"ENDED", "FAILED"} THEN s
    ELSE [s EXCEPT !.status = "FAILED", !.failure = reason, !.closed = TRUE]

\* fail(): also closes the connection, if there was anything to fail.
FailAndClose(reason) ==
    /\ sender' = Failed(sender, reason)
    /\ link' = IF sender.status \in {"ENDED", "FAILED"} THEN link
               ELSE [link EXCEPT !.client = FALSE]

\* The first half of enqueue_audio, pause, resume and end, under the lock.
Numbered(kind, generation, units) ==
    Record(kind, sender.next, generation, units)

\* _enqueue, outside the lock; a full queue fails the sender but leaves the
\* connection open.
Enqueued(record) ==
    IF Len(sender.queue) < SenderDepth
    THEN [sender EXCEPT !.queue = Append(@, record)]
    ELSE Failed(sender, "BUFFER_LIMIT")
HasRoom == Len(sender.queue) < SenderDepth

Send(record) == up' = IF link.client /\ link.server THEN Append(up, record) ELSE up

\* The thread ends after an error and closes its connection.
GiveUp(reason) ==
    /\ sender' = [Failed(sender, reason) EXCEPT !.pc = "stopped"]
    /\ link' = [link EXCEPT !.client = FALSE]

\* The thread's start: connect and send START.
SenderConnects ==
    /\ sender.pc = "connecting"
    /\ \/ /\ receiver.pc = "accepting" /\ ~receiver.closed
          /\ sender' = [sender EXCEPT !.pc = "waiting", !.out = StartRecord]
          /\ link' = [client |-> TRUE, server |-> TRUE]
          /\ up' = <<StartRecord>>
          /\ receiver' = [receiver EXCEPT !.pc = "waiting"]
       \/ GiveUp("CONNECTION_CLOSED") /\ UNCHANGED <<up, receiver>>
    /\ UNCHANGED <<capture, page, down, session, dashboard, audio>>

SenderSends ==
    /\ sender.pc = "idle" /\ ~sender.closed /\ sender.queue # <<>>
    /\ sender' = [sender EXCEPT !.pc = "waiting", !.out = Head(sender.queue),
                                !.queue = Tail(@)]
    /\ Send(Head(sender.queue))
    /\ UNCHANGED <<capture, page, down, link, server, audio>>

SenderStops ==
    /\ sender.pc = "idle" /\ sender.closed
    /\ sender' = [sender EXCEPT !.pc = "stopped"]
    /\ link' = [link EXCEPT !.client = FALSE]
    /\ UNCHANGED <<capture, page, up, down, server, audio>>

\* Mutant of AfterAck: a resumed sender keeps its old generation.
AfterAckOfOldCapture(s) ==
    CASE s.out.kind \in {"START", "AUDIO", "RESUME"}
                            -> [s EXCEPT !.pc = "idle", !.status = "STREAMING"]
      [] s.out.kind = "PAUSE" -> [s EXCEPT !.pc = "idle", !.status = "PAUSED"]
      [] s.out.kind = "END" -> [s EXCEPT !.pc = "stopped", !.status = "ENDED"]

\* What an acknowledgement of its record does to the sender.
AfterAck(s) ==
    CASE s.out.kind = "START"  -> [s EXCEPT !.pc = "idle", !.status = "STREAMING"]
      [] s.out.kind = "AUDIO"  -> [s EXCEPT !.pc = "idle"]
      [] s.out.kind = "PAUSE"  -> [s EXCEPT !.pc = "idle", !.status = "PAUSED"]
      [] s.out.kind = "RESUME" -> [s EXCEPT !.pc = "resuming",
                                            !.status = "STREAMING",
                                            !.generation = s.out.generation]
      [] s.out.kind = "END"    -> [s EXCEPT !.pc = "stopped", !.status = "ENDED"]

\* The answer may have been read before another thread closed the connection.
SenderReadsAnswer ==
    /\ sender.pc = "waiting" /\ down # <<>>
    /\ down' = Tail(down)
    /\ LET answer == Head(down)
           good == answer.kind = "ACK" /\ answer.seq = sender.out.seq
       IN  \/ /\ good
              /\ sender' = AfterAck(sender)
              /\ link' = IF sender.out.kind = "END"
                         THEN [link EXCEPT !.client = FALSE] ELSE link
              /\ audio' = [audio EXCEPT !.acknowledged = @ \o sender.out.units]
           \/ /\ ~good
              /\ GiveUp(IF answer.seq # sender.out.seq THEN "SCOPE_MISMATCH"
                                                       ELSE "SESSION_REJECTED")
              /\ UNCHANGED audio
    /\ UNCHANGED <<capture, page, up, server>>

\* The connection is gone, or the answer takes longer than five seconds.
SenderLosesAnswer ==
    /\ sender.pc = "waiting"
    /\ GiveUp("CONNECTION_CLOSED")
    /\ UNCHANGED <<capture, page, up, down, server, audio>>

\* capture.resume, called back once the status is STREAMING.
ResumeCallback ==
    /\ sender.pc = "resuming"
    /\ \/ /\ capture.stream # "none"
          /\ capture' = [capture EXCEPT !.stream = "running", !.admitting = TRUE,
                                        !.opened = TRUE]
          /\ sender' = [sender EXCEPT !.pc = "idle"]
          /\ page' = [page EXCEPT !.early = @ \/ page.pc # "idle"]
          /\ UNCHANGED link
       \/ GiveUp("MICROPHONE_OPEN_FAILED") /\ UNCHANGED <<capture, page>>
    /\ UNCHANGED <<up, down, server, audio>>

-----------------------------------------------------------------------------
(* The capture worker and the device's callback *)

OpenMicrophone ==
    /\ page.pc = "idle" /\ sender.status = "STREAMING" /\ capture.pc = "none"
    /\ capture' = [capture EXCEPT !.pc = "opening"]
    /\ UNCHANGED <<sender, page, wire, server, audio>>

OpenDevice ==
    /\ capture.pc = "opening"
    /\ \/ /\ capture' = IF capture.stop THEN [capture EXCEPT !.pc = "stopped"]
                         ELSE [capture EXCEPT !.pc = "starting", !.stream = "stopped"]
          /\ UNCHANGED <<sender, link>>
       \/ /\ capture' = [capture EXCEPT !.pc = "stopped"]
          /\ FailAndClose("MICROPHONE_UNAVAILABLE")
    /\ UNCHANGED <<page, up, down, server, audio>>

\* stream.start raises when End has closed the device meanwhile.
StartDevice ==
    /\ capture.pc = "starting"
    /\ \/ /\ capture.stream # "none"
          /\ capture' = [capture EXCEPT !.pc = "admitting", !.stream = "running"]
          /\ UNCHANGED <<sender, link>>
       \/ /\ capture' = [capture EXCEPT !.pc = "stopped"]
          /\ FailAndClose("MICROPHONE_OPEN_FAILED")
    /\ UNCHANGED <<page, up, down, server, audio>>

BeginAdmitting ==
    /\ capture.pc = "admitting"
    /\ capture' = IF capture.stop
                  THEN [capture EXCEPT !.pc = "stopped", !.stream = "none"]
                  ELSE [capture EXCEPT !.pc = "checking", !.opened = TRUE,
                                       !.admitting = TRUE]
    /\ UNCHANGED <<sender, page, wire, server, audio>>

\* audio_callback: the drained event is cleared before the block is queued.
CallbackEnters ==
    /\ capture.stream = "running" /\ capture.admitting /\ capture.callback = "out"
    /\ \E n \in BlockSizes : audio.captured + n <= MaxUnits
    /\ capture' = [capture EXCEPT !.callback = "queueing", !.drained = FALSE]
    /\ UNCHANGED <<sender, page, wire, server, audio>>

Units(first, n) == [i \in 1 .. n |-> first + i - 1]

\* Full: the block is dropped and the worker told.
CallbackQueues(n) ==
    /\ capture.callback = "queueing"
    /\ audio.captured + n <= MaxUnits
    /\ audio' = [audio EXCEPT !.captured = @ + n]
    /\ capture' =
          IF Len(capture.queue) < CaptureDepth
          THEN [capture EXCEPT !.callback = "out",
                               !.queue = Append(@, Units(audio.captured + 1, n))]
          ELSE [capture EXCEPT !.callback = "full", !.overflow = TRUE]
    /\ UNCHANGED <<sender, page, wire, server>>

CallbackGivesUp ==
    /\ capture.callback = "full"
    /\ capture' = [capture EXCEPT !.callback = "out",
                                  !.drained = @ \/ capture.queue = <<>>]
    /\ UNCHANGED <<sender, page, wire, server, audio>>

\* Top of the worker's loop.
WorkerChecks ==
    /\ capture.pc = "checking"
    /\ \/ /\ capture.stop
          /\ capture' = [capture EXCEPT !.pc = "stopped"]
          /\ UNCHANGED <<sender, link>>
       \/ /\ ~capture.stop /\ capture.overflow
          /\ capture' = [capture EXCEPT !.pc = "stopped", !.stop = TRUE]
          /\ FailAndClose("BUFFER_LIMIT")
       \/ /\ ~capture.stop /\ ~capture.overflow
          /\ capture' = [capture EXCEPT !.pc = "getting"]
          /\ UNCHANGED <<sender, link>>
    /\ UNCHANGED <<page, up, down, server, audio>>

WorkerGets ==
    /\ capture.pc = "getting"
    /\ \/ /\ capture.queue # <<>>
          /\ capture' = [capture EXCEPT !.pc = "filling", !.rest = Head(capture.queue),
                                        !.queue = Tail(@)]
       \/ /\ capture.queue = <<>> /\ (capture.stop \/ capture.overflow)
          /\ capture' = [capture EXCEPT !.pc = "checking"]
    /\ UNCHANGED <<sender, page, wire, server, audio>>

\* Mutant of WorkerFills: the buffer keeps what was taken out of it.
WorkerFillsTwice ==
    /\ capture.pc = "filling"
    /\ LET full == capture.buffer \o capture.rest
       IN  capture' =
              IF Len(full) < ChunkUnits
              THEN [capture EXCEPT !.buffer = full, !.rest = <<>>, !.pc = "settling"]
              ELSE [capture EXCEPT
                      !.rest = SubSeq(full, ChunkUnits + 1, Len(full)),
                      !.held = Record("AUDIO", 0, 0, SubSeq(full, 1, ChunkUnits)),
                      !.pc = "numbering"]
    /\ UNCHANGED <<sender, page, wire, server, audio>>

\* _append: the block goes to the buffer; a full chunk is taken out.
WorkerFills ==
    /\ capture.pc = "filling"
    /\ LET full == capture.buffer \o capture.rest
       IN  capture' =
              IF Len(full) < ChunkUnits
              THEN [capture EXCEPT !.buffer = full, !.rest = <<>>, !.pc = "settling"]
              ELSE [capture EXCEPT
                      !.buffer = <<>>,
                      !.rest = SubSeq(full, ChunkUnits + 1, Len(full)),
                      !.held = Record("AUDIO", 0, 0, SubSeq(full, 1, ChunkUnits)),
                      !.pc = "numbering"]
    /\ UNCHANGED <<sender, page, wire, server, audio>>

\* A sender that does not stream refuses the chunk, which ends the worker.
WorkerNumbers ==
    /\ capture.pc = "numbering"
    /\ \/ /\ sender.status = "STREAMING"
          /\ capture' = [capture EXCEPT !.pc = "queueing",
                !.held = Numbered("AUDIO", sender.generation, @.units)]
          /\ sender' = [sender EXCEPT !.next = @ + 1]
       \/ /\ sender.status # "STREAMING"
          /\ capture' = [capture EXCEPT !.pc = "settling", !.stop = TRUE,
                                        !.held = NoRecord, !.rest = <<>>]
          /\ UNCHANGED sender
    /\ UNCHANGED <<page, wire, server, audio>>

WorkerQueues ==
    /\ capture.pc = "queueing"
    /\ sender' = Enqueued(capture.held)
    /\ capture' = IF HasRoom
                  THEN [capture EXCEPT !.held = NoRecord,
                          !.pc = IF capture.rest = <<>> THEN "settling" ELSE "filling"]
                  ELSE [capture EXCEPT !.held = NoRecord, !.stop = TRUE,
                                       !.rest = <<>>, !.pc = "settling"]
    /\ UNCHANGED <<page, wire, server, audio>>

\* The block is done: is the queue empty?
WorkerSettles ==
    /\ capture.pc = "settling"
    /\ capture' = [capture EXCEPT !.pc = IF capture.queue = <<>> THEN "setting"
                                                                 ELSE "checking"]
    /\ UNCHANGED <<sender, page, wire, server, audio>>

WorkerSetsDrained ==
    /\ capture.pc = "setting"
    /\ capture' = [capture EXCEPT !.drained = TRUE, !.pc = "checking"]
    /\ UNCHANGED <<sender, page, wire, server, audio>>

-----------------------------------------------------------------------------
(* The page: Pause, Resume and End run on its thread *)

Press(button) ==
    /\ page.pc = "idle" /\ page.presses < MaxPresses
    /\ page' = [page EXCEPT !.button = button, !.presses = @ + 1,
                   !.pc = IF button = "RESUME" THEN "control" ELSE "stopping",
                   !.early = @ \/ capture.pc \in {"opening", "starting", "admitting"}]

\* capture.pause begins: no further block is admitted.
PressPause ==
    /\ sender.status = "STREAMING" /\ capture.opened
    /\ Press("PAUSE")
    /\ capture' = [capture EXCEPT !.admitting = FALSE]
    /\ UNCHANGED <<sender, wire, server, audio>>

PressEnd ==
    /\ sender.status \in {"STREAMING", "PAUSED"}
    /\ Press("END")
    /\ capture' = [capture EXCEPT !.admitting = FALSE]
    /\ UNCHANGED <<sender, wire, server, audio>>

PressResume ==
    /\ sender.status = "PAUSED" /\ sender.generation < MaxGeneration
    /\ Press("RESUME")
    /\ UNCHANGED <<sender, capture, wire, server, audio>>

\* stream.stop returns when no callback is running any more.
StopStream ==
    /\ page.pc = "stopping"
    /\ \/ /\ capture.stream = "none"
          /\ page' = [page EXCEPT !.pc = "draining"]
          /\ UNCHANGED <<capture, sender, link>>
       \/ /\ capture.stream # "none" /\ capture.callback = "out"
          /\ capture' = [capture EXCEPT !.stream = "stopped"]
          /\ page' = [page EXCEPT !.pc = "draining"]
          /\ UNCHANGED <<sender, link>>
       \/ /\ capture.stream # "none"
          /\ FailAndClose("MICROPHONE_OPEN_FAILED")
          /\ page' = [page EXCEPT !.pc = "idle"]
          /\ UNCHANGED capture
    /\ UNCHANGED <<up, down, server, audio>>

Drained ==
    /\ page.pc = "draining" /\ capture.drained
    /\ page' = [page EXCEPT !.pc = "flushing"]
    /\ UNCHANGED <<sender, capture, wire, server, audio>>

\* Five seconds are over.
DrainTimesOut ==
    /\ page.pc = "draining" /\ ~capture.drained
    /\ FailAndClose("BUFFER_LIMIT")
    /\ page' = [page EXCEPT !.pc = "idle"]
    /\ UNCHANGED <<capture, up, down, server, audio>>

Flush ==
    /\ page.pc = "flushing"
    /\ capture' = [capture EXCEPT !.buffer = <<>>]
    /\ page' = IF capture.buffer = <<>> THEN [page EXCEPT !.pc = "control"]
               ELSE [page EXCEPT !.pc = "numbering",
                                 !.held = Record("AUDIO", 0, 0, capture.buffer)]
    /\ UNCHANGED <<sender, wire, server, audio>>

\* A sender that does not stream refuses the rest, which ends the button's work.
NumberRest ==
    /\ page.pc = "numbering"
    /\ \/ /\ sender.status = "STREAMING"
          /\ page' = [page EXCEPT !.pc = "queueing",
                         !.held = Numbered("AUDIO", sender.generation, @.units)]
          /\ sender' = [sender EXCEPT !.next = @ + 1]
       \/ /\ sender.status # "STREAMING"
          /\ page' = [page EXCEPT !.pc = "idle", !.held = NoRecord]
          /\ UNCHANGED sender
    /\ UNCHANGED <<capture, wire, server, audio>>

QueueRest ==
    /\ page.pc = "queueing"
    /\ sender' = Enqueued(page.held)
    /\ page' = [page EXCEPT !.held = NoRecord,
                   !.pc = IF HasRoom THEN "control" ELSE "idle"]
    /\ UNCHANGED <<capture, wire, server, audio>>

MayNumber ==
    CASE page.button = "PAUSE"  -> sender.status = "STREAMING"
      [] page.button = "RESUME" -> sender.status = "PAUSED"
      [] page.button = "END"    -> sender.status \in {"STREAMING", "PAUSED"}

\* sender.pause, resume and end: RESUME carries the next generation.
NumberControl ==
    /\ page.pc = "control"
    /\ \/ /\ MayNumber
          /\ page' = [page EXCEPT !.pc = "controlQueueing",
                !.held = Numbered(page.button,
                            sender.generation + IF page.button = "RESUME" THEN 1 ELSE 0,
                            <<>>)]
          /\ sender' = [sender EXCEPT !.next = @ + 1]
       \/ /\ ~MayNumber
          /\ page' = [page EXCEPT !.pc = "idle"]
          /\ UNCHANGED sender
    /\ UNCHANGED <<capture, wire, server, audio>>

QueueControl ==
    /\ page.pc = "controlQueueing"
    /\ sender' = Enqueued(page.held)
    /\ page' = [page EXCEPT !.held = NoRecord,
          !.pc = IF HasRoom /\ page.button = "END" THEN "closing" ELSE "idle"]
    /\ UNCHANGED <<capture, wire, server, audio>>

\* capture.close after End.
CloseCapture ==
    /\ page.pc = "closing"
    /\ capture' = [capture EXCEPT !.admitting = FALSE, !.stop = TRUE,
                                  !.opened = FALSE, !.stream = "none"]
    /\ page' = [page EXCEPT !.pc = "idle"]
    /\ UNCHANGED <<sender, wire, server, audio>>

-----------------------------------------------------------------------------
(* The receiver's thread *)

\* accept(): why the state machine refuses a record, if it does.
Reason(record) ==
    LET r == receiver
    IN  IF record.seq < r.next THEN "STALE_SEQUENCE"
        ELSE IF record.seq > r.next THEN "SEQUENCE_GAP"
        ELSE IF (r.state = "AWAIT_START") # (record.kind = "START")
        THEN "UNEXPECTED_MESSAGE_ORDER"
        ELSE IF record.kind = "RESUME" /\ r.state # "PAUSED"
        THEN "UNEXPECTED_MESSAGE_ORDER"
        ELSE IF record.kind = "RESUME" /\ record.generation # r.generation + 1
        THEN "GENERATION_MISMATCH"
        ELSE IF record.kind \notin {"START", "RESUME"} /\ record.generation # r.generation
        THEN "STALE_GENERATION"
        ELSE IF record.kind \in {"AUDIO", "PAUSE"} /\ r.state # "STREAMING"
        THEN "UNEXPECTED_MESSAGE_ORDER"
        ELSE "none"

\* The state machine moves on before the session is asked.
Accepted(record) ==
    [receiver EXCEPT
        !.next = @ + 1, !.generation = record.generation,
        !.state = CASE record.kind \in {"START", "RESUME"} -> "STREAMING"
                    [] record.kind = "PAUSE" -> "PAUSED"
                    [] record.kind = "END" -> "ENDED"
                    [] OTHER -> @]

\* _cancel closes a session once, and its transport with it.
Closed == [session EXCEPT !.status = "closed"]
CutOff == link' = [link EXCEPT !.server = FALSE]

\* _fail and the end of the thread.  Closing the session closes the connection,
\* so no answer reaches the client; after END nothing fails any more.
Fails(r, reason) ==
    /\ receiver' = [r EXCEPT !.pc = "stopped", !.closed = TRUE, !.state = "FAILED",
                             !.failure = reason]
    /\ session' = Closed
    /\ CutOff
    /\ UNCHANGED <<down, audio>>

\* The chunk does not fit into the session's queue.
Overloads(r) ==
    /\ receiver' = [r EXCEPT !.pc = "stopped", !.closed = TRUE,
                      !.state = IF @ = "ENDED" THEN @ ELSE "FAILED",
                      !.failure = IF r.state = "ENDED" THEN @ ELSE "SESSION_REJECTED"]
    /\ session' = Closed
    /\ CutOff
    /\ UNCHANGED <<down, audio>>

Answer(kind, seq) == down' = Append(down, [kind |-> kind, seq |-> seq])

\* A record that the state machine accepts, taken off the wire.
Takes(kind) ==
    /\ receiver.pc = "waiting" /\ link.server /\ up # <<>>
    /\ Head(up).kind = kind /\ Reason(Head(up)) = "none"
    /\ up' = Tail(up)
    /\ UNCHANGED <<client, dashboard>>

ReceiverRefuses ==
    /\ receiver.pc = "waiting" /\ link.server /\ up # <<>>
    /\ Reason(Head(up)) # "none"
    /\ up' = Tail(up)
    /\ Fails(receiver, Reason(Head(up)))
    /\ UNCHANGED <<client, dashboard>>

ReceiverStarts ==
    /\ Takes("START")
    /\ LET record == Head(up)
       IN  IF session.status = "new" /\ record.generation = session.generation
           THEN /\ receiver' = Accepted(record)
                /\ session' = [session EXCEPT !.status = "streaming"]
                /\ Answer("ACK", record.seq)
                /\ UNCHANGED <<link, audio>>
           ELSE Fails(Accepted(record), "SESSION_REJECTED")

\* accept_validated_pcm: a resumed session is started by its first audio.
ReceiverAdmitsAudio ==
    /\ Takes("AUDIO")
    /\ LET record == Head(up)
           open == /\ session.status \in {"pending", "streaming"}
                   /\ session.generation = record.generation
       IN  \/ /\ open
              /\ receiver' = Accepted(record)
              /\ session' = [session EXCEPT !.status = "streaming"]
              /\ audio' = [audio EXCEPT !.admitted = @ \o record.units]
              /\ Answer("ACK", record.seq)
              /\ UNCHANGED link
           \/ open /\ Overloads(Accepted(record))
           \/ ~open /\ Fails(Accepted(record), "SESSION_REJECTED")

ReceiverPauses ==
    /\ Takes("PAUSE")
    /\ LET open == session.status \in {"pending", "streaming"}
       IN  \/ /\ open
              /\ receiver' = [Accepted(Head(up)) EXCEPT !.pc = "pausing"]
              /\ session' = [session EXCEPT !.status = "pausing"]
              /\ UNCHANGED <<down, link, audio>>
           \/ open /\ Overloads(Accepted(Head(up)))
           \/ ~open /\ Fails(Accepted(Head(up)), "SESSION_REJECTED")

\* wait_until_paused returns, or five seconds are over.
PauseSettles ==
    /\ receiver.pc = "pausing"
    /\ \/ /\ session.status = "paused" /\ link.server
          /\ receiver' = [receiver EXCEPT !.pc = "waiting"]
          /\ Answer("ACK", receiver.next - 1)
          /\ UNCHANGED <<link, session, audio>>
       \/ /\ session.status # "paused"
          /\ Fails(receiver, "IO_TIMEOUT")
    /\ UNCHANGED <<client, up, dashboard>>

ReceiverResumes ==
    /\ Takes("RESUME")
    /\ IF session.status = "paused"
       THEN /\ receiver' = Accepted(Head(up))
            /\ session' = [session EXCEPT !.status = "pending", !.generation = @ + 1]
            /\ Answer("ACK", Head(up).seq)
            /\ UNCHANGED <<link, audio>>
       ELSE Fails(Accepted(Head(up)), "SESSION_REJECTED")

\* finish_call: the call ends once its audio is drained.  The state is ENDED
\* whatever the session says; a refusal is answered and fails nothing.
ReceiverEnds ==
    /\ Takes("END")
    /\ LET open == session.status \in {"pending", "streaming", "pausing", "paused"}
           done == [Accepted(Head(up)) EXCEPT !.pc = "stopped", !.closed = TRUE]
       IN  \/ /\ receiver' = done
              /\ session' = IF open THEN [session EXCEPT !.status = "stopping"]
                            ELSE session
              /\ Answer(IF open THEN "ACK" ELSE "ERROR", Head(up).seq)
              /\ CutOff
              /\ UNCHANGED audio
           \/ open /\ Overloads(Accepted(Head(up)))

\* recv or sendall fails: a closed socket, or the end of the client's records.
ReceiverBroken ==
    /\ \/ receiver.pc = "waiting" /\ (~link.server \/ (up = <<>> /\ ~link.client))
       \/ receiver.pc = "pausing" /\ ~link.server /\ session.status = "paused"
    /\ Fails(receiver, "CONNECTION_CLOSED")
    /\ UNCHANGED <<client, up, dashboard>>

\* recv waits five seconds for a record (thirty for the first audio), also in
\* a pause.
ReceiverTimesOut ==
    /\ receiver.pc = "waiting" /\ up = <<>>
    /\ Fails(receiver, "IO_TIMEOUT")
    /\ UNCHANGED <<client, up, dashboard>>

\* accept fails on the closed listener.
ReceiverLeaves ==
    /\ receiver.pc = "accepting" /\ receiver.closed
    /\ receiver' = [receiver EXCEPT !.pc = "stopped"]
    /\ UNCHANGED <<client, wire, session, dashboard, audio>>

-----------------------------------------------------------------------------
(* The session's other threads, the dashboard and the tunnel *)

\* The closer of the transport: receiver.close.
CloseTransport ==
    /\ receiver' = [receiver EXCEPT !.closed = TRUE]
    /\ CutOff

\* The worker has taken the last chunk off the queue.
SessionDrains ==
    /\ session.status \in {"pausing", "stopping"}
    /\ session' = [session EXCEPT !.status =
                      IF @ = "pausing" THEN "paused" ELSE "completed"]
    /\ UNCHANGED <<client, wire, receiver, dashboard, audio>>

\* Reset, or a worker that fails.
SessionCloses ==
    /\ session.status # "closed"
    /\ session' = Closed
    /\ CloseTransport
    /\ UNCHANGED <<client, up, down, dashboard, audio>>

\* _request_local_microphone_finish: first finish_call ...
FinishRequested ==
    /\ dashboard = "idle" /\ session.status # "closed"
    /\ \/ /\ session.status = "new"
          /\ session' = Closed
          /\ CloseTransport
          /\ dashboard' = "finishing"
       \/ /\ session.status # "new"
          /\ session' = IF session.status = "completed" THEN session
                        ELSE [session EXCEPT !.status = "stopping"]
          /\ dashboard' = "finishing"
          /\ UNCHANGED <<receiver, link>>
       \/ /\ session.status \in {"pending", "streaming"}
          /\ session' = Closed
          /\ CloseTransport
          /\ UNCHANGED dashboard
    /\ UNCHANGED <<client, up, down, audio>>

\* ... then stop_listening, which closes the connection of a running call.
StopListening ==
    /\ dashboard = "finishing"
    /\ dashboard' = "done"
    /\ CutOff
    /\ UNCHANGED <<client, up, down, receiver, session, audio>>

TunnelBreaks ==
    /\ link.client /\ link.server
    /\ link' = [client |-> FALSE, server |-> FALSE]
    /\ up' = <<>> /\ down' = <<>>
    /\ UNCHANGED <<client, server, audio>>

-----------------------------------------------------------------------------
SenderNext == \/ SenderConnects \/ SenderSends \/ SenderStops \/ SenderReadsAnswer
              \/ SenderLosesAnswer \/ ResumeCallback
CaptureNext == \/ OpenDevice \/ StartDevice \/ BeginAdmitting \/ CallbackEnters
               \/ \E n \in BlockSizes : CallbackQueues(n)
               \/ CallbackGivesUp \/ WorkerChecks \/ WorkerGets \/ WorkerFills
               \/ WorkerNumbers \/ WorkerQueues \/ WorkerSettles \/ WorkerSetsDrained
PageNext == \/ OpenMicrophone \/ PressPause \/ PressEnd \/ PressResume \/ StopStream
            \/ Drained \/ DrainTimesOut \/ Flush \/ NumberRest \/ QueueRest
            \/ NumberControl \/ QueueControl \/ CloseCapture
ReceiverNext == \/ ReceiverRefuses \/ ReceiverStarts \/ ReceiverAdmitsAudio
                \/ ReceiverPauses \/ PauseSettles \/ ReceiverResumes \/ ReceiverEnds
                \/ ReceiverBroken \/ ReceiverTimesOut \/ ReceiverLeaves
OutsideNext == \/ SessionDrains \/ SessionCloses \/ FinishRequested \/ StopListening
               \/ TunnelBreaks

Next == SenderNext \/ CaptureNext \/ PageNext \/ ReceiverNext \/ OutsideNext

Spec == Init /\ [][Next]_vars

-----------------------------------------------------------------------------
(* Properties *)

AudioUnits == Seq(1 .. MaxUnits)
Records == [kind : Kinds \cup {"none"}, seq : 0 .. MaxUnits + MaxPresses,
            generation : 0 .. MaxGeneration, units : AudioUnits]

\* The state of the five threads, the wire and the session.
TypeOK ==
    /\ sender.status \in {"CONNECTING", "STREAMING", "PAUSED", "ENDED", "FAILED"}
    /\ sender.generation \in 1 .. MaxGeneration
    /\ sender.next \in 1 .. MaxUnits + MaxPresses + 1
    /\ Len(sender.queue) <= SenderDepth /\ sender.queue \in Seq(Records)
    /\ sender.out \in Records /\ sender.closed \in BOOLEAN
    /\ sender.pc \in {"connecting", "idle", "waiting", "resuming", "stopped"}
    /\ capture.pc \in {"none", "opening", "starting", "admitting", "checking",
          "getting", "filling", "numbering", "queueing", "settling", "setting",
          "stopped"}
    /\ capture.stream \in {"none", "stopped", "running"}
    /\ capture.callback \in {"out", "queueing", "full"}
    /\ capture.queue \in Seq(AudioUnits) /\ Len(capture.queue) <= CaptureDepth
    /\ capture.buffer \in AudioUnits /\ Len(capture.buffer) < ChunkUnits
    /\ capture.held \in Records /\ page.held \in Records
    /\ page.button \in Buttons \cup {"none"}
    /\ up \in Seq(Records) /\ Len(up) <= 1 /\ Len(down) <= 1
    /\ receiver.pc \in {"accepting", "waiting", "pausing", "stopped"}
    /\ receiver.state \in {"AWAIT_START", "STREAMING", "PAUSED", "ENDED", "FAILED"}
    /\ session.status \in {"new", "pending", "streaming", "pausing", "paused",
          "stopping", "completed", "closed"}
    /\ dashboard \in {"idle", "finishing", "done"}

Settled ==
    /\ sender.pc \in {"idle", "resuming"} /\ ~sender.closed
    /\ receiver.pc = "waiting"

\* Between two records both ends are of one mind: the status the client shows is
\* the receiver's state, the generations are the session's, every record was
\* answered; and audio is acknowledged only once admitted, at most one chunk late.
\* However the relay ends, it leaves no call open behind it: the session is
\* ending or closed, and the connection is closed too.
EndsAgree ==
    /\ TypeOK
    /\ Settled => /\ sender.status = receiver.state
                  /\ sender.generation = receiver.generation
                  /\ receiver.next = sender.out.seq + 1
                  /\ audio.acknowledged = audio.admitted
    /\ receiver.pc = "waiting" /\ receiver.state # "AWAIT_START"
          => receiver.generation = session.generation
    /\ audio.admitted \in {audio.acknowledged, audio.acknowledged \o sender.out.units}
    /\ receiver.pc = "stopped"
          => /\ session.status \in {"stopping", "completed", "closed"}
             /\ receiver.state = "FAILED" => session.status = "closed"
             /\ ~link.server

\* Through block queue, chunk buffer, the flush of a pause and the sender's
\* queue, no audio is admitted twice, and none before what was spoken earlier.
\* Order needs a device at rest: if it opens while End is handled, or a resume
\* comes through while Pause or End is (the status is STREAMING before the device
\* runs), the worker fills the buffer that the page's thread is flushing.
AudioKeepsItsOrder ==
    \A i, j \in 1 .. Len(audio.admitted) :
        i < j => /\ audio.admitted[i] # audio.admitted[j]
                 /\ ~page.early => audio.admitted[i] < audio.admitted[j]

=============================================================================
