# A TLA+ verification of the real-time coaching pipeline

The repository turns a live telephone call (or a local microphone) into
transcripts, classifications and coaching suggestions while the call is still
running. This directory holds TLA+ specifications of the parts whose
correctness depends on ordering, concurrency and partial failure, TLC
configurations that check them on small instances, and TLAPS proofs of what
matters most for every value of the constants. All paths below are relative to
the repository (`src/`).

Run a configuration with `tlc -config <X>.cfg <Module>.tla`, a proof module with
`tlapm <Module>.tla`. `PROJECT.json` maps every definition to the lines it
stands for, and lists runs, mutants, hazards, findings and theorems. A mutant is
an operator of a module, marked `Mutant:`, that a run uses in place of the real
definition to show that the property can be broken by a plausible bug.

## 1. The system

```
 relay client ─► TCP relay receiver ┐                        ┌─► ASR engine ─► windows
 browser WebRTC ────────────────────┴► LocalMicrophoneSession ┤
                                         owns                └─► streaming pipeline
                                   LiveAudioIngressBoundary          │ transcript events
                                                                     ▼
 dashboard pages ◄─ snapshots ─ execution resource ─ owns ─►  classification, coaching
 (Streamlit)          │            one worker thread          coordinator, rules, gates
                      │ registry of the process                      │ revisions
                      └── manager handed over at start ──► RAG background manager
                                                                     │ pool threads
 scripts: migrate, provision, ingest ─► PostgreSQL vector store ◄────┴─► vLLM gateway

 diarization composer ─ projections ─► customer router ─► classification (optional)
 RTP packets ─► RTP adapter ─► audio chunks                      (not wired to a session yet)
 service scripts ─► Docker containers, hand-off directories
```

| Component | State | Operations | Interacts with | What is hard |
|---|---|---|---|---|
| **Live audio ingress boundary** `app/audio_ingress/boundary.py` | active streams (format, expected number, start time, queue, duplicate window, counters), ended scopes | `accept` of START, AUDIO_CHUNK, END; `drain` | called by the session under its lock | retransmitted, reordered, conflicting events; a full queue; scope reuse after eviction |
| **Local microphone session** `app/audio_ingress/local_microphone.py` | status, ASR readiness, capability generation, PCM buffer, sequence counter, pending pause, in-flight chunks, end reason; owns a boundary | `start`, `accept_frame`, `mark_reconnecting`, `pause_capture`, `resume_capture`, `finish_call`, `cancel`, `fail`, `iter_audio_chunks`, `mark_chunk_processed`, `set_asr_readiness` | capture callbacks, dashboard and relay threads, ASR worker; one condition variable | three kinds of threads; END must not overtake the queue; pause waits for transcription; revoked captures |
| **Dashboard microphone worker** `live_dashboard/app.py`, `runtime_wiring.py` | worker phase, cancellation event, latest snapshot | prepare, warm up, offer capture, run, report; reset | drives the session, publishes snapshots to the resource | exceptions while the session is already closed |
| **Execution resource, registry, controller** `live_dashboard/runtime_wiring.py`, `rag_runtime.py`, `app.py` | worker thread, closed flag, snapshots, resources by call, RAG status by call, keys in each page's session | start, publish, poll, stop, reset, close, activate | owns worker, session and RAG manager; pages share it | two pages on one call; publishing outside the lock; a start that fails half way |
| **Background RAG manager** `app/composition/postgres_rag_background.py` | current revision per call, submitted identities, futures, completions, reservations, start attempt | `start`, `announce_current_revision`, `submit`, `poll`, `close`, done callbacks | pool threads, the coaching decorator | late results, supersession, capacity, racing start and close |
| **RAG runner** `app/composition/postgres_rag*.py` | none between calls | prepare, retrieve, generate | vector store, LLM gateway | exceptions become results |
| **Coaching decorator, coordinator, rules, gates** `app/integration/`, `app/coaching/` | processed revisions, provisional cards, fingerprints, cooldowns, pending requests, snapshot of a running revision | process an event, roll back, drain completions, admit an external card | call state, classifier, background manager | a revision that fails half way; late answers; a full board |
| **Call state** `app/calls/models.py` | committed and partial text, labels with their revisions, cards shown, active and past | apply transcript, classification, coaching | coordinator, pipeline | three lists of cards; labels new once |
| **Streaming ASR pipeline** `app/streaming/` | rolling buffer, window, stable and partial words, clock | process a chunk, finalize | ASR engine, session, call state | the same words heard again in other segments |
| **Streaming classification** `app/classification/streaming.py` | remembered partial texts, cadence | classify an event | classifier | work repeated, revisions |
| **Diarization and routing** `app/diarization/`, `app/streaming/customer_routing.py` | tracker's history and speaker numbers, processed revisions | compose a window, prepare an event | diarizer, ASR, projections of a provider | arbitrary local names; a stage that fails after the tracker learned; stale projections |
| **Vector store, deployment commands** `app/vector_store/`, `app/deployment/`, `scripts/` | schema, profile, records; locks and transactions of PostgreSQL | migrate, register, look up, admit a batch, upsert, search, clean up | RAG runner, operators | READ COMMITTED, two lock orders, COMMIT without an answer |
| **Service controllers** `scripts/run_*_service.py`, `run_*_smoke.py`, `run_postgres_integration.py` | containers, certificate and hand-off directories, signal handlers, errors kept apart | steps of the try block, finalisers | Docker, the GPU | clean-up after a failure anywhere, also in the clean-up |
| **Microphone relay receiver** `app/audio_ingress/tcp_microphone_relay.py` | record state machine, last record, counters | START, AUDIO, PAUSE, RESUME, END | session | time-outs, acknowledgements |
| **Relay client** `scripts/run_local_microphone_relay_client.py` | sequence, record queue, capture state | start, pause, resume, end, capture loop | receiver over TCP | numbering and queueing are two steps; callbacks |
| **RTP ingress** `app/audio_ingress/rtp.py` | phase, source generation, reorder buffer, expected 16-bit number and 32-bit timestamp, duplicate history, gap clock, output queue | `start`, `replace_source`, `accept_packet`, `advance`, `end`, `reset`, `drain_audio_chunks` | its caller's media loop | wrap-around, loss, late packets |
| classification training, ASR engine, embeddings, prompting, LLM gateway, evaluation, view models, offline scripts | mostly pure functions or library calls | – | – | numeric or I/O behaviour |

What makes each component correct:

* *Boundary*: a retransmission is recognised inside the duplicate window, never
  admitted twice; a refusal changes nothing the provider relies on; the call
  timeline has no hole; scopes never mix.
* *Session and worker*: no captured audio is lost, replayed or reordered by any
  sequence of pause, reconnect, resume and finish; END follows the last chunk;
  what the status says is true; pause, finish and failure come to an end.
* *Execution resource*: every run ends in a final snapshot, snapshots never go
  back, and every RAG manager is closed exactly once, whichever page acts.
* *Background manager*: only a result of the newest revision is delivered, at
  most once; capacity is neither leaked nor released twice; start and close may
  race freely; every accepted request settles.
* *Coaching*: the lists of cards agree; provisional cards are settled by the next
  committed revision; a failed revision leaves nothing; a card of the model belongs
  to the current revision.
* *Streaming*: each spoken word is committed once, in order and in time.
* *Diarization*: a failed window leaves nothing; a person stays the same speaker;
  only the customer's words are classified.
* *Vector store*: every operation is atomic, also when the connection is lost
  around COMMIT; all records are of the registered profile; every command ends.
* *Service controllers*: success leaves nothing behind, leftovers are reported.
* *Relay*: between two records both ends agree; no audio is repeated or reordered;
  a relay that fails leaves no call open.
* *RTP ingress*: packets are played in their place across the wrap; every position
  is played or counted as missing, once.

## 2. The plan

Ordered by what a failure would cost and how poorly a unit test would find it.

| # | Modules | Composition and abstraction | Run | Theorems | State |
|---|---|---|---|---|---|
| 1 | `IngressStream`, `LiveAudioIngress`, `CallAudioDelivery` | `LiveAudioIngress` EXTENDS the per-stream operators and implements `CallAudioDelivery` for each stream | `ingress` | all its properties | done |
| 2 | `LocalMicrophoneSession` | session (with the boundary's stream operators), worker and dashboard; implements `CallAudioDelivery` | `microphone_session` | all its safety properties and the refinement | done |
| 3 | `RagBackground` | manager with the pool as environment | `rag_manager` | all its safety invariants | done |
| 4 | `RtpIngress` | reorder buffer on modular numbers; implements `CallAudioDelivery` for each source | `rtp_ingress` | all its properties | done |
| 5 | `MicrophoneRelay` | client and receiver over a stream that may break; the session reduced to its answers | `relay` | all its properties | done |
| 6 | `CallState`, `CoachingRules`, `ClassificationViews`, `LLMCoachingGates`, `CoachingCall` | pure operators composed by the pipeline's steps; the manager seen through its interface | `coaching` | all its properties | done |
| 7 | `StreamingTranscript` | buffer, window and reconciler against the words really spoken | `streaming` | – | checked |
| 8 | `VectorStore`, `VectorLedger` | transactions statement by statement implement an atomic ledger | `vector_store` | all its safety properties, exclusion, the refinement `IsLedger` | done |
| 9 | `DiarizationCall` | composer, tracker, roles, router against the conversation that was held | `diarization` | all its properties | done |
| 10 | `DashboardExecution` | two pages, registry, worker threads | `dashboard_execution`, `dashboard_fresh_file` | all its safety properties | done |
| 11 | `ServiceControllers` | five scripts on one host | `services` | `NothingLeftUnnoticed` | done |

Modules meant for proof declare constants with named assumptions, use one
action per operation, and no `RECURSIVE` operator.


## 3. The modules

### IngressStream, LiveAudioIngress, CallAudioDelivery (boundary.py)

`IngressStream` holds the record of one stream (`_StreamState`) and the pure
decisions of the code: `AudioReason` and `EndReason` are the chain of early
returns of `_accept_audio` and `_accept_end`, in their order; `Admit`,
`CountDuplicate`, `CountGap`, `CountRejected` and `AfterDrain` are the
replacements of the record. `LiveAudioIngress` holds the tables `_active` and
`_completed` and has one action per event kind (`Start`, `AudioChunk`, `End`,
an event of another tenant or provider) and one for `drain`. `accept()` is not
locked by the boundary; its owner, the session, calls it under its own lock, so
an event is one step.

Abstractions: a payload is a model value with a duration in ticks; the
fingerprint of an event is its sequence number and payload, which is what the
code hashes; the event times and schema checks of the contract
(`contracts.py`) are preconditions. Tenant and provider are one alternative,
`ForeignEvent`. `timeline` and `delivered` are history variables: what was
admitted and how much of it was drained since the scope was last opened.

`CallAudioDelivery` is the abstract promise to a consumer: a gap-free timeline
that only grows, of which a growing prefix is delivered, unchanged once the
stream is closed. It is implemented three times: by the boundary for every key,
by the microphone session for its call, and by the RTP adapter for each source.

### LocalMicrophoneSession (local_microphone.py, app.py, runtime_wiring.py)

The record `mic` has the fields of the session and of the stream in the boundary
it owns; session methods are functions on that record, composed exactly as the
code composes its private methods (`_append_normalized`, `_emit_buffer`,
`_cancel`, `_emit_end`, `_stop_capture`, `_request_draining_end`,
`_finish_capture_stop_if_drained`). A method runs under the condition's lock and
is one step. The ASR worker is a program counter with one action per section
between two session calls, so the capture and dashboard threads interleave
wherever the lock is free: `WarmUp`, `OfferCapture`, `RunLive` (the pipeline's
single check of the capability), `TakeChunk`/`Acknowledge`/`EndOfAudio` (the
iterator), `RecordFinal`, `Report`, `HandleException`, `FailSession`. A reset is
two steps, as in the code: it closes the session, then cancels the worker.

PCM is counted in numbered units, so a chunk is an interval of units and lost
or replayed audio shows as a gap or an overlap. The resampler may hold back
units and release them on flush (`Flushable`), or fail.

Left out: frame validation, channel mixing and resampling arithmetic; the
transport closer (for the relay it is in `MicrophoneRelay`); diagnostics counters;
`fail_capture`, which nothing calls; and time: `wait_until_paused` and the media
track's inactivity are covered by the fact that any other action may come first.

### RtpIngress (rtp.py)

One RTP source at a time of one adapter, which one thread calls: a call is one
step. `source` is the record `_ActiveRTPSource`; after END the code moves it to
`_completed`, here `phase` says which of the two it is. The private methods are
functions on the record. One that fails says so in the field `failure`, and the
step then is `_fail`, which gives the whole record up, so nothing of the
half-finished method is visible. The loops are written in closed form:
`RunLength` is the number of buffered packets that follow on from the expected
one, `Obstacles` the places where `_drain_contiguous` would stop with an error
and `DrainFailure` the first of them; `ExpireGap` takes as many turns of its
loop as the buffer can need. That the closed form and the loop agree on the
output queue rests on the queue never shrinking inside a call.

Sequence numbers and timestamps wrap at `Modulus` and `TimestampModulus`. A
packet is the index it was sent with and whether its timestamp is wrong, and the
duplicate history keeps the order in which it took its packets (`prints`); only
`SequenceOf` and `TimestampOf` it are visible to the adapter, so what the
adapter mixes up the properties can tell apart. `position` is a history
variable: how many indices have been played or replaced. `Plausible` bounds the
environment, not the adapter: no packet is half the number space off. `RtpAssumption`
asks that the duplicate history and the window fit into one lap. That is true of
the defaults, but the constructor does not check it: with a history as long as
the number space a packet of the next lap would be dropped as a duplicate.

Left out: G.711 decoding, and the resampling of a chunk to the internal format
(audio is counted in samples of the source). The checks of scope, format, SSRC,
payload size and generation are one alternative, `PacketMismatch`, which changes
nothing.

### MicrophoneRelay (run_local_microphone_relay_client.py, tcp_microphone_relay.py)

Five threads and what they share. In the client: the `sender` thread, which takes
records off a queue, sends one and waits for its answer; the `capture` worker,
which collects the device's blocks into chunks; the device's callback, which
fills the worker's queue; and the `page`, on which Start microphone, Pause, Resume
and End run. In the dashboard: the `receiver`'s thread. `up` and `down` are the two
directions of the TCP connection, `link` which ends of it are open. A critical
section of a lock is one step, so giving a record its number and queueing it are
two, as in the code, and so are checking that the block queue is empty and setting
the drained event.

The session is reduced to what its answers depend on; `LocalMicrophoneSession`
has the rest. Where a queue limit decides (`Overloads`), the alternative is
nondeterministic. Closing a session calls the transport's closer, which closes the
connection before `process_bytes` has returned its ERROR record; so an ERROR never
reaches the client, except for a refused END, where nothing fails. The dashboard's
Finish is two steps, `FinishRequested` and `StopListening`.

A button's guard is the status at the moment it is handled. Time-outs may fire at
any moment they are waiting in, which includes the moment they really do. The
device is external; `RelayAssumption` says its blocks are short: those in the
queue and the one in the worker's hand do not fill a chunk. This is true of real
devices (blocks of some ten milliseconds, a chunk of two seconds), but no code
checks it.

History: every unit of audio has a number, `audio` has how many were captured and
which were admitted and acknowledged; `page.early` that a button was pressed while
the device was still opening, or that a resume came through while a button was being
handled (the worker may then fill the buffer that the button's thread flushes).

Left out: framing and metadata checks, the token, a second client (refused
before it changes anything), the reset of a terminal client session, and the
receiver's window of fingerprints: this client sends a record once, so no repeated
record ever meets it.

### RagBackground (postgres_rag_background.py)

A critical section of the manager's lock is one step. Work done after a release
is a step of its own: preparing the runner, clearing a failed attempt,
cancelling collected futures (`toCancel`), running a done callback (`Complete`).
The thread pool is external and modelled from its use: a queued future is
started or cancelled, a running one returns, the callback runs later, on any
thread. `Submit` includes the roll-back when the pool refuses the work item. Of
the runner (`postgres_rag_runtime.py`, `postgres_rag_orchestration.py`) the manager
sees that it returns a result, nothing, or raises an `Exception`, all of which
become completions. What its two transactions do to the store is in `VectorStore`.

### CallState, CoachingRules, ClassificationViews, LLMCoachingGates, CoachingCall

How one call is coached. The first four modules are pure:

* `CallState` (`app/calls/models.py`): the call as a record, and each method that
  the pipeline uses as an operator from a call to the next (`ApplyTranscript`,
  `RecordDetectedLabels`, `AdmitCard`, `UpdateCard`, `WithdrawCard`, ...).
* `CoachingRules` (`rule_engine.py`): `Evaluate` gives the labels that hold and the
  suggestion of each label. A text is a sequence of folded words.
* `ClassificationViews` (`runtime.py`, `encoding.py`, `postprocessing.py`,
  `streaming.py`): from the scores of the two views of a text (alone, and after the
  sentences before it) to its labels: thresholds, the exclusive `no_action`, the
  merge, the price guard, the raised thresholds of a partial text. The model gives
  any of a set of score vectors, to each view its own. How many sentences precede
  the text is any number.
* `LLMCoachingGates` (`llm_decision_gate.py`, `llm_result_gate.py`,
  `llm_suggestion_factory.py`): when a revision asks the model, and what may become
  of what the model writes. An output is a record of what the gate looks at.

`CoachingCall` composes them as the pipeline does: in a chunk an optional committed
event, an optional partial one, then the drain of the background manager
(`StableEvent`, `PartialEvent`, `Drain`; `FinalEvent`, `FinalDrain` at the end).
The coordinator works through the labels in their order (`InLabelOrder`), on a board of
the call, its own memory, the cards displayed so far and whether it failed.
`ProcessSafely` is the coordinator inside the adapter that rolls a failed revision
back: `Settle` applies `Restore` field by field as the snapshot lists them.
The manager is seen through `announce_current_revision`, `submit` and `poll`, its
job finishing at any moment (`BackgroundCompletes`) or the manager being closed
under the call (`ManagerCloses`). A model's answer may claim another revision.
Times are chunk numbers: a partial ends with the window and a committed text a
stable region earlier, so coaching times go back and forth, as in the code.

### StreamingTranscript (rolling_buffer.py, asr_window.py, transcript_reconciler.py)

Buffer, window and reconciler of the streaming pipeline against the words that
were really spoken. The recogniser is external: it hears the words that lie wholly
in the window, groups them into segments as it likes, is late by a tick about
their ends, and may mishear the word that the window cuts. `SpeechAssumption`
states what the window must be long enough for: `_new_suffix` recognises an overlap
of stable words with a misheard one when four words still agree. A speech whose
words repeat is not modelled (see *Known disagreements*).

### VectorStore, VectorLedger (vector_store/postgres/, deployment/, scripts/)

One tenant and knowledge base in PostgreSQL. A client's command is a sequence of
operations (`Migration`, `Provisioning`, `Ingestion`, `Retrieval`, `Orchestration`,
`Runtime`, `Upsert`, `EndToEnd`); an operation opens a connection, runs one READ
COMMITTED transaction statement by statement and closes it. A statement sees what
was committed when it starts, and waits for the locks of the others (`Blockers`):
the transaction's advisory lock on the scope, the lock of the profile's row, the
rows it inserts or deletes, the session lock of the migration. Writers take the
advisory lock first and the row second; the clean-up of the end-to-end run takes
rows without the advisory lock, so deadlocks are real and PostgreSQL's detector
(`BreakDeadlock`) is part of the model. A connection may fail at any statement
(`Fail`), and around COMMIT the client learns nothing (`CommitUnanswered`): the
server decides later (`CommitInDoubt`, `Resolve`), while the client already
repeats its command over a new connection, beside its own orphaned session.

`VectorLedger` is the promise: every operation takes effect at one instant, wholly
or not at all, on the state of that instant, and an answer is true of it. A client
that lost its connection may get no answer for what took effect. `IsLedger` is the
refinement, with the committed tables as the ledger's.

A record is a text under a profile (an embedding depends on both); `by`, the client
that stored it, is a history field. Hits of a search are the records it saw; cosine
distances, the codecs and limits of rows are left out.

### DiarizationCall (diarization/, streaming/customer_routing.py)

`compose` of one window in four steps (accept the request, diarize, track,
attribute: align, resolve roles, project), each of which may fail; a failure puts the tracker back to its
checkpoint. The conversation is drawn once and is what properties compare with;
the code never sees it: any conversation in which a word is said by somebody who speaks
through it (`ConversationsAssumption`). The diarizer names the people of a window exactly
but arbitrarily (the names may be exchanged in every window), or gives the first turn one
name too many. `_match_speakers` takes the candidates from the best to the worst; here it
is a fold over the set of candidates (`Match`, the weakest last). The specification is
`CallSpec` over `callVars`, because one proof module speaks of this and of
`RagBackground`. The customer router asks
a provider for the projection of the revision being committed, and hands on only
that text; a provider may serve a projection of another revision.

### DashboardExecution (runtime_wiring.py, rag_runtime.py, app.py)

The registry of execution resources that all pages of a process share, and the
scripts of two pages that show one call. A handler is split wherever the code
releases a lock: opening the source, looking up and creating the resource,
activation of RAG under the controller's lock, starting the worker, publishing a
snapshot (read the latest, build the successor, publish). A chunk is counted
(`CountChunk`, `view_models.py:627`, `:710`) in one step and shown (`ShowChunk`,
`app.py:1086`, `:2892`) in a later one: in between the microphone's task calls its
session, which someone may have closed (`SessionCloses`), and a file's task looks at its
flag, and either may raise. A worker may complete, be cancelled at any step, fail
(`FileFails`, `MicrophoneFails`), and fail again while it reports its failure
(`TaskRaises`), after which `_run_worker` publishes the successor of the latest
snapshot (`recovering`, then `recovered`, where a run that its own task brought to an
end is `ended`). A page is reset once the close it asked for has returned, and not when
that raised (`Closed`, `CloseMissing`). Activation of the integration either is ready
or is not.

### ServiceControllers (scripts/run_*_service.py, run_*_smoke.py, run_postgres_integration.py)

A run executes the steps of its script's try block; the first failure sends it to
the finalisers, which go on whatever fails among them. Each command may fail after
any part of its work, a service may die, a run may be interrupted or killed, a
one-off container may survive its command, the GPU may stay busy. The errors are
kept apart as in the code: primary, clean-up, protected resources, restored
handlers. Runs share the Docker host, and a controller that compares the host's
resources before and after sees what the other run did in between.

Three of the scripts give every command a time limit (`Bounded`).
`run_postgres_integration.py:44` and `:162` and `run_postgres_tls_smoke.py:57` run
theirs without one, so those two scripts wait for Docker, psql or pytest as long as
these take, for ever if need be: their runs may stop anywhere in the model. The TLS
service calls the smoke script's functions under its own limit
(`_bounded_smoke_runner`).

## 4. What the runs check

| Run | Bounds | Distinct states | Shows |
|---|---|---|---|
| `ingress` | 3 calls × 3 streams of which 2 are active at once, memory of 1 ended scope, one stream in depth (2 payloads of different length, numbers 0–3, queue 2, window 2, 1 refusal), the third call only asks | 50 818 | `AudioTimeline`, `DuplicateWindow`, `ScopeIsolation`, `RefusalIsHarmless`, and `DeliversEveryStream`, the refinement of `CallAudioDelivery`: retransmissions, conflicts, gaps, overloads and reuse of a forgotten scope leave every timeline exact |
| `microphone_session` | chunk of 3 units, 9 units, queue 2, 3 capture generations | 54 191 | `NumbersAgree`, `AudioIsConserved`, `StatusIsTruthful`, `DeliversTheCall` over all interleavings of capture, dashboard and worker; under fairness `CallSettles`: a pause settles, a requested end is emitted, and the worker stops after it |
| `rtp_ingress` | numbers modulo 8 starting at 6, reorder window 3, history 1, packets of 2 samples, chunks of 5, queue 1, 3 instants; a source of 9 packets and one of 2 | 49 976 | `PlacedByNumber`, `GapsAreAccounted`, `DeliversEverySource` under loss, delay, repetition, wrong timestamps and replacement |
| `relay` | chunk of 3 units, blocks of 1, block queue 1, record queue 1, 3 units, 2 generations, 3 buttons | 4 523 691 | `EndsAgree` (also: a relay that fails leaves no call open) and `AudioKeepsItsOrder` over all interleavings of the five threads, with time-outs, a breaking tunnel, Reset and Finish at any moment |
| `coaching` | 4 chunks, board of 1, 2 labels, 3 utterances, 2 score vectors, 2 model texts | 864 456 | `CallIsAccounted`, `FailedRevisionChangesNothing`, `GeneratedCardIsCurrent`, with rules or a classifier that may raise |
| `rag_manager` | 2 calls × 2 revisions, 1 worker, capacity 2, 2 threads that start and close | 455 975 | `ReservationsMatch`, `OnlyCurrentIsKept`, `AtMostOnce`, `StartIsLed`, `ClosedHoldsNothing`; under fairness `NothingWaitsForever`: starts return and accepted requests settle |
| `streaming` | 15 words of three ticks, window of 12 words, 2 words not yet stable, segments of up to 3 words, lateness up to 1 tick, chunks of two lengths | 6 132 | `SpokenOnce`, `NothingIsDropped` |
| `vector_store` | 3 clients with 27 combinations of commands, 2 record ids, 2 texts, 2 profiles, 3 initial stores, 2 attempts, 1 lost connection | 228 806 | `RecordsMatchProfile`, `ConflictIsForeign`, the refinement `IsLedger`; under fairness `EveryCommandEnds` |
| `diarization` | 6 calls of 4 time units, 4 overlapping windows, 4 compositions, history 2, 1 fault | 1 415 758 | `FailuresLeaveNoTrace`, `SpeakersKeepTheirIdentity`, `OnlyCustomerSpeechIsRouted` |
| `dashboard_execution` | 2 pages, registry of 1, 1 upload, 2 resources, 1 manager, 2 published steps | 6 187 529 | `RunsEndInASnapshot`, `SnapshotsOnlyAdvance`, `ManagersAreReleased` |
| `services` | 5 scripts: two PostgreSQL projects on one host, two model servers on one GPU, the smoke script alone | 659 540 | `NothingLeftUnnoticed`; under fairness `BoundedRunsEnd` |
| `dashboard_fresh_file` | 1 page, 2 uploads | – | the finding below |

Why the bounds are enough.

* *ingress*: the window and the queue are the only memories. With a window of 2 and
  four numbers it fills, evicts and is asked for what it evicted; queue 2 fills and
  empties; two payload lengths make a wrong start time visible. One completed scope
  is enough for one to be forgotten while another is open. `MCThirdOnlyAsks` and
  `MCOneInDepth` bound what the streams besides the deep one may do, since streams
  only meet in the two tables.
* *microphone_session*: three units per chunk leave a rest of one or two units at
  every pause; three chunks overfill a queue of two; three generations allow a pause
  of a resumed capture.
* *rtp_ingress*: a reorder window of 3 holds two gaps at once, which is where the
  gap's clock is restarted; nine packets on eight numbers are more than a lap; chunks
  of 5 samples end inside a packet of 2; the second source only has to show that
  nothing of the first is left.
* *relay*: three units fill a chunk, or leave a rest for a pause to flush; three
  buttons are a pause, a resume and an end; queues of one overflow and make the
  sender, the worker and the page wait for each other.
* *coaching*: a board of one evicts with the second card; four chunks are a
  provisional card, the committed text that promotes or withdraws it a stable region
  later, a card that evicts it in between, and one more revision that supersedes a
  request. The score vectors are "nothing" and "an objection beside a cancellation
  too weak for a partial text".
* *rag_manager*: two revisions are one supersession; two calls share a capacity
  smaller than the number of requests, so a full manager, a release and a new
  acceptance happen. A second thread is a follower or, later, a second leader.
* *streaming*: the speech is longer than the window, so words leave it; a word is
  heard in up to five windows, grouped anew in each.
* *vector_store*: overlapping batches, a writer of another profile, the clean-up
  between any two of their statements; a second attempt after the one fault meets the
  session the first left behind. Both profiles have the same dimension, so nothing but
  the profile tells their vectors apart.
* *diarization*: with two people exchanged names are the hardest case; four
  compositions exceed the history of two windows; the calls contain speech at the
  same time, a word across a change of turns and a word nobody is given.
* *dashboard_execution*: one page closes or resets what the other starts. Two
  resources are enough for a call to be closed and started anew. `MCShortRuns` drops
  the states in which there are two resources and one of them has had a microphone or
  a run that published before its last snapshot: what such a run does is covered while
  its resource is the only one, and the second resource is there for the registry, the
  keys and the managers. The proofs have none of these bounds. The pages are symmetric,
  and the run checks no liveness.
* *services*: two scripts meet on one host only through the listed resources and
  the GPU; the pairings are the ones that share something.

`CHECK_DEADLOCK FALSE` is stated where the system may stop: a boundary with
exhausted refusals, a call whose worker has stopped, an RTP source at the bound of
its packets and instants, a relay whose threads have ended, a call at its last chunk
or composition, a closed manager with nothing in flight, commands and scripts that
have ended.

### Fairness

`IngressStream`, `RtpIngress`, `CoachingCall`, `StreamingTranscript` and
`DiarizationCall` are passive or driven by their caller; of the relay and the
dashboard's resources only safety is checked. Elsewhere:

* `LocalMicrophoneSession`: the worker thread is weakly fair over `WorkerProgress`:
  its steps are straight-line code or a wait on the condition that every state change
  notifies, and transcribing one chunk is assumed to return. The dashboard's reset is
  weakly fair in its second step only, since the same callback runs both. Nobody is
  obliged to speak, pause or finish.
* `RagBackground`: a thread inside `start()` goes on, and each request's `FutureStep`
  is weakly fair: the pool has a thread for its queue, the runner has time-outs and
  returns, and callbacks are run by the pool or by the canceller. `PrepareFails` and
  `FinishStart` share one condition: the code promises that `prepare()` ends, not how.
* `VectorStore`: a client's next statement, the server's decision about a COMMIT
  in doubt, and the deadlock detector are weakly fair each. Faults are not, and they
  are bounded.
* `ServiceControllers`: a script of `Bounded` goes on (`Start`, `Finish`): each of its
  commands has a time limit, and each of its waits a deadline. Nothing is assumed of
  the other two scripts. A kill is never obliged to happen.

### Finding

**A second uploaded file cannot be started** (`dashboard_fresh_file`,
`FreshFileCanStart`). After an uploaded file was started, choosing another gives the
page a new call id, while the session keeps the key of the first file's resource.
`_retained_execution_resource` looks that key up for the new call, `registry.lookup`
raises `ValueError` (`live_dashboard/runtime_wiring.py:442`), and the script ends
before Start is drawn. `PROJECT_PROGRESS.md:555` promises Start enabled after a change
of file. The code that would close the previous resource (`app.py:717`) is never
reached.

### Known disagreements

Differences between code and documentation that were met while modelling; the models
follow the code, and the properties above are stated so that they hold of it.

* *An overload during a pause is shown as PAUSED.* `_stop_capture` flushes the short
  rest; if the queue is full the session is closed as OVERLOADED, but the method goes
  on and the status is overwritten (`local_microphone.py:1204`).
  `tests/test_local_microphone_ingress.py:683` asserts OVERLOADED.
* *Finish before the first frame is reported as a failure.* `finish_call` closes the
  session as COMPLETED; the worker then meets a closed session and FAILED is
  published (`local_microphone.py:1239`). `docs/progress/fatih.md:237` says Finish
  retains the completed report.
* *Finish on the dashboard ends a relayed call as a failed one.* `stop_listening`
  closes the connection of the client that is still sending, and the receiver closes
  the ending session as DISCONNECTED (`app.py:1242`).
* *End may lose the last block of the relay client.* The worker sees an empty queue,
  the callback clears the drained event and queues a block, the worker then sets the
  event (`run_local_microphone_relay_client.py:679`).
* *A Pause or End that meets a resume may leave the microphone running, and its audio
  out of order.* The sender shows STREAMING before it calls `capture.resume`
  (`run_local_microphone_relay_client.py:392`), so the page accepts a Pause, whose
  `stream.stop` the late `stream.start` (line 597) undoes; the worker may then give a
  chunk its number before the page's thread gives one to the earlier rest that it
  flushes. `docs/progress/fatih.md:412` calls "bounded audio draining,
  pause/resume/end cleanup" verified by the lifecycle tests. `AudioKeepsItsOrder` excludes
  the case by `page.early`; it was met in the attempt to prove the invariant, and
  needs more audio than the run has.
* *A revision fails when its provisional card was evicted.* Promotion updates a card
  that has left the board and raises (`coordinator.py:293`), so the committed revision
  is rolled back; `docs/progress/fatih.md:192` describes promotion without that case.
* *A text may be shown twice after a promotion.* The promoted card takes the text of
  the committed revision, whose fingerprint is not registered, so a later revision may
  show the same text in a card of its own (`coordinator.py:295`, against "Suggestion
  content fingerprint deduplication", `PROJECT_PROGRESS.md:208`). `CardsAreAccounted`
  excludes promoted cards; the case was met in the attempt to prove the invariant.
* *Repeated speech at the end of a call may be dropped* by `finalize`, which takes a
  tail equal to the end of the stable text for an overlap
  (`transcript_reconciler.py:138`, against `tests/test_transcript_reconciler.py:120`).
* *The controller's phases* differ from the runbook in the order of the last two
  (`run_postgres_tls_service.py:697`, runbook line 60).
* *Role phrases of several words never match* when the ASR gives one span per word,
  and the default phrases have several (`diarization/composition.py:170`, against
  `PROJECT_PROGRESS.md:1073`).
* *A worker may outlive its resource.* `close()` joins the worker it reads; one
  started between that and the lock goes on in a closed resource
  (`runtime_wiring.py:343`). `RunsEndInASnapshot` shows that its run still ends in a
  final snapshot, and `ManagersAreReleased` that its manager is closed once.
* *The final snapshot may lack the last chunk.* A microphone's chunk is applied to the
  call and counted (`view_models.py:710`, called at `app.py:1060`) before the session
  is told of it (`app.py:1065`, `:1073`, `:1078`), which raises when an overload or a
  disconnect has closed it. The handler tells the session as well (`app.py:1185`) and
  raises too; `_run_worker` then publishes the successor of the latest snapshot
  (`runtime_wiring.py:237`), with the count before that chunk. `RunsEndInASnapshot`
  says that this is the only chunk that can be missing, and only then.

## 5. What is proved

### The boundary

`LiveAudioIngressProofs` proves, for any set of calls,
streams, payloads, formats and numbers and any limits, under the assumptions
`PayloadAssumption`, `LimitAssumption` and `ScopeAssumption` (durations and limits
are positive or natural numbers, as the constructor of the boundary requires),
everything the run `ingress` checks:

| Theorem | States |
|---|---|
| `TypeCorrect` | `Spec => []TypeOK` |
| `ScopesStayApart` | `Spec => []ScopeIsolation` |
| `TimelineIsKept` | `Spec => []AudioTimeline` |
| `WindowIsExact` | `Spec => []DuplicateWindow` |
| `RefusalsAreHarmless` | `Spec => RefusalIsHarmless` |
| `EveryStreamDelivers` | `Spec => DeliversEveryStream`, the refinement |

Its first part has the facts about one stream: what a record looks like after
admitting a chunk, after counting a refusal, after a drain, each as
`ASSUME ... PROVE` over the operators. The second part lifts them.

* `TypeOK` is inductive on its own.
* `ScopeIsolation` speaks of cardinalities, so `ScopeInv` adds that the set of
  active keys is finite; a START adds one key whose call and stream no active key
  shares, an END moves one key from one table to the other.
* `AudioTimeline` is not inductive together with `DuplicateWindow` unless both
  are known of the same record: `AccountInv` states `Contiguous` for every key and,
  for the active ones, that record and history agree (`Faithful`: the queue is the
  undelivered rest, the expected number and start time are those after the last
  admitted chunk, the window holds the fingerprints of the last ones). The
  timeline of a closed key must stay contiguous because the refinement still
  speaks of it.
* The refinement is proved step by step: START is `Open` (with an empty
  timeline), an admitted chunk is `Admit`, a drain is `Deliver`, END is `Close`,
  the eviction of a remembered scope is `Forget`, and everything else stutters for
  that key. Because one END closes one key and may make the boundary forget
  another, the statement is per key.

### The background manager

`CallServicesProofs` proves, in its second part, for any scopes, revisions, starting threads, pool
size and capacity (`ManagerAssumption`: natural numbers, at least one worker, and
no more workers than capacity), every safety invariant the run `rag_manager` checks:

| Theorem | States |
|---|---|
| `ManagerTypeCorrect` | `Spec => []TypeOK` |
| `CapacityIsKept` | `Spec => []ReservationsMatch` |
| `NewestRevisionOnly` | `Spec => []OnlyCurrentIsKept` |
| `RunAndDeliveredOnce` | `Spec => []AtMostOnce` |
| `CloseIsFinal` | `Spec => []ClosedHoldsNothing` |
| `OneLeader` | `Spec => []StartIsLed` |

None of them is inductive. The invariant `IInv` that is has one layer per question:

* `StartInv`: an attempt is marked failed exactly while its leader is about to
  clear it. Without this a thread could clear the attempt of a later leader.
* `BooksInv`: the books say what became of each request. A request is registered
  exactly while its future has not settled (as long as the manager is open), a
  kept completion belongs to a settled future, and a submitted identity is
  forgotten only when a newer revision was announced. The last part is what
  keeps a second submission of the same identity from running it again.
* `RunsInv`: how often a request was run and delivered follows from the state of
  its future; a completion that is kept was run once and never delivered.
* `CountInv`: reservations are the number of registered and kept requests, with
  both sets finite, so that adding and removing one changes the count by one.
  That `reservations` never goes below zero, which `TypeOK` claims, follows from
  here and not from the code's guards.

### The microphone session

`LocalMicrophoneSessionProofs` proves, for any chunk size, queue, history, amount of
audio and number of generations (`SessionAssumption`: all but the audio at least one,
as the constructors require), what the run `microphone_session` checks apart from
liveness:

| Theorem | States |
|---|---|
| `CountersAgree` | `Spec => []NumbersAgree` |
| `ConservesAudio` | `Spec => []AudioIsConserved` |
| `ShowsTheTruth` | `Spec => []StatusIsTruthful` |
| `ImplementsDelivery` | `Spec => DeliversTheCall`, the refinement of `CallAudioDelivery` |

The lemmas of `LiveAudioIngressProofs` about one stream are used again, by `INSTANCE`,
for the boundary that the session owns: one with a single scope. A method of the session is a function on its
record, so the proof goes method by method: what each of `_append_normalized`,
`_emit_buffer`, `_cancel`, `_emit_end`, `_stop_capture`, ... keeps of `Core`, and
how it moves the timeline (`Onward`: it is opened, grows by a chunk, is delivered or
closed). An action then only names the method it runs. `Core(mic)` has the parts

* `Phased`: while the stream is open, session and boundary count the same numbers and
  the boundary's record is a faithful account of the timeline; afterwards END has been
  emitted. Without it the END that a finish owes might be rejected by its number.
* `Conserved`: as long as the session is open, what was captured is the chunks plus the
  buffer, and a buffer with audio in it belongs to a capture that is still live. The
  second half is what makes a pause, which revokes the capture, flush the rest first.
* `Finished`: a call that ended as completed handed everything to the worker.

`IInv` adds that an open session's buffer is less than a chunk, that its status is
truthful (`Truthful`, which for its induction also says that a waiting pause has no
live capture), and what the worker holds between two session calls.

### RTP ingress

`RtpIngressProofs` proves, for any widths of the numbers, packet and chunk sizes,
windows, limits and numbers of sources and packets that satisfy `RtpAssumption`,
everything the run `rtp_ingress` checks:

| Theorem | States |
|---|---|
| `TypeCorrect` | `Spec => []TypeOK` |
| `PacketsKeepTheirPlace` | `Spec => []PlacedByNumber` |
| `EveryPositionCounts` | `Spec => []GapsAreAccounted` |
| `ImplementsDelivery` | `Spec => DeliversEverySource`, the refinement |

`RtpAssumption` is what the constructor requires, and that the duplicate history and
the window fit into one lap of the number space, which the defaults satisfy.

`IInv` says of an active source `Sound`, which also holds between two turns of the gap
loop, and `Rested`, which holds between two calls. `Sound` has the parts

* `Placed`: the expected number and timestamp are those of the playout position.
* `Windowed`: what is buffered lies within the window, one packet for a position.
* `Near`: the reason why the duplicate history is never mistaken. Each entry moved the
  source by at most a window and the missing packets before it, so the source is no
  further than `Reach` past an entry, which counts its younger ones. A history within
  its limit then reaches back less than a lap. One over its limit holds only what was
  buffered a moment ago, because the code does not trim packets that still wait.
* `Counted`: position and samples. `Cut`: the queue holds the youngest of the full
  chunks, so that the timeline follows from the number of chunks cut.

That a packet whose number is near has an index that is near is arithmetic modulo
the number space (`WithinOneLap`, `DifferenceOfRemainders`, `WindowDistance`). The
closed forms of the loops are proved to be what the loops do: `DrainPlaysTheRun`,
`SkipFillsTheGap` and `ExpireSettles`. The last is an induction on the turns that are
left (`Todo`: for each buffered packet a gap and a run), with `Induction` derived from
the well-foundedness of the natural numbers and stated of sets.

For this proof the model's duplicate history came to keep the order of its entries, as
the `OrderedDict` of the code does.

### The microphone relay

`MicrophoneRelayProofs` proves both properties of the run `relay`, for any chunk and
block sizes, queue depths and bounds that satisfy `RelayAssumption`:

| Theorem | States |
|---|---|
| `BothEndsAgree` | `Spec => []EndsAgree` |
| `AudioStaysInOrder` | `Spec => []AudioKeepsItsOrder` |

That the blocks in the queue and in the worker's hands do not fill a chunk is used for
the order only, in `Leftover`. The inductive invariant
`IInv` has two halves.

*The conversation.* `Turns` says where the one unanswered record is: on the wire
(`UnderWay`), with the receiver (`PauseWaits`), answered (`Replied`), or nowhere any
more; and what both ends then know of each other. `Serving` ties the receiver to its
session. To these the other three threads of the client matter only by failing the
sender and by the records they queue (`Holding`: what each thread holds between two of
its steps; no queued record but a RESUME is of a later generation). All that the
capture and the page do to the conversation is one abbreviation, `Aside`, so `Turns`
is proved for their 26 actions at once. Dually, `Cut`, `Starts`, `Admits` and so on
are what is left of the receiver's actions once failure has been taken out.

*The way of the audio.* A unit passes six stations: the device's queue, the worker's
buffer and rest, the hands of worker and page, the sender's queue, the wire, the
receiver. `InOrder` says that every station is ahead of those behind it, `Sorted`
that each is in order itself. An action moves a few units from a station to the
next, or drops them, and the lemmas `OrderMoves` and `OrderDrops` say what that
preserves. The order is strict as long as no button was early, and otherwise only
says that no unit is in two places (`Precedes`), so one proof serves both halves of
the property. What makes it true is `Apart`: while the page's thread flushes the rest
of the buffer the device is silent (`Silent`), and what the worker still has cannot
make another chunk that would be numbered first (`Leftover`).

Two parts are there for the bounds. `Budget` says that every sequence number was paid
for by a unit of audio or a button, so that the numbers stay in the range the type
invariant states; it counts the units without a number, and the button being handled.
`Room` says that a RESUME finds a generation left although the sender may have moved
on since the button was pressed.

Looking for the invariant showed that a resume which comes through while a button is
being handled breaks the order as well, which needs more audio than the run has (see
*Known disagreements*); `page.early` records it.

### The dashboard's resources

`DashboardExecutionProofs` proves for any set of pages and any number of uploads,
chunks and activations (`PageAssumption`: the free lock is no page;
`BoundAssumption`):

| Theorem | States |
|---|---|
| `RunsEnd` | `Spec => []RunsEndInASnapshot` |
| `ManagersReleased` | `Spec => []ManagersAreReleased` |
| `SnapshotsAdvance` | `Spec => SnapshotsOnlyAdvance` |

`IInv` is `Types` and four parts. `Runs`: the snapshots of each resource follow its run;
one that goes on has published what it counted, but for a chunk it is about to show,
and nothing final, so whatever ends it (a result, a cancel, a failure, its own handler
raising) publishes a snapshot that is not discarded as late; a handler that raises
leaves the last published count, which lacks at most that chunk. `Registry`: a resource that has a manager is the
one the registry finds under its call. `Scripts`: which steps of a page's script hold
the controller's lock, and that a close works on what is registered until it is
through. `Places`: a manager is in exactly one place, a script's hands, one resource,
or closed. That a close and an activation do not lose or close a manager twice
rests on the lock being held from taking the manager to closing it, and on a
resource being replaced in the registry only after its manager was taken from it.

### The scripts on a host

`ServiceControllersProofs` proves `NothingEscapes`, `Spec => []NothingLeftUnnoticed`,
for any runs, programs on the host and faults: a script that reports success has left
no resource, directory or handler of its own, and one that comes to its report with
something left has recorded an error. The invariant is a statement `Good(c)` about
each run alone: `Placed` (where it is in its program), `Resources` (before the clean-up
is due there is nothing labelled; from each finaliser on what it should have removed is
gone, or an error is kept), `Unlabelled` (the probe container, which carries no label
and is found by the comparison with what was there before), and `Private`
(directories, hand-off, handlers). A step of another run changes none of it because
labels carry the project's name; that is the lemma `OthersStayGood`. The programs
are tables of steps; the proof uses of them only `StepFact`, for instance that no
step before the one at which the clean-up becomes due creates anything.

The attempt to prove it showed two definitions (`FirstFinaliser`, and `Reason` in
`MicrophoneRelay`) whose CASE guards overlapped, so that they left open which of two
values is meant; both are now the chain of tests that the code is.

### The vector store

`VectorStoreProofs` proves, for any clients, commands, records, profiles, initial
stores and any number of attempts and faults:

| Theorem | States |
|---|---|
| `RecordsAreOfTheProfile` | `Spec => []RecordsMatchProfile` |
| `LocksAreExclusive` | `Spec => []Exclusive`: one holder of the scope lock and one of the row's, orphaned sessions included |
| `ImplementsTheLedger` | `Spec => IsLedger`: the refinement of `VectorLedger` |
| `ConflictsAreForeign` | `Spec => ConflictIsForeign`: nobody conflicts with what it stored itself |

The assumptions are `NamesAssumption` (the special values are no profiles or
records), `ProfilesAssumption` (there is a profile), `JobsAssumption` (commands are
sequences of operations; all but verification, migration and clean-up have a profile)
and `StoresAssumption` (what is stored at first is of the registered profile, and
nothing is registered without the schema), and for `ConflictsAreForeign` also
`InputAssumption` (a command offers one text for a record, also when it is run again,
since it is run on the same input). The inductive invariant `IInv` is `TypeOK`,
`Exclusive` and three parts that say why no commit can break the store:

* `Harmless(t)` of every transaction, live or orphaned: it adds records only of the
  registered profile and while it holds scope and row lock; it registers a profile
  only while it holds the scope lock and there is none; it removes the profile only
  with all records and while it holds the row. A record of another profile is then
  impossible at the instant of COMMIT, however late that is.
* `Underway(c)`: the statement a client has come to tells what its transaction holds
  and has written.
* `Matching`: all records are of the profile, and without a profile there are none.

The crux is that a commit of one session must keep `Harmless` of all others. Two
writers are kept apart by the advisory lock; a writer and the clean-up, which does not
take it, by the row's; and the insertion of a profile meets no row to lock, but then
there is nothing to clean up.

The refinement needs more, in `JInv`: the effect of a transaction must be that of one
operation of the ledger at the instant of its COMMIT, which may be long after its last
statement, and the answer must be true of that instant.

* `Apart`: open transactions write different rows, since each waits for the rows of
  the others.
* `OneEffect` of every session: it stores rows of its own client, or registers a
  profile, or removes, never two of them. `Settled`: a clean-up that found no profile
  has nothing left to delete, although it commits.
* `Ready(c)` of a client that comes to COMMIT: what it read is still so. The profile it
  was accepted under is registered; the rows that `get_records` returned are unchanged
  (`SeenIsStored`), so that those it is about to insert are still the new ones and the
  others are still what they were compared with. This is where both locks are used
  again: whoever changes profile or rows holds one that a writer holds.
* `Knows(c)`: what leads to `Ready` at the earlier statements.

Every statement is then a stutter or an answer of the ledger, every COMMIT one of its
operations. One that is in doubt takes effect as what its transaction does (a batch
as its new rows only, which the ledger calls `Replace`), without an answer. The first
attempt failed for a good reason: the model let a registration on a database without
schema, one that skips the readiness check, come back as done with nothing committed.
Every statement on a table now fails there (`Refused`, `Accepts`), as it does in
PostgreSQL.

`ConflictIsForeign` adds `OfItsCommand`: a row that bears a client's name, stored or in
a transaction that may still commit, has the text the client's command offers. Rows
come from nowhere else (`Sources`), and what `get_records` returned is still stored, of
the registered profile (`JInv`); so a row that differs differs in its text and is
another client's.

### Who said what in a call

`CallServicesProofs` proves, in its first part, for any conversations, audio windows,
phrases, thresholds, history and numbers of compositions and faults, what the run
`diarization` checks:

| Theorem | States |
|---|---|
| `CallInvariant` | `CallSpec => []CallInv` |
| `NoTrace` | `CallSpec => []FailuresLeaveNoTrace` |
| `IdentityKept` | `CallSpec => []SpeakersKeepTheirIdentity` |
| `CustomerOnly` | `CallSpec => []OnlyCustomerSpeechIsRouted` |

The assumptions are `ConfigurationAssumption` (limits and thresholds at least one,
confidences in tenths, windows not empty), `ConversationsAssumption` (above) and
`PhrasesAssumption` (finitely many phrases). The tracker's limit may be any, below two
as well: then a window with two people is refused.

The tracker computes with sums and with a greedy matching, both folds. What they yield
is proved by an induction over the subsets of a finite set (`SubsetInduction`), in which
the predicate is a family of sets, so that no operator has to be passed to a theorem;
`Recursion` gives the fold a solution to speak of.

* *Sums.* The time a local name shares with a speaker of the call is positive exactly
  when two of their turns overlap, and grows with the pairs (`SharedPositive`,
  `SumFunctionOnSet` of a larger set or of larger terms).
* *Matching.* `IsMatching`: nobody is matched twice, and a candidate that is left out
  lost to a better one with the same name or the same speaker. This is all the proof
  uses of the greedy order.
* *The anchor.* The bare statement, that successive outcomes agree, is not inductive:
  all retained windows vote, old ones too, and each counts again. What makes the vote
  right is that the retained windows agree with one another (`Sound`), and that
  one of them, the one that ends last, holds all the time the new window
  can share with any. Whoever speaks alone in that time has a strictly better
  candidate than anybody else could offer for the name or the speaker. So a window
  that is taken leaves a sound history (`TrackKeeps`).
* *New numbers.* A speaker that is not matched gets a number nobody had, and two of one
  window different ones.

`CallInv` keeps three layers in step with the stages of `compose`:

* `TrackInv`: the tracker is what the accepted windows build (`Past`), the
  checkpoint too while a composition runs, and after tracking it is `Past` with the
  window of the request. `FailuresLeaveNoTrace` follows at once; that every failure
  comes back to `Past` is where the checkpoint is needed.
* `WordsInv`, `OutcomesInv`: the words of a request are words of the conversation; a word
  that is given to one speaker was said by the person behind it (`OneSpeaker`: the
  winning turn has one name, and a turn in the word's time has the sayer's). Then
  each outcome is `Honest`: a trusted customer's words are the customer's unless the
  phrases mislead (`RolesAreHonest`, over what the direct rule and the rule of the
  opposite can yield for two speakers).
* `RoutedInv`: what was routed is a projection of an outcome of its revision, of revisions
  that rise up to the processed one. Here it matters that a later outcome of the same
  revision replaces the projection but not what was routed.

Two assumptions the first version of the model left unsaid came out of the proof: a word
must have a time and a sayer who speaks through it, or be heard where nobody speaks, and
a diarization with one name too many is a fault only if it exceeds the tracker's limit.

### How a call is coached

`CallServicesProofs` proves, in its third part, for any labels, rules, templates,
texts, scores, outputs of the model and limits, what the run `coaching` checks:

| Theorem | States |
|---|---|
| `CallAccounted` | `CoachingSpec => []CallIsAccounted` |
| `FailureKeepsTheCall` | `CoachingSpec => FailedRevisionChangesNothing` |
| `GeneratedIsCurrent` | `CoachingSpec => GeneratedCardIsCurrent` |

The assumptions are `LabelOrderAssumption` (labels are distinct and `no_action` is none of
them), `RulesAssumption` (rules and templates are about known labels, with known
actions and priorities), `ViewsAssumption` and `CoachingAssumption` (limits, and each
rule's action is one the tenant allows).

The coordinator goes through the labels one by one, and may stop on the way because a
promotion fails. So the books are proved of every board in between, by an induction over
the labels in order: `InLabelOrder` is a recursive function, and what each
label keeps is stated of the set of positions it holds for. The books (`Kept`) are

* `CardsInv`: the board is ranked and within its limit, identities occur once in a list,
  board and history are disjoint and together the list of all cards. That the weakest
  card is found, makes room and goes to the history, and that the new one is inserted at
  its rank, are lemmas about sequences (`InsertKeeps`, `WeakestHeld`).
* `LabelsInv`: a label is new in the revision it was first detected in, and in no other.
  `record_detected_labels` is called again for the same revision, by the classification and
  by every confirmed card, and adds to what the revision has.
* `PrintsInv`: a card that was not promoted has its fingerprint registered, and there are
  as many fingerprints as cards.
* `IdsInv`, `CoachInv`: an identity names the revision and the label, or the answer it
  came from, so the cards of a new revision are new; a tracked card has the identity of its
  label.

Two more conjuncts relate the board to what the coordinator tracks (`Settled`): a
provisional card on the board is tracked (`OpenCards`), and a tracked card is newer than
every committed revision that was processed (`Late`). The second one is why the
identities may be computed from revisions, and it needs that every committed revision
empties the tracking. The coordinator may break both half way and then raise;
`Worked` therefore promises them of a result that did not fail, and `SettleKeeps` shows
that the adapter's restore re-establishes them otherwise (`Concluded`), which is also
`FailedRevisionChangesNothing`. For the model's card the decorator is what matters: a
context is kept only for a processed revision, there is at most one, and a drain drops
it unless it is of the latest revision (`CoachedInv`, `Answered`).

The proof corrected the property: "no text is shown twice" is false after a promotion
(see the known disagreements), which the run's four chunks are too few to show.

### What is only model-checked

* Liveness: `CallSettles`, `BoundedRunsEnd`, `EveryCommandEnds` and the settling of the
  manager's requests rest on fairness, which the prover does not reach.
* `StreamingTranscript`: `SpokenOnce` and `NothingIsDropped`. Overlaps are searched by the
  longest matching blocks of two texts, a `RECURSIVE` operator over sequences, which
  the prover does not accept in a module it reads; and segments are built by selections
  and folds over sequences, about which the library states little.

Induction over numbers and over finite sets is within reach, as the gap loop of
`RtpIngress`, the folds of `DiarizationCall` and the labels of `CoachingCall` show, because
it can be stated of sets. Proofs do not depend on the speed of the machine: leaves that take the SMT solver
longer than a fraction of its default time limit name a longer one.

## 6. What is not modelled

`PROJECT.json` lists every component with its status. Left to other means: signal
processing and resampling, the ASR, diarization and classification models and their
training and calibration (numerics and libraries), prompt texts, embeddings and the
LLM gateway (stateless calls), evaluation and reporting scripts, Streamlit layout
and view models (rendering of immutable snapshots).

Inside the modelled components:

* *Coaching*: `clear()`, `apply_coaching_suggestion`, `can_trigger_coaching` and the
  counters of `apply_audio_chunk`, which the pipeline does not use or only reports;
  the path of a routed customer text (its guards are in `DiarizationCall`). The two
  views of a text get scores independently, although a text without sentences before
  it is its own context.
* *Service controllers*: what a Docker client that timed out does later, SIGINT
  before the handlers are installed, and what the comparison of protected containers
  compares besides their set.
* *Vector store*: one scope; profiles of different dimension; `in_memory.py`; a
  KeyboardInterrupt inside a transaction. A search reads profile and rows in two
  statements: the ledger lets it answer from either side of a change between them,
  and the clean-up's "nothing found" is true of its statement only.
* *Diarization*: one call; a diarizer that is exact but for its names and the faults;
  the provider of projections is external. A window composed again with exchanged
  names is refused as conflicting; the limit of the resolver's text and the report of
  the offline evaluation are left out; a projection without words counts as
  processed; phrases that mislead about a role are excluded from the conversations.
* *Dashboard*: all pages share one call id; changes of tenant or text are left out.
  Two pages can both make a microphone session for one resource: one attach raises
  and its page ends. A resource the microphone made has no RAG status, so a file's
  start on it fails (`KeyError`, caught). Pages that are abandoned keep their
  resources, as in the code.
* *Local microphone*: real time. Hazards recorded without a property carry the reason
  in `PROJECT.json`.
