------------------------- MODULE DashboardExecution --------------------------
(* The call runs behind the dashboard (live_dashboard/runtime_wiring.py,     *)
(* rag_runtime.py and the handlers of app.py that drive them).  The process   *)
(* holds one bounded registry of execution resources, one per call, which all *)
(* open pages share; each page remembers only the key of the resource it      *)
(* used.  A resource owns the thread that runs the call, the snapshots that   *)
(* thread publishes, the microphone session and the RAG manager.  The script  *)
(* of a page, the other pages and the worker threads interleave wherever no   *)
(* lock is held across two steps.                                             *)
EXTENDS Integers, Sequences, FiniteSets

CONSTANTS Pages,        \* open pages of one tenant, all showing the same call id
          Capacity,     \* _EXECUTION_RESOURCE_CAPACITY
          MaxUploads,   \* bound: files a page uploads
          MaxResources, \* bound: resources made
          MaxManagers,  \* bound: RAG managers started
          MaxRevision   \* bound: snapshots a run publishes before it ends

ASSUME CapacityAssumption == Capacity \in Nat \ {0}
ASSUME PageAssumption == "free" \notin Pages
ASSUME BoundAssumption == MaxUploads \in Nat

\* The call named on the page, and the call of the page's n-th upload.
Named == 0
Calls == Named .. MaxUploads
NoCall == -1
NoSnapshot == [status |-> "none", revision |-> 0, chunks |-> 0]
Ends == {"completed", "cancelled", "failed"}

VARIABLES resources,  \* every DashboardExecutionResource made, the oldest first
          registered, \* registry._resources: the resource of a call, 0 for none
          statuses,   \* controller._statuses: calls activated with a RAG status
          managers,   \* for each RAG manager started, the times it was closed
          controller, \* the page that holds the controller's lock, or "free"
          page        \* session state and running script of each page

vars == <<resources, registered, statuses, managers, controller, page>>

(***************************************************************************)
(* Resources.                                                              *)
(***************************************************************************)
NewResource(call, manager) ==
    [call |-> call, manager |-> manager, closed |-> FALSE, cancelled |-> FALSE,
     session |-> "none", run |-> "none", live |-> FALSE, revision |-> 0, chunks |-> 0,
     latest |-> NoSnapshot, terminal |-> NoSnapshot, seen |-> NoSnapshot]

\* start_worker, on an open resource that has no worker yet.
Started(res, live) ==
    [res EXCEPT !.run = "preparing", !.live = live, !.cancelled = FALSE,
                !.latest = [status |-> "running", revision |-> 0, chunks |-> 0]]

\* The task is running, and nothing of it has raised past its own handler.
Working(res) == res.run \in {"preparing", "processing", "counted"}

WorkerActive(res) == Working(res) \/ res.run = "recovering"

\* Mutant: a second start is not refused once the first run has ended.
CanStartAgain(res) == ~WorkerActive(res)

CanStart(res) == res.run = "none"

\* A snapshot is kept when nothing final was published and it is newer.
Accepts(res, snapshot) ==
    /\ res.terminal = NoSnapshot
    /\ res.latest # NoSnapshot
    /\ snapshot.revision > res.latest.revision
    /\ snapshot.chunks >= res.latest.chunks

Published(res, snapshot) ==
    IF ~Accepts(res, snapshot) THEN res
    ELSE [res EXCEPT !.latest = snapshot,
                     !.terminal = IF snapshot.status \in Ends THEN snapshot ELSE @]

Snapshot(status, revision, chunks) ==
    [status |-> status, revision |-> revision, chunks |-> chunks]

(***************************************************************************)
(* The worker thread of a resource.                                        *)
(***************************************************************************)
OnlyResource(r, res) ==
    /\ resources' = [resources EXCEPT ![r] = res]
    /\ UNCHANGED <<registered, statuses, managers, controller, page>>

\* What the task asks for between two of its steps: a microphone's session must
\* be open, a file's run must not be cancelled; otherwise the call raises.  The
\* answer may be out of date when the step is taken: as nothing else reads what
\* the step writes, it is the same as if the step had come first.
Unhindered(res) == IF res.live THEN res.session = "open" ELSE ~res.cancelled

\* The task has built its pipeline and hands it to the resource it runs in.
AttachPipeline(r) ==
    /\ resources[r].run = "preparing"
    /\ ~resources[r].closed
    /\ Unhindered(resources[r])
    /\ OnlyResource(r, [resources[r] EXCEPT !.run = "processing"])

\* A running snapshot is published under the task's own count.
Progressed(res) ==
    LET next == [res EXCEPT !.revision = @ + 1]
    IN  Published(next, Snapshot("running", next.revision, next.chunks))

PublishStage(r) ==
    /\ resources[r].run \in {"preparing", "processing"}
    /\ resources[r].revision < MaxRevision
    /\ resources[r].live => resources[r].session = "open"
    /\ OnlyResource(r, Progressed(resources[r]))

\* A chunk is through the recogniser: it is applied to the call and counted ...
CountChunk(r) ==
    /\ resources[r].run = "processing"
    /\ resources[r].revision < MaxRevision
    /\ resources[r].live => ~resources[r].cancelled
    /\ OnlyResource(r, [resources[r] EXCEPT !.run = "counted", !.chunks = @ + 1])

\* ... and shown, once the microphone's session has taken note of it or the
\* file's run has looked at its flag.
ShowChunk(r) ==
    /\ resources[r].run = "counted"
    /\ Unhindered(resources[r])
    /\ OnlyResource(r, [Progressed(resources[r]) EXCEPT !.run = "processing"])

Ended(res, status, revision) ==
    Published([res EXCEPT !.run = "ended"], Snapshot(status, revision, res.chunks))

\* The audio of a file is through; its last drain asks for an open resource.
FileCompletes(r) ==
    /\ resources[r].run = "processing" /\ ~resources[r].live
    /\ ~resources[r].closed
    /\ OnlyResource(r, Ended(resources[r], "completed", resources[r].revision + 1))

\* The microphone was stopped: the session takes note of the last text, and is
\* asked how the capture ended, which may be after someone has closed it.
MicrophoneCompletes(r) ==
    /\ resources[r].run = "processing" /\ resources[r].live
    /\ resources[r].session = "open"
    /\ \E status \in IF resources[r].cancelled THEN {"cancelled"} ELSE Ends :
          OnlyResource(r, Ended(resources[r], status, resources[r].revision + 1))

EndOf(res) == IF res.cancelled THEN "cancelled" ELSE "failed"

\* The task's own handler turns an exception, at any step, into a last snapshot.
FileFails(r) ==
    /\ Working(resources[r]) /\ ~resources[r].live
    /\ OnlyResource(r, Ended(resources[r], EndOf(resources[r]), resources[r].latest.revision + 1))

\* Unless it was cancelled, a microphone's handler records the failure in the
\* session, which raises when that is closed; it closes the session itself.
MicrophoneFails(r) ==
    /\ Working(resources[r]) /\ resources[r].live
    /\ resources[r].cancelled \/ resources[r].session = "open"
    /\ OnlyResource(r, [Ended(resources[r], EndOf(resources[r]), resources[r].revision + 1)
                           EXCEPT !.session = "closed"])

\* The handler, or the release of the engine after it, raised as well:
\* _run_worker reads the latest snapshot ...
TaskRaises(r) ==
    /\ Working(resources[r])
    /\ \E session \in {resources[r].session} \cup IF resources[r].live THEN {"closed"} ELSE {} :
          OnlyResource(r, [resources[r] EXCEPT !.run = "recovering", !.session = session,
                                               !.seen = resources[r].latest])

\* Mutant: the successor keeps the revision of the snapshot it replaces.
ReplacedInPlace(res) == [res.seen EXCEPT !.status = EndOf(res)]

Replaced(res) == [res.seen EXCEPT !.status = EndOf(res), !.revision = @ + 1]

\* ... and publishes its successor once the lock is free again.
WorkerRecovers(r) ==
    /\ resources[r].run = "recovering"
    /\ OnlyResource(r, Published([resources[r] EXCEPT !.run = "recovered", !.seen = NoSnapshot],
                                 Replaced(resources[r])))

\* An overload, or a capture that cannot be finished, closes the session while
\* the worker has a chunk of it in hand.
SessionCloses(r) ==
    /\ resources[r].run \in {"processing", "counted"}
    /\ resources[r].session = "open"
    /\ OnlyResource(r, [resources[r] EXCEPT !.session = "closed"])

Worker(r) ==
    \/ AttachPipeline(r) \/ PublishStage(r) \/ CountChunk(r) \/ ShowChunk(r)
    \/ FileCompletes(r) \/ MicrophoneCompletes(r) \/ FileFails(r) \/ MicrophoneFails(r)
    \/ TaskRaises(r) \/ WorkerRecovers(r)

(***************************************************************************)
(* What a page shows.                                                      *)
(***************************************************************************)
CallOf(p) == IF page[p].mode = "upload" THEN page[p].showing ELSE Named

Found(call) == registered[call] # 0
OpenResource(call) == Found(call) /\ ~resources[registered[call]].closed

\* The script reads the retained resource before it offers any control: a key
\* of another call, or of a resource that is gone or closed, ends the script.
Retained(p) == page[p].key # NoCall => page[p].key = CallOf(p) /\ OpenResource(CallOf(p))

Running(p) ==
    /\ page[p].key # NoCall
    /\ resources[registered[page[p].key]].latest.status = "running"

HasSource(p) == page[p].mode = "path" \/ (page[p].mode = "upload" /\ page[p].showing # Named)

\* local.start_enabled: the call on the page has no execution yet.
Idle(p) == page[p].pc = "idle" /\ CallOf(p) \in page[p].fresh

OffersStart(p) == HasSource(p) /\ Idle(p) /\ Retained(p) /\ ~Running(p)

OnlyPage(p, state) ==
    /\ page' = [page EXCEPT ![p] = state]
    /\ UNCHANGED <<resources, registered, statuses, managers, controller>>

At(p, pc) == [page[p] EXCEPT !.pc = pc]

\* The script is over; what its handler held is gone.
Rest(state) ==
    [state EXCEPT !.pc = "idle", !.resource = 0, !.target = NoCall, !.made = 0, !.resets = FALSE]

\* The handler has tried, with or without success: its call is no longer fresh
\* on this page.
NoLongerFresh(p) == Rest([page[p] EXCEPT !.fresh = @ \ {CallOf(p)}])

\* What a reset forgets: the chosen file, or the execution of the call named.
Reset(state) ==
    IF state.mode = "upload" THEN [state EXCEPT !.showing = Named]
    ELSE [state EXCEPT !.fresh = @ \cup {Named},
                       !.resetting = @ /\ state.mode # "microphone"]

\* _close_execution_resource has returned: what called it goes on to reset the
\* page, or, after a change of source, to forget a microphone's pending reset.
Closed(state) ==
    Rest(IF state.resets THEN Reset(state) ELSE [state EXCEPT !.resetting = FALSE])

\* _close_execution_resource forgets the key and then closes what it named.
Closing(state) ==
    IF state.key = NoCall THEN Closed(state)
    ELSE [state EXCEPT !.pc = "closing", !.target = state.key, !.key = NoCall]

\* Bound: a handler starts only if it can make the resource it may need.
Room == Len(resources) + Cardinality({p \in Pages : page[p].pc \in {"activating", "acquiring", "creating"}})
            < MaxResources

(***************************************************************************)
(* Files: upload, start, stop, reset, and a change of source.              *)
(***************************************************************************)
UploadFile(p) ==
    /\ page[p].pc = "idle" /\ page[p].mode = "upload"
    /\ page[p].uploads < MaxUploads
    /\ OnlyPage(p, [page[p] EXCEPT !.uploads = @ + 1, !.showing = page[p].uploads + 1])

ChangeSource(p) ==
    /\ page[p].pc = "idle"
    /\ \E mode \in {"upload", "path", "microphone"} \ {page[p].mode} :
          OnlyPage(p, Closing([page[p] EXCEPT !.mode = mode]))

PressStart(p) ==
    /\ OffersStart(p)
    /\ Room
    /\ OnlyPage(p, At(p, "activating"))

\* controller.activate: a call found is shared, with the status it was given.
Activate(p) ==
    /\ page[p].pc = "activating"
    /\ controller = "free"
    /\ Found(CallOf(p))
    /\ OnlyPage(p, IF OpenResource(CallOf(p)) /\ CallOf(p) \in statuses
                   THEN [page[p] EXCEPT !.pc = "starting", !.key = CallOf(p),
                                        !.resource = registered[CallOf(p)]]
                   ELSE NoLongerFresh(p))

\* Otherwise a manager is started, or RAG is off or unavailable, with the
\* controller's lock held but not the registry's.
ActivateIntegration(p) ==
    /\ page[p].pc = "activating"
    /\ controller = "free"
    /\ ~Found(CallOf(p))
    /\ controller' = p
    /\ \/ /\ Len(managers) < MaxManagers
          /\ managers' = Append(managers, 0)
          /\ page' = [page EXCEPT ![p] = [@ EXCEPT !.pc = "acquiring", !.made = Len(managers) + 1]]
       \/ /\ page' = [page EXCEPT ![p] = [@ EXCEPT !.pc = "acquiring", !.made = 0]]
          /\ UNCHANGED managers
    /\ UNCHANGED <<resources, registered, statuses>>

\* registry.acquire for a call and the integration made for it.
Acquirable(call, manager) ==
    IF Found(call)
    THEN OpenResource(call) /\ resources[registered[call]].manager = manager
    ELSE Cardinality({c \in Calls : Found(c)}) < Capacity

Acquire(call, manager) ==
    IF Found(call) THEN UNCHANGED <<resources, registered>>
    ELSE /\ resources' = Append(resources, NewResource(call, manager))
         /\ registered' = [registered EXCEPT ![call] = Len(resources) + 1]

\* Mutant: a failed acquire leaves the manager that was started for it alone.
DiscardedNever(manager) == managers

\* Anything raised by acquire closes the manager that was just started.
Discarded(manager) ==
    [m \in DOMAIN managers |-> IF m = manager THEN managers[m] + 1 ELSE managers[m]]

ActivateAcquire(p) ==
    /\ page[p].pc = "acquiring"
    /\ controller' = "free"
    /\ \/ /\ Acquirable(CallOf(p), page[p].made)
          /\ Acquire(CallOf(p), page[p].made)
          /\ statuses' = statuses \cup {CallOf(p)}
          /\ page' = [page EXCEPT ![p] = [@ EXCEPT !.pc = "starting", !.key = CallOf(p), !.made = 0,
                                                   !.resource = registered'[CallOf(p)]]]
          /\ UNCHANGED managers
       \/ /\ ~Acquirable(CallOf(p), page[p].made)
          /\ managers' = Discarded(page[p].made)
          /\ page' = [page EXCEPT ![p] = NoLongerFresh(p)]
          /\ UNCHANGED <<resources, registered, statuses>>

\* start_worker on the resource the handler got: it may be closed by now, or
\* run for another page.
StartWorker(p) ==
    LET r == page[p].resource IN
    /\ page[p].pc = "starting"
    /\ page' = [page EXCEPT ![p] = IF resources[r].closed \/ CanStart(resources[r])
                                   THEN NoLongerFresh(p) ELSE Rest(page[p])]
    /\ resources' = IF ~resources[r].closed /\ CanStart(resources[r])
                    THEN [resources EXCEPT ![r] = Started(@, page[p].mode = "microphone")]
                    ELSE resources
    /\ UNCHANGED <<registered, statuses, managers, controller>>

\* Stop sets the flag the task looks at between two chunks.
PressStop(p) ==
    /\ page[p].pc = "idle" /\ page[p].mode # "microphone"
    /\ page[p].key # NoCall /\ Retained(p)
    /\ resources' = [resources EXCEPT ![registered[page[p].key]].cancelled = TRUE]
    /\ UNCHANGED <<registered, statuses, managers, controller, page>>

PressReset(p) ==
    /\ page[p].pc = "idle" /\ page[p].mode # "microphone"
    /\ Retained(p)
    /\ OnlyPage(p, Closing([page[p] EXCEPT !.resets = TRUE]))

(***************************************************************************)
(* Microphone: the fragment that runs twice a second.                      *)
(***************************************************************************)
\* registry.find; a closed resource still registered ends the fragment.
MicrophoneFind(p) ==
    /\ page[p].pc = "idle" /\ page[p].mode = "microphone" /\ ~page[p].resetting
    /\ Found(Named) => OpenResource(Named)
    /\ Found(Named) \/ Room
    /\ OnlyPage(p, IF Found(Named)
                   THEN [page[p] EXCEPT !.pc = "attaching", !.key = Named,
                                        !.resource = registered[Named]]
                   ELSE At(p, "creating"))

\* registry.acquire without integration, and without the controller's lock.
MicrophoneAcquire(p) ==
    /\ page[p].pc = "creating"
    /\ \/ /\ Acquirable(Named, 0)
          /\ Acquire(Named, 0)
          /\ page' = [page EXCEPT ![p] = [@ EXCEPT !.pc = "attaching", !.key = Named,
                                                   !.resource = registered'[Named]]]
       \/ /\ ~Acquirable(Named, 0)
          /\ page' = [page EXCEPT ![p] = Rest(page[p])]
          /\ UNCHANGED <<resources, registered>>
    /\ UNCHANGED <<statuses, managers, controller>>

Offered(p) ==
    At(p, IF resources[page[p].resource].latest = NoSnapshot THEN "starting" ELSE "shown")

\* A session found is used, open or not; else a new one is made ...
FindMicrophone(p) ==
    /\ page[p].pc = "attaching"
    /\ OnlyPage(p, IF resources[page[p].resource].session # "none" THEN Offered(p)
                   ELSE At(p, "binding"))

\* ... and attached, unless the resource is closed or has one by now.
AttachMicrophone(p) ==
    LET res == resources[page[p].resource]
        attachable == ~res.closed /\ res.session = "none" IN
    /\ page[p].pc = "binding"
    /\ resources' = [resources EXCEPT ![page[p].resource].session =
                         IF attachable THEN "open" ELSE @]
    /\ page' = [page EXCEPT ![p] = IF attachable THEN Offered(p) ELSE Rest(page[p])]
    /\ UNCHANGED <<registered, statuses, managers, controller>>

\* The session is closed and the run cancelled; the resource goes later.
MicrophoneReset(p) ==
    /\ page[p].pc = "shown"
    /\ resources' = [resources EXCEPT ![page[p].resource].session = "closed",
                                      ![page[p].resource].cancelled = TRUE]
    /\ page' = [page EXCEPT ![p] = Rest([page[p] EXCEPT !.resetting = TRUE])]
    /\ UNCHANGED <<registered, statuses, managers, controller>>

MicrophoneShown(p) ==
    /\ page[p].pc = "shown"
    /\ OnlyPage(p, Rest(page[p]))

\* Once the worker is gone the page closes the resource and forgets its state.
MicrophoneResetEnds(p) ==
    /\ page[p].pc = "idle" /\ page[p].mode = "microphone" /\ page[p].resetting
    /\ Retained(p)
    /\ page[p].key # NoCall => ~WorkerActive(resources[registered[page[p].key]])
    /\ OnlyPage(p, Closing([page[p] EXCEPT !.resets = TRUE]))

(***************************************************************************)
(* close_and_remove, under the controller's lock from end to end.          *)
(***************************************************************************)
CloseBegins(p) ==
    /\ page[p].pc = "closing"
    /\ controller = "free"
    /\ Found(page[p].target)
    /\ controller' = p
    /\ resources' = [resources EXCEPT ![registered[page[p].target]].cancelled = TRUE]
    /\ page' = [page EXCEPT ![p] = [At(p, "joining") EXCEPT !.resource = registered[page[p].target]]]
    /\ UNCHANGED <<registered, statuses, managers>>

\* Another page has removed the resource: the close raises, and what was to
\* follow it is left out.
CloseMissing(p) ==
    /\ page[p].pc = "closing"
    /\ controller = "free"
    /\ ~Found(page[p].target)
    /\ OnlyPage(p, Rest(page[p]))

\* join_worker waits for the worker it read, if there was one.
CloseJoins(p) ==
    /\ page[p].pc = "joining"
    /\ ~WorkerActive(resources[page[p].resource])
    /\ OnlyPage(p, At(p, "marking"))

CloseMarks(p) ==
    /\ page[p].pc = "marking"
    /\ resources' = [resources EXCEPT ![page[p].resource].closed = TRUE,
                                      ![page[p].resource].manager = 0]
    /\ page' = [page EXCEPT ![p] = [At(p, "releasing") EXCEPT
                                       !.made = resources[page[p].resource].manager]]
    /\ UNCHANGED <<registered, statuses, managers, controller>>

\* The manager and the session are closed outside the resource's lock, and the
\* resource leaves the registry.
CloseReleases(p) ==
    LET r == page[p].resource IN
    /\ page[p].pc = "releasing"
    /\ managers' = Discarded(page[p].made)
    /\ resources' = [resources EXCEPT ![r].session = IF @ = "open" THEN "closed" ELSE @]
    /\ registered' = [registered EXCEPT ![page[p].target] = 0]
    /\ statuses' = statuses \ {page[p].target}
    /\ controller' = "free"
    /\ page' = [page EXCEPT ![p] = Closed(page[p])]

(***************************************************************************)
(* The specification.                                                      *)
(***************************************************************************)
NewPage == [mode |-> "upload", uploads |-> 0, showing |-> Named, key |-> NoCall,
            fresh |-> Calls, resetting |-> FALSE, pc |-> "idle", resource |-> 0,
            target |-> NoCall, made |-> 0, resets |-> FALSE]

Init ==
    /\ resources = <<>>
    /\ registered = [c \in Calls |-> 0]
    /\ statuses = {}
    /\ managers = <<>>
    /\ controller = "free"
    /\ page = [p \in Pages |-> NewPage]

Files(p) ==
    \/ UploadFile(p) \/ ChangeSource(p) \/ PressStart(p) \/ Activate(p)
    \/ ActivateIntegration(p) \/ ActivateAcquire(p) \/ StartWorker(p)
    \/ PressStop(p) \/ PressReset(p)

Microphone(p) ==
    \/ MicrophoneFind(p) \/ MicrophoneAcquire(p) \/ FindMicrophone(p) \/ AttachMicrophone(p)
    \/ MicrophoneReset(p) \/ MicrophoneShown(p) \/ MicrophoneResetEnds(p)

Close(p) ==
    \/ CloseBegins(p) \/ CloseMissing(p) \/ CloseJoins(p) \/ CloseMarks(p) \/ CloseReleases(p)

Next ==
    \/ \E r \in DOMAIN resources : Worker(r) \/ SessionCloses(r)
    \/ \E p \in Pages : Files(p) \/ Microphone(p) \/ Close(p)

Spec == Init /\ [][Next]_vars

(***************************************************************************)
(* Properties.                                                             *)
(***************************************************************************)
\* However a run ends - completed, cancelled at any step, failed, or with its
\* own handler raising - the page that polls it gets a final snapshot.  It covers
\* every chunk the run applied to the call, but for one: when the handler raised
\* too, the chunk counted and not yet shown (app.py:1060-1096, 1185).
RunsEndInASnapshot ==
    \A r \in DOMAIN resources : LET res == resources[r] IN
        res.run \in {"ended", "recovered"} =>
            /\ res.terminal.status \in Ends /\ res.latest = res.terminal
            /\ \/ res.terminal.chunks = res.chunks
               \/ res.run = "recovered" /\ res.terminal.chunks = res.chunks - 1

\* What a page polls never goes back, and nothing follows a final snapshot:
\* no start, of whatever page, replaces the snapshots of a run that was begun.
SnapshotsOnlyAdvance ==
    [][\A r \in DOMAIN resources : LET before == resources[r].latest IN
           before # NoSnapshot /\ resources'[r].latest # before =>
               /\ before.status \notin Ends
               /\ resources'[r].latest.revision > before.revision
               /\ resources'[r].latest.chunks >= before.chunks]_vars

\* A RAG manager that was started is closed once: it is held by a script
\* that is about to hand it over or close it, or by an open resource the
\* registry can still find, and when neither holds it it has been closed.
ManagersAreReleased ==
    \A m \in DOMAIN managers :
        LET holders == {p \in Pages : page[p].made = m}
            owners == {r \in DOMAIN resources : resources[r].manager = m} IN
        /\ managers[m] + Cardinality(holders) + Cardinality(owners) = 1
        /\ \A r \in owners : registered[resources[r].call] = r

\* A page on which a fresh file was chosen offers Start, or shows the run that
\* another page began on the same call (PROJECT_PROGRESS.md, section 47: a fresh
\* run after a change of file has Start enabled).
FreshFileCanStart ==
    \A p \in Pages : page[p].mode = "upload" /\ HasSource(p) /\ Idle(p) =>
        OffersStart(p) \/ (Retained(p) /\ Running(p))
=============================================================================
