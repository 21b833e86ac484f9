----------------------- MODULE DashboardExecutionProofs -----------------------
(***************************************************************************)
(* Proofs about DashboardExecution: every run ends in a final snapshot     *)
(* that covers its audio, but for at most one chunk when its own handler   *)
(* raised, what a page polls never goes back, and every RAG manager that   *)
(* was started is closed once.                                             *)
(***************************************************************************)
EXTENDS DashboardExecution, FiniteSetTheorems, TLAPS

-----------------------------------------------------------------------------
(* The inductive invariant *)

Snapshots == [status : {"none", "running"} \cup Ends, revision : Nat, chunks : Nat]

Resource == [call : Calls, manager : Nat, closed : BOOLEAN, cancelled : BOOLEAN,
             session : {"none", "open", "closed"},
             run : {"none", "preparing", "processing", "counted", "recovering",
                    "ended", "recovered"},
             live : BOOLEAN, revision : Nat, chunks : Nat,
             latest : Snapshots, terminal : Snapshots, seen : Snapshots]

\* The steps of a close and of an activation that hold the controller's lock.
CloseSteps == {"joining", "marking", "releasing"}
LockSteps == CloseSteps \cup {"acquiring"}

\* The steps of a script that work on a resource it has found.
ResourceSteps == CloseSteps \cup {"starting", "attaching", "binding", "shown"}

PageSteps == ResourceSteps \cup LockSteps
                \cup {"idle", "activating", "creating", "closing"}

PageState == [mode : {"upload", "path", "microphone"}, uploads : 0..MaxUploads,
              showing : Calls, key : Calls \cup {NoCall}, fresh : SUBSET Calls,
              resetting : BOOLEAN, pc : PageSteps, resource : Nat,
              target : Calls \cup {NoCall}, made : Nat, resets : BOOLEAN]

\* The latest snapshot covers every chunk, but perhaps the one counted last.
Behind(res) == res.chunks \in {res.latest.chunks, res.latest.chunks + 1}

\* The snapshots of a resource follow its run: one that goes on has published
\* nothing final and everything it counted, but the chunk it is about to show;
\* so whatever ends it publishes a snapshot that is kept.
Run(res) ==
    /\ res.run = "none" => /\ res.latest = NoSnapshot /\ res.terminal = NoSnapshot
                           /\ res.revision = 0 /\ res.chunks = 0
    /\ WorkerActive(res) =>
          /\ res.terminal = NoSnapshot
          /\ res.latest.status = "running" /\ res.latest.revision = res.revision
          /\ Behind(res)
    /\ res.run \in {"preparing", "processing"} => res.chunks = res.latest.chunks
    /\ res.run = "recovering" => res.seen = res.latest
    /\ res.run \in {"ended", "recovered"} =>
          /\ res.terminal = res.latest /\ res.latest.status \in Ends
          /\ Behind(res)
    /\ res.run = "ended" => res.chunks = res.latest.chunks

Types == /\ resources \in Seq(Resource)
         /\ registered \in [Calls -> Nat]
         /\ managers \in Seq(Nat)
         /\ page \in [Pages -> PageState]

Runs == \A r \in DOMAIN resources : Run(resources[r])

\* The registry knows resources by their own call, and a resource with a
\* manager is known to it.
Registry ==
    /\ \A c \in Calls : registered[c] # 0 =>
          registered[c] \in DOMAIN resources /\ resources[registered[c]].call = c
    /\ \A r \in DOMAIN resources :
          /\ resources[r].manager \in 0 .. Len(managers)
          /\ resources[r].manager # 0 => registered[resources[r].call] = r

\* A script at one of the lock's steps holds it; a manager is in its hands
\* between starting and handing over, and between taking and closing.  What a
\* close works on stays registered until it is through, and has no manager once
\* that was taken from it.
Script(p) ==
    /\ page[p].pc \in LockSteps => controller = p
    /\ page[p].made \in 0 .. Len(managers)
    /\ page[p].pc \notin {"acquiring", "releasing"} => page[p].made = 0
    /\ page[p].pc \in ResourceSteps => page[p].resource \in DOMAIN resources
    /\ page[p].pc \in CloseSteps \cup {"closing"} => page[p].target \in Calls
    /\ page[p].pc \in CloseSteps => registered[page[p].target] = page[p].resource
    /\ page[p].pc = "releasing" => resources[page[p].resource].manager = 0

Scripts == \A p \in Pages : Script(p)

\* A manager is in exactly one place.
Holders(m) == {p \in Pages : page[p].made = m}
Owners(m) == {r \in DOMAIN resources : resources[r].manager = m}

Placed(m) ==
    \/ managers[m] = 1 /\ Holders(m) = {} /\ Owners(m) = {}
    \/ managers[m] = 0 /\ (\E p \in Pages : Holders(m) = {p}) /\ Owners(m) = {}
    \/ managers[m] = 0 /\ Holders(m) = {} /\ \E r \in DOMAIN resources : Owners(m) = {r}

Places == \A m \in DOMAIN managers : Placed(m)

IInv == Types /\ Runs /\ Registry /\ Scripts /\ Places

-----------------------------------------------------------------------------
(* One resource *)

LEMMA Constants ==
    /\ MaxUploads \in Nat /\ Named \in Calls /\ NoCall \notin Calls
    /\ "free" \notin Pages
    /\ NoSnapshot \in Snapshots
  BY BoundAssumption, PageAssumption DEF Named, Calls, NoCall, NoSnapshot, Snapshots

\* What a page polls never goes back.
Advance(a, b) == a # NoSnapshot /\ b # a =>
                    /\ a.status \notin Ends
                    /\ b.revision > a.revision
                    /\ b.chunks >= a.chunks

\* What a step may make of a resource.
Successor(a, b) == /\ b \in Resource /\ Run(b)
                   /\ b.call = a.call
                   /\ Advance(a.latest, b.latest)

LEMMA SnapshotFields ==
    ASSUME NEW status \in {"none", "running"} \cup Ends, NEW revision \in Nat,
           NEW chunks \in Nat
    PROVE  LET s == Snapshot(status, revision, chunks)
           IN  /\ s \in Snapshots /\ s.status = status
               /\ s.revision = revision /\ s.chunks = chunks
  BY DEF Snapshot, Snapshots

\* Publishing over the snapshot of a run that has published nothing final.
LEMMA PublishedFields ==
    ASSUME NEW res \in Resource, NEW s \in Snapshots,
           res.terminal = NoSnapshot, res.latest.status = "running",
           s.revision > res.latest.revision, s.chunks >= res.latest.chunks
    PROVE  LET e == Published(res, s)
           IN  /\ e \in Resource
               /\ e.latest = s
               /\ e.terminal = IF s.status \in Ends THEN s ELSE NoSnapshot
               /\ e.run = res.run /\ e.call = res.call /\ e.manager = res.manager
               /\ e.revision = res.revision /\ e.chunks = res.chunks
               /\ e.seen = res.seen
  <1> DEFINE terminal == IF s.status \in Ends THEN s ELSE res.terminal
             e == [res EXCEPT !.latest = s, !.terminal = terminal]
  <1>1. Accepts(res, s)
    BY DEF Accepts, NoSnapshot
  <1>2. Published(res, s) = e
    BY <1>1 DEF Published
  <1>3. terminal \in Snapshots
    BY DEF Resource
  <1>4. terminal = IF s.status \in Ends THEN s ELSE NoSnapshot
    OBVIOUS
  <1> HIDE DEF terminal
  <1>5. e \in Resource /\ e.latest = s /\ e.terminal = terminal
        /\ e.run = res.run /\ e.call = res.call /\ e.manager = res.manager
        /\ e.revision = res.revision /\ e.chunks = res.chunks
        /\ e.seen = res.seen
    BY <1>3 DEF Resource
  <1>. QED  BY <1>2, <1>4, <1>5

\* A resource that changed elsewhere only is a successor of itself.
SameRun(a, b) ==
    /\ b.call = a.call /\ b.run = a.run /\ b.revision = a.revision
    /\ b.chunks = a.chunks /\ b.latest = a.latest /\ b.terminal = a.terminal
    /\ b.seen = a.seen

LEMMA SameRunSucceeds ==
    ASSUME NEW a \in Resource, Run(a), NEW b \in Resource, SameRun(a, b)
    PROVE  Successor(a, b)
  BY DEF SameRun, Successor, Run, Behind, Advance, WorkerActive, Working

\* A run that goes on has published something.
LEMMA ActiveFields ==
    ASSUME NEW res \in Resource, Run(res), WorkerActive(res)
    PROVE  /\ res.terminal = NoSnapshot
           /\ res.latest \in Snapshots /\ res.latest.status = "running"
           /\ res.latest.revision = res.revision /\ res.latest.revision \in Nat
           /\ res.latest.chunks \in Nat
           /\ res.chunks >= res.latest.chunks
           /\ res.revision \in Nat /\ res.chunks \in Nat
           /\ res.latest # NoSnapshot /\ "running" \notin Ends
  BY DEF Run, Behind, Snapshots, Resource, NoSnapshot, Ends

LEMMA NewIsNew ==
    ASSUME NEW call \in Calls, NEW manager \in Nat
    PROVE  LET e == NewResource(call, manager)
           IN  e \in Resource /\ Run(e) /\ e.call = call /\ e.manager = manager
  BY Constants DEF NewResource, Resource, Run, WorkerActive, Working

\* start_worker
LEMMA StartedSucceeds ==
    ASSUME NEW res \in Resource, Run(res), CanStart(res), NEW live \in BOOLEAN
    PROVE  Successor(res, Started(res, live)) /\ Started(res, live).manager = res.manager
  <1> DEFINE s == [status |-> "running", revision |-> 0, chunks |-> 0]
             e == [res EXCEPT !.run = "preparing", !.live = live,
                              !.cancelled = FALSE, !.latest = s]
  <1>1. Started(res, live) = e
    BY DEF Started
  <1>2. /\ s \in Snapshots /\ s.status = "running"
        /\ s.revision = 0 /\ s.chunks = 0
    BY DEF Snapshots
  <1>3. /\ res.latest = NoSnapshot /\ res.terminal = NoSnapshot
        /\ res.revision = 0 /\ res.chunks = 0
    BY DEF CanStart, Run
  <1> HIDE DEF s
  <1>4. /\ e \in Resource /\ e.call = res.call /\ e.run = "preparing"
        /\ e.revision = res.revision /\ e.chunks = res.chunks
        /\ e.terminal = res.terminal /\ e.latest = s /\ e.manager = res.manager
    BY <1>2 DEF Resource
  <1> HIDE DEF e
  <1>5. Run(e)
    BY <1>2, <1>3, <1>4 DEF Run, Behind, WorkerActive, Working
  <1>. QED  BY <1>1, <1>3, <1>4, <1>5 DEF Successor, Advance

-----------------------------------------------------------------------------
(* The worker's steps on its resource *)

LEMMA AttachSucceeds ==
    ASSUME NEW res \in Resource, Run(res), res.run = "preparing"
    PROVE  LET e == [res EXCEPT !.run = "processing"]
           IN  Successor(res, e) /\ e.manager = res.manager
  <1> DEFINE e == [res EXCEPT !.run = "processing"]
  <1>1. /\ e \in Resource /\ e.call = res.call /\ e.run = "processing"
        /\ e.revision = res.revision /\ e.chunks = res.chunks
        /\ e.terminal = res.terminal /\ e.latest = res.latest
        /\ e.manager = res.manager
    BY DEF Resource
  <1> HIDE DEF e
  <1>2. Run(e)
    BY <1>1 DEF Run, Behind, WorkerActive, Working
  <1>. QED  BY <1>1, <1>2 DEF Successor, Advance, e

\* A running snapshot under the task's count is kept.
LEMMA ProgressedFields ==
    ASSUME NEW res \in Resource, Run(res), Working(res)
    PROVE  LET e == Progressed(res)
           IN  /\ e \in Resource
               /\ e.latest = Snapshot("running", res.revision + 1, res.chunks)
               /\ e.terminal = NoSnapshot /\ e.run = res.run /\ e.call = res.call
               /\ e.manager = res.manager /\ e.chunks = res.chunks
               /\ e.revision = res.revision + 1
               /\ Advance(res.latest, e.latest)
  <1> DEFINE revision == res.revision + 1
             d == [res EXCEPT !.revision = revision]
             s == Snapshot("running", d.revision, d.chunks)
             e == Published(d, s)
  <1>1. WorkerActive(res)
    BY DEF WorkerActive
  <1>2. /\ revision \in Nat /\ res.chunks \in Nat /\ res.terminal = NoSnapshot
        /\ revision > res.latest.revision /\ res.chunks >= res.latest.chunks
        /\ res.latest.status = "running" /\ "running" \notin Ends
    BY <1>1, ActiveFields
  <1> HIDE DEF revision
  <1>3. /\ d \in Resource /\ d.revision = revision /\ d.chunks = res.chunks
        /\ d.call = res.call /\ d.manager = res.manager /\ d.run = res.run
        /\ d.latest = res.latest /\ d.terminal = res.terminal /\ d.seen = res.seen
    BY <1>2 DEF Resource
  <1> HIDE DEF d
  <1>4. /\ s \in Snapshots /\ s.status = "running"
        /\ s.revision = revision /\ s.chunks = res.chunks
        /\ s = Snapshot("running", revision, res.chunks)
    BY <1>2, <1>3, SnapshotFields
  <1> HIDE DEF s
  <1>5. /\ e \in Resource /\ e.latest = s /\ e.terminal = NoSnapshot
        /\ e.run = res.run /\ e.call = res.call /\ e.manager = res.manager
        /\ e.revision = revision /\ e.chunks = res.chunks
    BY <1>2, <1>3, <1>4, PublishedFields
  <1> HIDE DEF e
  <1>6. Advance(res.latest, e.latest)
    BY <1>2, <1>4, <1>5 DEF Advance
  <1>7. Progressed(res) = e
    BY DEF Progressed, e, s, d, revision
  <1>. QED  BY <1>4, <1>5, <1>6, <1>7 DEF revision

LEMMA StageSucceeds ==
    ASSUME NEW res \in Resource, Run(res), res.run \in {"preparing", "processing"}
    PROVE  Successor(res, Progressed(res)) /\ Progressed(res).manager = res.manager
  <1> DEFINE e == Progressed(res)
             s == Snapshot("running", res.revision + 1, res.chunks)
  <1>1. Working(res) /\ res.revision + 1 \in Nat /\ res.chunks \in Nat
    BY DEF Working, Resource
  <1>2. /\ e \in Resource /\ e.latest = s /\ e.terminal = NoSnapshot
        /\ e.run = res.run /\ e.call = res.call /\ e.manager = res.manager
        /\ e.chunks = res.chunks /\ e.revision = res.revision + 1
        /\ Advance(res.latest, e.latest)
    BY <1>1, ProgressedFields
  <1>3. s.status = "running" /\ s.revision = res.revision + 1 /\ s.chunks = res.chunks
    BY <1>1, SnapshotFields
  <1> HIDE DEF e, s
  <1>4. Run(e)
    BY <1>1, <1>2, <1>3 DEF Run, Behind, WorkerActive, Working
  <1>. QED  BY <1>2, <1>4 DEF Successor, e

\* The chunk is counted, and no snapshot covers it yet.
LEMMA CountSucceeds ==
    ASSUME NEW res \in Resource, Run(res), res.run = "processing"
    PROVE  LET e == [res EXCEPT !.run = "counted", !.chunks = @ + 1]
           IN  Successor(res, e) /\ e.manager = res.manager
  <1> DEFINE chunks == res.chunks + 1
             e == [res EXCEPT !.run = "counted", !.chunks = chunks]
  <1>1. res.chunks \in Nat /\ chunks \in Nat
    BY DEF Resource
  <1> HIDE DEF chunks
  <1>2. /\ e \in Resource /\ e.call = res.call /\ e.run = "counted"
        /\ e.revision = res.revision /\ e.chunks = chunks
        /\ e.terminal = res.terminal /\ e.latest = res.latest
        /\ e.manager = res.manager
    BY <1>1 DEF Resource
  <1> HIDE DEF e
  <1>3. /\ res.terminal = NoSnapshot /\ res.latest.status = "running"
        /\ res.latest.revision = res.revision /\ res.chunks = res.latest.chunks
    BY DEF Run, WorkerActive, Working
  <1>4. Run(e)
    BY <1>1, <1>2, <1>3 DEF Run, Behind, WorkerActive, Working, chunks
  <1>. QED  BY <1>2, <1>4 DEF Successor, Advance, e, chunks

LEMMA ShowSucceeds ==
    ASSUME NEW res \in Resource, Run(res), res.run = "counted"
    PROVE  LET e == [Progressed(res) EXCEPT !.run = "processing"]
           IN  Successor(res, e) /\ e.manager = res.manager
  <1> DEFINE d == Progressed(res)
             e == [d EXCEPT !.run = "processing"]
             s == Snapshot("running", res.revision + 1, res.chunks)
  <1>1. Working(res) /\ res.revision + 1 \in Nat /\ res.chunks \in Nat
    BY DEF Working, Resource
  <1>2. /\ d \in Resource /\ d.latest = s /\ d.terminal = NoSnapshot
        /\ d.call = res.call /\ d.manager = res.manager
        /\ d.chunks = res.chunks /\ d.revision = res.revision + 1
        /\ Advance(res.latest, d.latest)
    BY <1>1, ProgressedFields
  <1>3. s.status = "running" /\ s.revision = res.revision + 1 /\ s.chunks = res.chunks
    BY <1>1, SnapshotFields
  <1> HIDE DEF d, s
  <1>4. /\ e \in Resource /\ e.run = "processing" /\ e.latest = s
        /\ e.terminal = NoSnapshot /\ e.call = res.call /\ e.manager = res.manager
        /\ e.chunks = res.chunks /\ e.revision = res.revision + 1
    BY <1>2 DEF Resource
  <1> HIDE DEF e
  <1>5. Run(e)
    BY <1>1, <1>3, <1>4 DEF Run, Behind, WorkerActive, Working
  <1>. QED  BY <1>2, <1>4, <1>5 DEF Successor, e, d

\* A run that goes on ends in whatever final snapshot follows its latest one
\* and covers its chunks; only a worker that recovers may miss the last one.
LEMMA EndSucceeds ==
    ASSUME NEW res \in Resource, Run(res), WorkerActive(res),
           NEW d \in Resource, d.run \in {"ended", "recovered"}, d.call = res.call,
           d.manager = res.manager, d.chunks = res.chunks,
           d.latest = res.latest, d.terminal = res.terminal,
           NEW status \in Ends, NEW revision \in Nat, NEW chunks \in Nat,
           revision > res.latest.revision, chunks >= res.latest.chunks,
           res.chunks \in {chunks, chunks + 1},
           d.run = "ended" => chunks = res.chunks
    PROVE  LET e == Published(d, Snapshot(status, revision, chunks))
           IN  Successor(res, e) /\ e.manager = res.manager
  <1> DEFINE s == Snapshot(status, revision, chunks)
             e == Published(d, s)
  <1>1. /\ res.terminal = NoSnapshot /\ res.latest.status = "running"
        /\ "running" \notin Ends
    BY ActiveFields
  <1>2. /\ s \in Snapshots /\ s.status = status
        /\ s.revision = revision /\ s.chunks = chunks
    <2>1. status \in {"none", "running"} \cup Ends
      OBVIOUS
    <2>. QED  BY <2>1, SnapshotFields
  <1> HIDE DEF s
  <1>3. /\ s.revision > d.latest.revision /\ s.chunks >= d.latest.chunks
        /\ d.terminal = NoSnapshot /\ d.latest.status = "running"
    BY <1>1, <1>2
  <1>4. /\ e \in Resource /\ e.latest = s /\ e.terminal = s
        /\ e.run = d.run /\ e.call = res.call /\ e.manager = res.manager
        /\ e.chunks = res.chunks
    BY <1>2, <1>3, PublishedFields
  <1> HIDE DEF e
  <1>5. Run(e)
    BY <1>2, <1>4 DEF Run, Behind, WorkerActive, Working
  <1>6. Advance(res.latest, e.latest)
    BY <1>1, <1>2, <1>3, <1>4 DEF Advance
  <1>. QED  BY <1>4, <1>5, <1>6 DEF Successor, s, e

\* The task returns its own last snapshot, or its handler does.
LEMMA EndedSucceeds ==
    ASSUME NEW res \in Resource, Run(res), Working(res), NEW status \in Ends,
           NEW revision \in {res.revision + 1, res.latest.revision + 1}
    PROVE  LET e == Ended(res, status, revision)
           IN  Successor(res, e) /\ e.manager = res.manager
  <1> DEFINE d == [res EXCEPT !.run = "ended"]
  <1>1. WorkerActive(res)
    BY DEF WorkerActive
  <1>2. /\ revision \in Nat /\ revision > res.latest.revision
        /\ res.chunks \in Nat /\ res.chunks >= res.latest.chunks
    BY <1>1, ActiveFields
  <1>3. /\ d \in Resource /\ d.chunks = res.chunks /\ d.run = "ended"
        /\ d.call = res.call /\ d.manager = res.manager
        /\ d.latest = res.latest /\ d.terminal = res.terminal
    BY DEF Resource
  <1>4. Ended(res, status, revision) = Published(d, Snapshot(status, revision, res.chunks))
    BY DEF Ended
  <1> HIDE DEF d
  <1>. QED  BY <1>1, <1>2, <1>3, <1>4, EndSucceeds

\* A change of flags and session alone, after another change.
LEMMA SessionSucceeds ==
    ASSUME NEW a \in Resource, NEW e, Successor(a, e), e.manager = a.manager,
           NEW session \in {"none", "open", "closed"}
    PROVE  LET b == [e EXCEPT !.session = session]
           IN  Successor(a, b) /\ b.manager = a.manager
  <1> DEFINE b == [e EXCEPT !.session = session]
  <1>1. e \in Resource /\ Run(e)
    BY DEF Successor
  <1>2. b \in Resource /\ SameRun(e, b) /\ b.manager = e.manager
    BY <1>1 DEF Resource, SameRun
  <1> HIDE DEF b
  <1>3. Run(b)
    BY <1>1, <1>2 DEF SameRun, Run, Behind, WorkerActive, Working
  <1>. QED  BY <1>2, <1>3 DEF Successor, SameRun, b

LEMMA RaiseSucceeds ==
    ASSUME NEW res \in Resource, Run(res), Working(res),
           NEW session \in {"none", "open", "closed"}
    PROVE  LET e == [res EXCEPT !.run = "recovering", !.session = session,
                                !.seen = res.latest]
           IN  Successor(res, e) /\ e.manager = res.manager
  <1> DEFINE e == [res EXCEPT !.run = "recovering", !.session = session,
                              !.seen = res.latest]
  <1>1. /\ e \in Resource /\ e.call = res.call /\ e.run = "recovering"
        /\ e.revision = res.revision /\ e.chunks = res.chunks
        /\ e.terminal = res.terminal /\ e.latest = res.latest
        /\ e.manager = res.manager /\ e.seen = res.latest
    BY DEF Resource
  <1> HIDE DEF e
  <1>2. Run(e)
    BY <1>1 DEF Run, Behind, WorkerActive
  <1>. QED  BY <1>1, <1>2 DEF Successor, Advance, e

LEMMA RecoverySucceeds ==
    ASSUME NEW res \in Resource, Run(res), res.run = "recovering"
    PROVE  LET d == [res EXCEPT !.run = "recovered", !.seen = NoSnapshot]
               e == Published(d, Replaced(res))
           IN  Successor(res, e) /\ e.manager = res.manager
  <1> DEFINE d == [res EXCEPT !.run = "recovered", !.seen = NoSnapshot]
             status == EndOf(res)
             latest == res.latest
             revision == latest.revision + 1
             chunks == latest.chunks
  <1>1. WorkerActive(res) /\ status \in Ends /\ res.seen = latest
        /\ res.chunks \in {chunks, chunks + 1}
    BY DEF WorkerActive, Ends, EndOf, Run, Behind
  <1>2. /\ latest \in Snapshots /\ chunks \in Nat /\ chunks >= res.latest.chunks
        /\ revision \in Nat /\ revision > res.latest.revision
    BY <1>1, ActiveFields
  <1>3. Replaced(res) = Snapshot(status, revision, chunks)
    <2>1. Replaced(res) = [latest EXCEPT !.status = status, !.revision = revision]
      BY <1>1 DEF Replaced
    <2> HIDE DEF latest, status
    <2>. QED  BY <1>2, <2>1 DEF Snapshot, Snapshots
  <1> HIDE DEF status, revision, chunks, latest
  <1>4. /\ d \in Resource /\ d.chunks = res.chunks
        /\ d.call = res.call /\ d.manager = res.manager /\ d.run = "recovered"
        /\ d.latest = res.latest /\ d.terminal = res.terminal
    BY Constants DEF Resource
  <1> HIDE DEF d
  <1>5. LET e == Published(d, Snapshot(status, revision, chunks))
        IN  Successor(res, e) /\ e.manager = res.manager
    BY <1>1, <1>2, <1>4, EndSucceeds
  <1>. QED  BY <1>3, <1>5 DEF d

-----------------------------------------------------------------------------
(* What a step may do to the resources *)

\* No resource goes away, and none is set back.
Grown ==
    /\ resources' \in Seq(Resource)
    /\ Len(resources) <= Len(resources')
    /\ \A r \in DOMAIN resources' : Run(resources'[r])
    /\ \A r \in DOMAIN resources :
          /\ resources'[r].call = resources[r].call
          /\ Advance(resources[r].latest, resources'[r].latest)

\* Neither is a manager handed on, nor a resource taken from the registry.
Calm ==
    /\ Grown
    /\ registered' \in [Calls -> Nat]
    /\ \A c \in Calls : registered[c] # 0 => registered'[c] = registered[c]
    /\ \A c \in Calls : registered'[c] # 0 =>
          registered'[c] \in DOMAIN resources' /\ resources'[registered'[c]].call = c
    /\ \A r \in DOMAIN resources : resources'[r].manager = resources[r].manager
    /\ \A r \in DOMAIN resources' : r \notin DOMAIN resources => resources'[r].manager = 0

LEMMA KeptGrows ==
    ASSUME Types, Runs, resources' = resources
    PROVE  Grown
  <1>1. Len(resources) \in Nat
    BY DEF Types
  <1>. QED  BY <1>1 DEF Types, Runs, Grown, Advance

LEMMA KeptIsCalm ==
    ASSUME IInv, resources' = resources, registered' = registered
    PROVE  Calm
  BY KeptGrows DEF IInv, Types, Registry, Calm

LEMMA ChangedGrows ==
    ASSUME Types, Runs, NEW r \in DOMAIN resources, NEW b,
           Successor(resources[r], b), resources' = [resources EXCEPT ![r] = b]
    PROVE  /\ Grown /\ DOMAIN resources' = DOMAIN resources
           /\ resources'[r] = b
           /\ \A i \in DOMAIN resources : i # r => resources'[i] = resources[i]
  <1>1. /\ Len(resources) \in Nat /\ resources \in Seq(Resource)
        /\ DOMAIN resources = 1 .. Len(resources) /\ b \in Resource
    BY DEF Types, Successor
  <1>2. /\ resources' \in Seq(Resource) /\ Len(resources') = Len(resources)
        /\ DOMAIN resources' = DOMAIN resources
        /\ resources'[r] = b
        /\ \A i \in DOMAIN resources : i # r => resources'[i] = resources[i]
    BY <1>1
  <1>3. Grown
    BY <1>1, <1>2 DEF Runs, Grown, Successor, Advance
  <1>. QED  BY <1>2, <1>3

LEMMA ChangedIsCalm ==
    ASSUME IInv, NEW r \in DOMAIN resources, NEW b,
           Successor(resources[r], b), b.manager = resources[r].manager,
           resources' = [resources EXCEPT ![r] = b], registered' = registered
    PROVE  Calm
  <1>1. /\ Grown /\ DOMAIN resources' = DOMAIN resources
        /\ resources'[r] = b
        /\ \A i \in DOMAIN resources : i # r => resources'[i] = resources[i]
    BY ChangedGrows DEF IInv
  <1>. QED  BY <1>1 DEF IInv, Types, Registry, Calm, Successor

\* registry.acquire adds a resource for a call it does not know.
LEMMA AddedGrows ==
    ASSUME Types, Runs, Registry, NEW c \in Calls, NEW m \in Nat, registered[c] = 0,
           resources' = Append(resources, NewResource(c, m)),
           registered' = [registered EXCEPT ![c] = Len(resources) + 1]
    PROVE  /\ Grown
           /\ registered' \in [Calls -> Nat]
           /\ \A d \in Calls : registered[d] # 0 => registered'[d] = registered[d]
           /\ \A d \in Calls : registered'[d] # 0 =>
                 registered'[d] \in DOMAIN resources' /\ resources'[registered'[d]].call = d
           /\ \A r \in DOMAIN resources : resources'[r] = resources[r]
           /\ DOMAIN resources' = DOMAIN resources \cup {Len(resources) + 1}
           /\ Len(resources) + 1 \notin DOMAIN resources
           /\ registered'[c] = Len(resources) + 1
           /\ resources'[Len(resources) + 1].manager = m
           /\ resources'[Len(resources) + 1].call = c
  <1> DEFINE e == NewResource(c, m)
             n == Len(resources) + 1
  <1>1. /\ Len(resources) \in Nat /\ resources \in Seq(Resource)
        /\ DOMAIN resources = 1 .. Len(resources)
    BY DEF Types
  <1>2. e \in Resource /\ Run(e) /\ e.call = c /\ e.manager = m
    BY NewIsNew
  <1> HIDE DEF e
  <1>3. /\ resources' \in Seq(Resource) /\ Len(resources') = n
        /\ DOMAIN resources' = 1 .. n /\ resources'[n] = e
        /\ \A r \in DOMAIN resources : resources'[r] = resources[r]
    BY <1>1, <1>2 DEF e
  <1>4. Grown
    BY <1>1, <1>2, <1>3 DEF Runs, Grown, Advance
  <1>5. /\ registered' \in [Calls -> Nat] /\ registered'[c] = n
        /\ \A d \in Calls : d # c => registered'[d] = registered[d]
    BY <1>1 DEF Types
  <1>6. ASSUME NEW d \in Calls, registered'[d] # 0
        PROVE  registered'[d] \in DOMAIN resources' /\ resources'[registered'[d]].call = d
    <2>1. CASE d = c
      BY <1>1, <1>2, <1>3, <1>5, <2>1
    <2>2. CASE d # c
      BY <1>1, <1>3, <1>5, <1>6, <2>2 DEF Registry
    <2>. QED  BY <2>1, <2>2
  <1>. QED  BY <1>1, <1>2, <1>3, <1>4, <1>5, <1>6

LEMMA AddedIsCalm ==
    ASSUME IInv, NEW c \in Calls, registered[c] = 0,
           resources' = Append(resources, NewResource(c, 0)),
           registered' = [registered EXCEPT ![c] = Len(resources) + 1]
    PROVE  Calm
  <1>1. /\ Grown
        /\ registered' \in [Calls -> Nat]
        /\ \A d \in Calls : registered[d] # 0 => registered'[d] = registered[d]
        /\ \A d \in Calls : registered'[d] # 0 =>
              registered'[d] \in DOMAIN resources' /\ resources'[registered'[d]].call = d
        /\ \A r \in DOMAIN resources : resources'[r] = resources[r]
        /\ DOMAIN resources' = DOMAIN resources \cup {Len(resources) + 1}
        /\ resources'[Len(resources) + 1].manager = 0
    <2>1. Types /\ Runs /\ Registry /\ 0 \in Nat
      BY DEF IInv
    <2>. QED  BY <2>1, AddedGrows
  <1>. QED  BY <1>1 DEF Calm

-----------------------------------------------------------------------------
(* What a step may do to the scripts *)

LEMMA PageMoves ==
    ASSUME Types, NEW p \in Pages, NEW s \in PageState, page' = [page EXCEPT ![p] = s]
    PROVE  /\ page' \in [Pages -> PageState] /\ page'[p] = s
           /\ \A q \in Pages : q # p => page'[q] = page[q]
  BY DEF Types

\* The scripts of the other pages go on as before: a step that takes something
\* from the registry is one of the page that holds the lock.
LEMMA OtherScripts ==
    ASSUME IInv, NEW p \in Pages,
           \A q \in Pages : q # p => page'[q] = page[q],
           managers' \in Seq(Nat), Len(managers) <= Len(managers'), Grown,
           \A r \in DOMAIN resources : resources[r].manager = 0 => resources'[r].manager = 0,
           controller' = controller \/ controller \in {"free", p},
           controller = p \/ \A c \in Calls : registered[c] # 0 => registered'[c] = registered[c]
    PROVE  \A q \in Pages : q # p => Script(q)'
  <1> SUFFICES ASSUME NEW q \in Pages, q # p
               PROVE  Script(q)'
    OBVIOUS
  <1>1. Script(q) /\ page'[q] = page[q]
    BY DEF IInv, Scripts
  <1>2. /\ Len(managers) \in Nat /\ Len(managers') \in Nat
        /\ Len(resources) \in Nat /\ Len(resources') \in Nat
        /\ DOMAIN resources = 1 .. Len(resources)
        /\ DOMAIN resources' = 1 .. Len(resources')
        /\ Len(resources) <= Len(resources')
    BY DEF IInv, Types, Grown
  <1>3. page[q].pc \in LockSteps => controller' = q /\ controller # p
    BY <1>1, Constants DEF Script
  <1>4. page[q].made \in 0 .. Len(managers')
    BY <1>1, <1>2 DEF Script
  <1>5. page[q].pc \in ResourceSteps =>
            page[q].resource \in DOMAIN resources /\ page[q].resource \in DOMAIN resources'
    BY <1>1, <1>2 DEF Script
  <1>6. page[q].pc \in CloseSteps => registered'[page[q].target] = page[q].resource
    <2>1. SUFFICES ASSUME page[q].pc \in CloseSteps
                   PROVE  registered'[page[q].target] = page[q].resource
      OBVIOUS
    <2>2. /\ page[q].target \in Calls /\ registered[page[q].target] = page[q].resource
          /\ page[q].resource \in DOMAIN resources /\ controller # p
      BY <1>1, <1>3, <1>5, <2>1 DEF Script, LockSteps, ResourceSteps
    <2>. QED  BY <1>2, <2>2
  <1>7. page[q].pc = "releasing" => resources'[page[q].resource].manager = 0
    BY <1>1, <1>5 DEF Script, ResourceSteps, CloseSteps
  <1>. QED  BY <1>1, <1>3, <1>4, <1>5, <1>6, <1>7 DEF Script

\* A script that neither holds the lock nor a manager.
CalmScript(s, n) ==
    /\ s \in PageState /\ s.pc \notin LockSteps /\ s.made = 0
    /\ s.pc \in ResourceSteps => s.resource \in 1 .. n
    /\ s.pc = "closing" => s.target \in Calls

\* The managers stay where they are.
LEMMA CalmPlaces ==
    ASSUME IInv, Calm, managers' = managers,
           \A q \in Pages : page'[q].made = page[q].made
    PROVE  Places'
  <1> SUFFICES ASSUME NEW m \in DOMAIN managers
               PROVE  Placed(m)'
    BY DEF Places
  <1>1. m # 0 /\ DOMAIN resources \subseteq DOMAIN resources'
    BY DEF IInv, Types, Calm, Grown
  <1>2. Holders(m)' = Holders(m)
    BY DEF Holders
  <1>3. Owners(m)' = Owners(m)
    BY <1>1 DEF Calm, Owners
  <1>4. Placed(m)
    BY DEF IInv, Places
  <1>. QED  BY <1>1, <1>2, <1>3, <1>4 DEF Placed

LEMMA CalmRegistry ==
    ASSUME IInv, Calm, managers' = managers
    PROVE  Registry'
  <1>1. \A c \in Calls : registered'[c] # 0 =>
            registered'[c] \in DOMAIN resources' /\ resources'[registered'[c]].call = c
    BY DEF Calm
  <1>2. ASSUME NEW r \in DOMAIN resources'
        PROVE  /\ resources'[r].manager \in 0 .. Len(managers')
               /\ resources'[r].manager # 0 => registered'[resources'[r].call] = r
    <2>1. CASE r \in DOMAIN resources
      <3>1. /\ resources'[r].manager = resources[r].manager
            /\ resources'[r].call = resources[r].call
            /\ resources[r].call \in Calls
        <4>1. resources[r] \in Resource
          BY <2>1 DEF IInv, Types
        <4>. QED  BY <2>1, <4>1 DEF Calm, Grown, Resource
      <3>2. r # 0
        BY <2>1 DEF IInv, Types
      <3>. QED  BY <2>1, <3>1, <3>2 DEF IInv, Registry, Calm
    <2>2. CASE r \notin DOMAIN resources
      <3>1. resources'[r].manager = 0 /\ Len(managers') \in Nat
        BY <2>2 DEF IInv, Types, Calm
      <3>. QED  BY <3>1
    <2>. QED  BY <2>1, <2>2
  <1>. QED  BY <1>1, <1>2 DEF Registry

\* What has to be shown of a step.
Advances == IInv' /\ Grown

\* A calm step of a script that neither takes nor gives up lock or manager.
LEMMA CalmAdvances ==
    ASSUME IInv, NEW p \in Pages, NEW s, Calm, page[p].pc \notin LockSteps,
           CalmScript(s, Len(resources')), page' = [page EXCEPT ![p] = s],
           managers' = managers, controller' = controller
    PROVE  Advances
  <1>1. /\ page' \in [Pages -> PageState] /\ page'[p] = s
        /\ \A q \in Pages : q # p => page'[q] = page[q]
    BY PageMoves DEF CalmScript, IInv
  <1>2. managers \in Seq(Nat) /\ Len(managers) \in Nat
    BY DEF IInv, Types
  <1>3. page[p].made = 0
    BY DEF IInv, Scripts, Script, LockSteps, CloseSteps
  <1>4. \A q \in Pages : page'[q].made = page[q].made
    BY <1>1, <1>3 DEF CalmScript
  <1>5. \A q \in Pages : q # p => Script(q)'
    BY <1>1, <1>2, OtherScripts DEF Calm
  <1>6. Script(p)'
    BY <1>1, <1>2 DEF Script, CalmScript, LockSteps, CloseSteps, Calm, Grown
  <1>7. Places' /\ Registry'
    BY <1>4, CalmPlaces, CalmRegistry
  <1>8. Types' /\ Runs'
    BY <1>1, <1>2 DEF Types, Runs, Calm, Grown
  <1>. QED  BY <1>5, <1>6, <1>7, <1>8 DEF Advances, IInv, Scripts, Calm

\* A step of a worker thread is none of a script.
LEMMA WorkerAdvances ==
    ASSUME IInv, NEW r \in DOMAIN resources, NEW b,
           Successor(resources[r], b), b.manager = resources[r].manager,
           OnlyResource(r, b)
    PROVE  Advances
  <1>1. /\ resources' = [resources EXCEPT ![r] = b] /\ registered' = registered
        /\ managers' = managers /\ controller' = controller /\ page' = page
    BY DEF OnlyResource
  <1>2. Calm
    BY <1>1, ChangedIsCalm
  <1>3. /\ Len(resources) \in Nat /\ Len(resources') \in Nat
        /\ DOMAIN resources = 1 .. Len(resources)
        /\ DOMAIN resources' = 1 .. Len(resources')
    BY <1>2 DEF IInv, Types, Calm, Grown
  <1>4. ASSUME NEW q \in Pages  PROVE Script(q)'
    <2>1. Script(q)
      BY DEF IInv, Scripts
    <2>2. page[q].pc \in ResourceSteps => page[q].resource \in DOMAIN resources'
      BY <1>2, <1>3, <2>1 DEF Script, Calm, Grown
    <2>3. page[q].pc = "releasing" => resources'[page[q].resource].manager = 0
      BY <1>2, <2>1 DEF Script, ResourceSteps, CloseSteps, Calm
    <2>. QED  BY <1>1, <2>1, <2>2, <2>3 DEF Script
  <1>5. Places' /\ Registry'
    BY <1>1, <1>2, CalmPlaces, CalmRegistry
  <1>6. Types' /\ Runs'
    BY <1>1, <1>2 DEF IInv, Types, Runs, Calm, Grown
  <1>. QED  BY <1>2, <1>4, <1>5, <1>6 DEF Advances, IInv, Scripts, Calm

-----------------------------------------------------------------------------
(* The actions of a worker *)

LEMMA WorkerStepAdvances ==
    ASSUME IInv, NEW r \in DOMAIN resources, Worker(r) \/ SessionCloses(r)
    PROVE  Advances
  <1> DEFINE res == resources[r]
             sessions == {"none", "open", "closed"}
  <1>1. res \in Resource /\ Run(res)
    BY DEF IInv, Types, Runs
  <1>2. CASE AttachPipeline(r)
    <2>1. OnlyResource(r, [res EXCEPT !.run = "processing"]) /\ res.run = "preparing"
      BY <1>2 DEF AttachPipeline
    <2>. QED  BY <1>1, <2>1, AttachSucceeds, WorkerAdvances
  <1>3. CASE PublishStage(r)
    <2>1. /\ OnlyResource(r, Progressed(res))
          /\ res.run \in {"preparing", "processing"}
      BY <1>3 DEF PublishStage
    <2>. QED  BY <1>1, <2>1, StageSucceeds, WorkerAdvances
  <1>4. CASE CountChunk(r)
    <2>1. /\ OnlyResource(r, [res EXCEPT !.run = "counted", !.chunks = @ + 1])
          /\ res.run = "processing"
      BY <1>4 DEF CountChunk
    <2>. QED  BY <1>1, <2>1, CountSucceeds, WorkerAdvances
  <1>5. CASE ShowChunk(r)
    <2>1. /\ OnlyResource(r, [Progressed(res) EXCEPT !.run = "processing"])
          /\ res.run = "counted"
      BY <1>5 DEF ShowChunk
    <2>. QED  BY <1>1, <2>1, ShowSucceeds, WorkerAdvances
  <1>6. CASE FileCompletes(r) \/ FileFails(r)
    <2>1. PICK status \in Ends, revision \in {res.revision + 1, res.latest.revision + 1} :
              OnlyResource(r, Ended(res, status, revision)) /\ Working(res)
      BY <1>6 DEF FileCompletes, FileFails, Working, EndOf, Ends
    <2>. QED  BY <1>1, <2>1, EndedSucceeds, WorkerAdvances
  <1>7. CASE MicrophoneCompletes(r)
    <2>1. PICK status \in Ends :
              OnlyResource(r, Ended(res, status, res.revision + 1)) /\ Working(res)
      BY <1>7 DEF MicrophoneCompletes, Working, Ends
    <2>. QED  BY <1>1, <2>1, EndedSucceeds, WorkerAdvances
  <1>8. CASE MicrophoneFails(r)
    <2> DEFINE e == Ended(res, EndOf(res), res.revision + 1)
    <2>1. OnlyResource(r, [e EXCEPT !.session = "closed"]) /\ Working(res)
      BY <1>8 DEF MicrophoneFails
    <2>2. EndOf(res) \in Ends
      BY DEF EndOf, Ends
    <2>3. Successor(res, e) /\ e.manager = res.manager
      BY <1>1, <2>1, <2>2, EndedSucceeds
    <2> HIDE DEF e, res
    <2>. QED  BY <1>1, <2>1, <2>3, SessionSucceeds, WorkerAdvances DEF res
  <1>9. CASE TaskRaises(r)
    <2>1. PICK session \in sessions :
              /\ OnlyResource(r, [res EXCEPT !.run = "recovering", !.session = session,
                                             !.seen = res.latest])
              /\ Working(res)
      BY <1>1, <1>9 DEF TaskRaises, Resource
    <2>. QED  BY <1>1, <2>1, RaiseSucceeds, WorkerAdvances
  <1>10. CASE WorkerRecovers(r)
    <2> DEFINE d == [res EXCEPT !.run = "recovered", !.seen = NoSnapshot]
               e == Published(d, Replaced(res))
    <2>1. OnlyResource(r, e) /\ res.run = "recovering"
      BY <1>10 DEF WorkerRecovers
    <2> HIDE DEF res
    <2>2. Successor(res, e) /\ e.manager = res.manager
      BY <1>1, <2>1, RecoverySucceeds
    <2> HIDE DEF e
    <2>. QED  BY <2>1, <2>2, WorkerAdvances DEF res
  <1>11. CASE SessionCloses(r)
    <2>1. OnlyResource(r, [res EXCEPT !.session = "closed"])
      BY <1>11 DEF SessionCloses
    <2>2. Successor(res, res)
      BY <1>1, SameRunSucceeds DEF SameRun
    <2> HIDE DEF res
    <2>. QED  BY <1>1, <2>1, <2>2, SessionSucceeds, WorkerAdvances DEF res
  <1>. QED
    BY <1>2, <1>3, <1>4, <1>5, <1>6, <1>7, <1>8, <1>9, <1>10, <1>11 DEF Worker

-----------------------------------------------------------------------------
(* Calm states of a script *)

LEMMA RestIsCalm ==
    ASSUME NEW x \in PageState, NEW n \in Nat
    PROVE  CalmScript(Rest(x), n)
  <1> DEFINE e == [x EXCEPT !.pc = "idle", !.resource = 0, !.target = NoCall,
                            !.made = 0, !.resets = FALSE]
  <1>1. "idle" \in PageSteps /\ "idle" \notin LockSteps \cup ResourceSteps
    BY DEF PageSteps, LockSteps, ResourceSteps, CloseSteps
  <1>2. e \in PageState /\ e.pc = "idle" /\ e.made = 0
    BY <1>1 DEF PageState
  <1>3. Rest(x) = e
    BY DEF Rest
  <1> HIDE DEF e
  <1>. QED  BY <1>1, <1>2, <1>3 DEF CalmScript

LEMMA NoLongerFreshIsCalm ==
    ASSUME Types, NEW p \in Pages, NEW n \in Nat
    PROVE  CalmScript(NoLongerFresh(p), n)
  <1> DEFINE fresh == page[p].fresh \ {CallOf(p)}
             x == [page[p] EXCEPT !.fresh = fresh]
  <1>1. page[p] \in PageState /\ fresh \subseteq Calls
    BY DEF Types, PageState
  <1>2. NoLongerFresh(p) = Rest(x)
    BY DEF NoLongerFresh
  <1> HIDE DEF fresh
  <1>3. x \in PageState
    BY <1>1 DEF PageState
  <1> HIDE DEF x
  <1>. QED  BY <1>2, <1>3, RestIsCalm

LEMMA ClosedIsCalm ==
    ASSUME NEW x \in PageState, NEW n \in Nat
    PROVE  CalmScript(Closed(x), n)
  <1> DEFINE y == IF x.resets THEN Reset(x) ELSE [x EXCEPT !.resetting = FALSE]
  <1>1. y \in PageState
    <2> DEFINE fresh == x.fresh \cup {Named}
               resetting == x.resetting /\ x.mode # "microphone"
    <2>1. fresh \subseteq Calls /\ resetting \in BOOLEAN /\ Named \in Calls
      BY Constants DEF PageState
    <2>2. y \in {[x EXCEPT !.showing = Named],
                [x EXCEPT !.fresh = fresh, !.resetting = resetting],
                [x EXCEPT !.resetting = FALSE]}
      BY DEF Reset
    <2> HIDE DEF fresh, resetting, y
    <2>. QED  BY <2>1, <2>2 DEF PageState
  <1>2. Closed(x) = Rest(y)
    BY DEF Closed
  <1> HIDE DEF y
  <1>. QED  BY <1>1, <1>2, RestIsCalm

LEMMA ClosingIsCalm ==
    ASSUME NEW x \in PageState, x.made = 0, NEW n \in Nat
    PROVE  CalmScript(Closing(x), n)
  <1>1. CASE x.key = NoCall
    BY <1>1, ClosedIsCalm DEF Closing
  <1>2. CASE x.key # NoCall
    <2> DEFINE e == [x EXCEPT !.pc = "closing", !.target = x.key, !.key = NoCall]
    <2>1. /\ "closing" \in PageSteps /\ "closing" \notin LockSteps \cup ResourceSteps
          /\ x.key \in Calls
      BY <1>2 DEF PageSteps, LockSteps, ResourceSteps, CloseSteps, PageState
    <2>2. e \in PageState /\ e.pc = "closing" /\ e.made = 0 /\ e.target = x.key
      BY <2>1 DEF PageState
    <2>3. Closing(x) = e
      BY <1>2 DEF Closing
    <2> HIDE DEF e
    <2>. QED  BY <2>1, <2>2, <2>3 DEF CalmScript
  <1>. QED  BY <1>1, <1>2

\* A script that goes on to another calm step, with the resource it has.
LEMMA AtIsCalm ==
    ASSUME Types, NEW p \in Pages, page[p].made = 0, NEW n \in Nat,
           NEW pc \in PageSteps \ (LockSteps \cup {"closing"}),
           pc \in ResourceSteps => page[p].resource \in 1 .. n
    PROVE  CalmScript(At(p, pc), n)
  <1> DEFINE e == [page[p] EXCEPT !.pc = pc]
  <1>1. page[p] \in PageState
    BY DEF Types
  <1>2. e \in PageState /\ e.pc = pc /\ e.made = 0 /\ e.resource = page[p].resource
    BY <1>1 DEF PageState
  <1>3. At(p, pc) = e
    BY DEF At
  <1> HIDE DEF e
  <1>. QED  BY <1>2, <1>3 DEF CalmScript

\* A script that has found, or made, the resource of a call.
LEMMA HavingIsCalm ==
    ASSUME Types, NEW p \in Pages, page[p].made = 0, NEW n \in Nat,
           NEW pc \in {"starting", "attaching"}, NEW call \in Calls, NEW r \in 1 .. n
    PROVE  CalmScript([page[p] EXCEPT !.pc = pc, !.key = call, !.resource = r], n)
  <1> DEFINE e == [page[p] EXCEPT !.pc = pc, !.key = call, !.resource = r]
  <1>1. page[p] \in PageState /\ pc \in PageSteps /\ pc \notin LockSteps
        /\ pc # "closing" /\ r \in Nat
    BY DEF Types, PageSteps, LockSteps, ResourceSteps, CloseSteps
  <1>2. e \in PageState /\ e.pc = pc /\ e.made = 0 /\ e.resource = r
    BY <1>1 DEF PageState
  <1> HIDE DEF e
  <1>. QED  BY <1>1, <1>2 DEF CalmScript, e

LEMMA CallOfType ==
    ASSUME Types, NEW p \in Pages
    PROVE  CallOf(p) \in Calls
  BY Constants DEF Types, CallOf, PageState

\* What is found in the registry is a resource.
LEMMA FoundIsResource ==
    ASSUME Types, Registry, NEW c \in Calls, Found(c)
    PROVE  registered[c] \in DOMAIN resources /\ registered[c] \in 1 .. Len(resources)
  BY DEF Types, Registry, Found

LEMMA Lengths ==
    ASSUME Types
    PROVE  /\ Len(resources) \in Nat /\ DOMAIN resources = 1 .. Len(resources)
           /\ Len(managers) \in Nat /\ DOMAIN managers = 1 .. Len(managers)
  BY DEF Types

\* A script at a calm step has no manager in its hands.
LEMMA CalmFields ==
    ASSUME IInv, NEW p \in Pages, page[p].pc \notin LockSteps
    PROVE  /\ page[p] \in PageState /\ page[p].made = 0
           /\ page[p].pc \in ResourceSteps =>
                 /\ page[p].resource \in 1 .. Len(resources)
                 /\ page[p].resource \in DOMAIN resources
  <1>1. page[p] \in PageState /\ DOMAIN resources = 1 .. Len(resources)
    BY DEF IInv, Types
  <1>2. Script(p)
    BY DEF IInv, Scripts
  <1>. QED  BY <1>1, <1>2 DEF Script, LockSteps, CloseSteps

-----------------------------------------------------------------------------
(* The actions of a page's script that leave the resources as they are *)

\* A calm step of one page.
LEMMA PageAdvances ==
    ASSUME IInv, NEW p \in Pages, NEW s, page[p].pc \notin LockSteps,
           CalmScript(s, Len(resources)), OnlyPage(p, s)
    PROVE  Advances
  <1>1. /\ page' = [page EXCEPT ![p] = s] /\ resources' = resources
        /\ registered' = registered /\ managers' = managers
        /\ controller' = controller
    BY DEF OnlyPage
  <1>2. Calm
    BY <1>1, KeptIsCalm
  <1>. QED  BY <1>1, <1>2, CalmAdvances

\* The calm steps of a script.
LEMMA StepNames ==
    /\ {"idle", "activating", "creating", "closing", "starting", "attaching",
        "binding", "shown"} \cap LockSteps = {}
    /\ {"idle", "activating", "creating", "closing"} \cap ResourceSteps = {}
    /\ {"starting", "attaching", "binding", "shown"} \subseteq ResourceSteps
    /\ {"idle", "activating", "creating", "closing", "starting", "attaching",
        "binding", "shown"} \cup LockSteps \subseteq PageSteps
  BY DEF PageSteps, LockSteps, ResourceSteps, CloseSteps

LEMMA UploadFileAdvances ==
    ASSUME IInv, NEW p \in Pages, UploadFile(p)
    PROVE  Advances
  <1> DEFINE n == page[p].uploads + 1
             s == [page[p] EXCEPT !.uploads = n, !.showing = n]
  <1>1. page[p].pc = "idle" /\ page[p].uploads < MaxUploads /\ OnlyPage(p, s)
    BY DEF UploadFile
  <1>2. page[p] \in PageState /\ page[p].made = 0 /\ page[p].pc \notin LockSteps
    BY <1>1, CalmFields, StepNames
  <1>3. n \in 0 .. MaxUploads /\ n \in Calls
    BY <1>1, <1>2, Constants DEF PageState, Calls, Named
  <1> HIDE DEF n
  <1>4. s \in PageState /\ s.pc = "idle" /\ s.made = 0
    BY <1>1, <1>2, <1>3 DEF PageState
  <1> HIDE DEF s
  <1>5. CalmScript(s, Len(resources))
    BY <1>4, StepNames DEF CalmScript
  <1>. QED  BY <1>1, <1>2, <1>5, PageAdvances

LEMMA ChangeSourceAdvances ==
    ASSUME IInv, NEW p \in Pages, ChangeSource(p)
    PROVE  Advances
  <1>1. PICK mode \in {"upload", "path", "microphone"} :
            OnlyPage(p, Closing([page[p] EXCEPT !.mode = mode]))
    BY DEF ChangeSource
  <1> DEFINE x == [page[p] EXCEPT !.mode = mode]
  <1>2. page[p].pc = "idle"
    BY DEF ChangeSource
  <1>3. page[p] \in PageState /\ page[p].made = 0 /\ page[p].pc \notin LockSteps
        /\ Len(resources) \in Nat
    BY <1>2, CalmFields, StepNames, Lengths DEF IInv
  <1>4. x \in PageState /\ x.made = 0
    BY <1>3 DEF PageState
  <1> HIDE DEF x
  <1>5. CalmScript(Closing(x), Len(resources))
    BY <1>3, <1>4, ClosingIsCalm
  <1>. QED  BY <1>1, <1>3, <1>5, PageAdvances DEF x

LEMMA PressStartAdvances ==
    ASSUME IInv, NEW p \in Pages, PressStart(p)
    PROVE  Advances
  <1>1. page[p].pc = "idle" /\ OnlyPage(p, At(p, "activating"))
    BY DEF PressStart, OffersStart, Idle
  <1>2. page[p].made = 0 /\ page[p].pc \notin LockSteps /\ Len(resources) \in Nat
    BY <1>1, CalmFields, StepNames, Lengths DEF IInv
  <1>3. "activating" \in PageSteps \ (LockSteps \cup {"closing"})
        /\ "activating" \notin ResourceSteps
    BY StepNames
  <1>4. CalmScript(At(p, "activating"), Len(resources))
    BY <1>2, <1>3, AtIsCalm DEF IInv
  <1>. QED  BY <1>1, <1>2, <1>4, PageAdvances

LEMMA ActivateAdvances ==
    ASSUME IInv, NEW p \in Pages, Activate(p)
    PROVE  Advances
  <1> DEFINE call == CallOf(p)
             s == [page[p] EXCEPT !.pc = "starting", !.key = call,
                                  !.resource = registered[call]]
  <1>1. /\ page[p].pc = "activating" /\ Found(call)
        /\ OnlyPage(p, s) \/ OnlyPage(p, NoLongerFresh(p))
    BY DEF Activate
  <1>2. page[p].made = 0 /\ page[p].pc \notin LockSteps /\ Len(resources) \in Nat
    BY <1>1, CalmFields, StepNames, Lengths DEF IInv
  <1>3. call \in Calls
    BY CallOfType DEF IInv
  <1> HIDE DEF call
  <1>4. CalmScript(s, Len(resources))
    BY <1>1, <1>2, <1>3, FoundIsResource, HavingIsCalm DEF IInv
  <1>5. CalmScript(NoLongerFresh(p), Len(resources))
    BY <1>2, NoLongerFreshIsCalm DEF IInv
  <1> HIDE DEF s
  <1>. QED  BY <1>1, <1>2, <1>4, <1>5, PageAdvances

LEMMA ResetAdvances ==
    ASSUME IInv, NEW p \in Pages, PressReset(p) \/ MicrophoneResetEnds(p)
    PROVE  Advances
  <1> DEFINE x == [page[p] EXCEPT !.resets = TRUE]
  <1>1. page[p].pc = "idle" /\ OnlyPage(p, Closing(x))
    BY DEF PressReset, MicrophoneResetEnds
  <1>2. page[p] \in PageState /\ page[p].made = 0 /\ page[p].pc \notin LockSteps
        /\ Len(resources) \in Nat
    BY <1>1, CalmFields, StepNames, Lengths DEF IInv
  <1>3. x \in PageState /\ x.made = 0
    BY <1>2 DEF PageState
  <1> HIDE DEF x
  <1>4. CalmScript(Closing(x), Len(resources))
    BY <1>2, <1>3, ClosingIsCalm
  <1>. QED  BY <1>1, <1>2, <1>4, PageAdvances

LEMMA MicrophoneFindAdvances ==
    ASSUME IInv, NEW p \in Pages, MicrophoneFind(p)
    PROVE  Advances
  <1> DEFINE s == [page[p] EXCEPT !.pc = "attaching", !.key = Named,
                                  !.resource = registered[Named]]
  <1>1. /\ page[p].pc = "idle"
        /\ OnlyPage(p, IF Found(Named) THEN s ELSE At(p, "creating"))
    BY DEF MicrophoneFind
  <1>2. page[p].made = 0 /\ page[p].pc \notin LockSteps /\ Len(resources) \in Nat
    BY <1>1, CalmFields, StepNames, Lengths DEF IInv
  <1>3. Found(Named) => CalmScript(s, Len(resources))
    BY <1>2, Constants, FoundIsResource, HavingIsCalm DEF IInv
  <1>4. CalmScript(At(p, "creating"), Len(resources))
    <2>1. "creating" \in PageSteps \ (LockSteps \cup {"closing"})
          /\ "creating" \notin ResourceSteps
      BY StepNames
    <2>. QED  BY <1>2, <2>1, AtIsCalm DEF IInv
  <1> HIDE DEF s
  <1>. QED  BY <1>1, <1>2, <1>3, <1>4, PageAdvances

LEMMA FindMicrophoneAdvances ==
    ASSUME IInv, NEW p \in Pages, FindMicrophone(p)
    PROVE  Advances
  <1>1. /\ page[p].pc = "attaching"
        /\ \E pc \in {"starting", "shown", "binding"} : OnlyPage(p, At(p, pc))
    BY DEF FindMicrophone, Offered
  <1>2. /\ page[p].made = 0 /\ page[p].pc \notin LockSteps /\ Len(resources) \in Nat
        /\ page[p].resource \in 1 .. Len(resources)
    BY <1>1, CalmFields, StepNames, Lengths DEF IInv
  <1>3. ASSUME NEW pc \in {"starting", "shown", "binding"}
        PROVE  CalmScript(At(p, pc), Len(resources))
    <2>1. pc \in PageSteps \ (LockSteps \cup {"closing"})
      BY StepNames
    <2>. QED  BY <1>2, <2>1, AtIsCalm DEF IInv
  <1>. QED  BY <1>1, <1>2, <1>3, PageAdvances

LEMMA RestAdvances ==
    ASSUME IInv, NEW p \in Pages, MicrophoneShown(p) \/ CloseMissing(p)
    PROVE  Advances
  <1>1. page[p].pc \in {"shown", "closing"} /\ OnlyPage(p, Rest(page[p]))
    BY DEF MicrophoneShown, CloseMissing
  <1>2. page[p] \in PageState /\ page[p].pc \notin LockSteps /\ Len(resources) \in Nat
    BY <1>1, CalmFields, StepNames, Lengths DEF IInv
  <1>. QED  BY <1>1, <1>2, RestIsCalm, PageAdvances

-----------------------------------------------------------------------------
(* The actions of a script that change a resource or make one *)

\* A calm step of one page that changes one resource.
LEMMA ChangeAdvances ==
    ASSUME IInv, NEW p \in Pages, NEW s, page[p].pc \notin LockSteps,
           CalmScript(s, Len(resources)), page' = [page EXCEPT ![p] = s],
           NEW r \in DOMAIN resources, NEW b, Successor(resources[r], b),
           b.manager = resources[r].manager,
           resources' = [resources EXCEPT ![r] = b],
           registered' = registered, managers' = managers, controller' = controller
    PROVE  Advances
  <1>1. Calm
    BY ChangedIsCalm
  <1>2. Len(resources') = Len(resources)
    BY DEF IInv, Types
  <1>. QED  BY <1>1, <1>2, CalmAdvances

\* Only flags of the resource, and its session, are different.
LEMMA FlagsSucceed ==
    ASSUME NEW a \in Resource, Run(a), NEW session \in {"none", "open", "closed"},
           NEW cancelled \in BOOLEAN
    PROVE  LET b == [a EXCEPT !.session = session, !.cancelled = cancelled]
           IN  Successor(a, b) /\ b.manager = a.manager
  <1> DEFINE b == [a EXCEPT !.session = session, !.cancelled = cancelled]
  <1>1. b \in Resource /\ SameRun(a, b) /\ b.manager = a.manager
    BY DEF Resource, SameRun
  <1> HIDE DEF b
  <1>. QED  BY <1>1, SameRunSucceeds DEF b

LEMMA ResourceFields ==
    ASSUME IInv, NEW r \in DOMAIN resources
    PROVE  resources[r] \in Resource /\ Run(resources[r])
  BY DEF IInv, Types, Runs

LEMMA StartWorkerAdvances ==
    ASSUME IInv, NEW p \in Pages, StartWorker(p)
    PROVE  Advances
  <1> DEFINE r == page[p].resource
             a == resources[r]
             live == page[p].mode = "microphone"
  <1>1. /\ page[p].pc = "starting"
        /\ page' = [page EXCEPT ![p] = IF a.closed \/ CanStart(a)
                                       THEN NoLongerFresh(p) ELSE Rest(page[p])]
        /\ resources' = IF ~a.closed /\ CanStart(a)
                        THEN [resources EXCEPT ![r] = Started(a, live)] ELSE resources
        /\ registered' = registered /\ managers' = managers
        /\ controller' = controller
    BY DEF StartWorker
  <1>2. /\ page[p] \in PageState /\ page[p].pc \notin LockSteps
        /\ Len(resources) \in Nat /\ r \in DOMAIN resources
    BY <1>1, CalmFields, StepNames, Lengths DEF IInv
  <1>3. PICK s : CalmScript(s, Len(resources)) /\ page' = [page EXCEPT ![p] = s]
    BY <1>1, <1>2, RestIsCalm, NoLongerFreshIsCalm DEF IInv
  <1>4. a \in Resource /\ Run(a) /\ live \in BOOLEAN
    BY <1>2, ResourceFields
  <1> HIDE DEF r, a, live
  <1>5. CASE ~a.closed /\ CanStart(a)
    <2>1. Successor(a, Started(a, live)) /\ Started(a, live).manager = a.manager
      BY <1>4, <1>5, StartedSucceeds
    <2>2. resources' = [resources EXCEPT ![r] = Started(a, live)]
      BY <1>1, <1>5
    <2>. QED  BY <1>1, <1>2, <1>3, <2>1, <2>2, ChangeAdvances DEF a
  <1>6. CASE ~(~a.closed /\ CanStart(a))
    <2>1. resources' = resources
      BY <1>1, <1>6
    <2>. QED  BY <1>1, <1>2, <1>3, <2>1, KeptIsCalm, CalmAdvances
  <1>. QED  BY <1>5, <1>6

LEMMA PressStopAdvances ==
    ASSUME IInv, NEW p \in Pages, PressStop(p)
    PROVE  Advances
  <1> DEFINE r == registered[page[p].key]
             a == resources[r]
             b == [a EXCEPT !.session = a.session, !.cancelled = TRUE]
  <1>1. /\ page[p].pc = "idle" /\ page[p].key = CallOf(p) /\ Found(CallOf(p))
        /\ resources' = [resources EXCEPT ![r] = [a EXCEPT !.cancelled = TRUE]]
        /\ registered' = registered /\ managers' = managers
        /\ controller' = controller /\ page' = page
    BY DEF PressStop, Retained, OpenResource
  <1>2. /\ page[p] \in PageState /\ page[p].made = 0 /\ page[p].pc \notin LockSteps
        /\ page \in [Pages -> PageState]
    BY <1>1, CalmFields, StepNames DEF IInv, Types
  <1>3. r \in DOMAIN resources
    BY <1>1, CallOfType, FoundIsResource DEF IInv
  <1>4. a \in Resource /\ Run(a)
    BY <1>3, ResourceFields
  <1> HIDE DEF r, a
  <1>5. b = [a EXCEPT !.cancelled = TRUE] /\ a.session \in {"none", "open", "closed"}
    BY <1>4 DEF Resource
  <1>6. Successor(a, b) /\ b.manager = a.manager
    BY <1>4, <1>5, FlagsSucceed
  <1> HIDE DEF b
  <1>7. page' = [page EXCEPT ![p] = page[p]]
    BY <1>1, <1>2
  <1>8. CalmScript(page[p], Len(resources))
    BY <1>1, <1>2, StepNames DEF CalmScript
  <1>. QED  BY <1>1, <1>2, <1>3, <1>5, <1>6, <1>7, <1>8, ChangeAdvances DEF a

\* registry.acquire without a manager.
LEMMA AcquireIsCalm ==
    ASSUME IInv, NEW call \in Calls, Acquirable(call, 0), Acquire(call, 0)
    PROVE  Calm /\ registered'[call] \in 1 .. Len(resources')
  <1>1. CASE Found(call)
    <2>1. resources' = resources /\ registered' = registered
      BY <1>1 DEF Acquire
    <2>. QED  BY <1>1, <2>1, KeptIsCalm, FoundIsResource DEF IInv
  <1>2. CASE ~Found(call)
    <2>1. /\ registered[call] = 0
          /\ resources' = Append(resources, NewResource(call, 0))
          /\ registered' = [registered EXCEPT ![call] = Len(resources) + 1]
      BY <1>2 DEF Acquire, Found
    <2>2. Calm
      BY <2>1, AddedIsCalm
    <2>3. registered'[call] # 0
      BY <2>1 DEF IInv, Types
    <2>4. registered'[call] \in DOMAIN resources' /\ resources' \in Seq(Resource)
      BY <2>2, <2>3 DEF Calm, Grown
    <2>. QED  BY <2>2, <2>4
  <1>. QED  BY <1>1, <1>2

LEMMA MicrophoneAcquireAdvances ==
    ASSUME IInv, NEW p \in Pages, MicrophoneAcquire(p)
    PROVE  Advances
  <1>1. /\ page[p].pc = "creating" /\ managers' = managers
        /\ controller' = controller
    BY DEF MicrophoneAcquire
  <1>2. /\ page[p] \in PageState /\ page[p].made = 0 /\ page[p].pc \notin LockSteps
        /\ Len(resources) \in Nat
    BY <1>1, CalmFields, StepNames, Lengths DEF IInv
  <1>3. CASE /\ Acquirable(Named, 0) /\ Acquire(Named, 0)
             /\ page' = [page EXCEPT ![p] = [@ EXCEPT !.pc = "attaching", !.key = Named,
                                                      !.resource = registered'[Named]]]
    <2> DEFINE r == registered'[Named]
               s == [page[p] EXCEPT !.pc = "attaching", !.key = Named, !.resource = r]
    <2>1. Calm /\ r \in 1 .. Len(resources')
      BY <1>3, Constants, AcquireIsCalm
    <2>2. page' = [page EXCEPT ![p] = s]
      BY <1>3
    <2>3. Len(resources') \in Nat
      BY <2>1 DEF Calm, Grown
    <2> HIDE DEF r
    <2>4. CalmScript(s, Len(resources'))
      BY <1>2, <2>1, <2>3, Constants, HavingIsCalm DEF IInv
    <2> HIDE DEF s
    <2>. QED  BY <1>1, <1>2, <2>1, <2>2, <2>4, CalmAdvances
  <1>4. CASE /\ page' = [page EXCEPT ![p] = Rest(page[p])]
             /\ UNCHANGED <<resources, registered>>
    BY <1>1, <1>2, <1>4, RestIsCalm, KeptIsCalm, CalmAdvances
  <1>. QED  BY <1>3, <1>4 DEF MicrophoneAcquire

LEMMA AttachMicrophoneAdvances ==
    ASSUME IInv, NEW p \in Pages, AttachMicrophone(p)
    PROVE  Advances
  <1> DEFINE r == page[p].resource
             a == resources[r]
             attachable == ~a.closed /\ a.session = "none"
             session == IF attachable THEN "open" ELSE a.session
             b == [a EXCEPT !.session = session, !.cancelled = a.cancelled]
             s == IF attachable THEN Offered(p) ELSE Rest(page[p])
  <1>1. /\ page[p].pc = "binding"
        /\ resources' = [resources EXCEPT ![r] = [a EXCEPT !.session = session]]
        /\ page' = [page EXCEPT ![p] = s]
        /\ registered' = registered /\ managers' = managers
        /\ controller' = controller
    BY DEF AttachMicrophone
  <1>2. /\ page[p] \in PageState /\ page[p].made = 0 /\ page[p].pc \notin LockSteps
        /\ Len(resources) \in Nat /\ r \in DOMAIN resources /\ r \in 1 .. Len(resources)
    BY <1>1, CalmFields, StepNames, Lengths DEF IInv
  <1>3. a \in Resource /\ Run(a)
    BY <1>2, ResourceFields
  <1>4. CalmScript(s, Len(resources))
    <2>1. CalmScript(Rest(page[p]), Len(resources))
      BY <1>2, RestIsCalm
    <2>2. ASSUME NEW pc \in {"starting", "shown"}
          PROVE  CalmScript(At(p, pc), Len(resources))
      <3>1. pc \in PageSteps \ (LockSteps \cup {"closing"})
        BY StepNames
      <3>. QED  BY <1>2, <3>1, AtIsCalm DEF IInv
    <2>. QED  BY <2>1, <2>2 DEF Offered
  <1> HIDE DEF r, a, s
  <1>5. session \in {"none", "open", "closed"} /\ a.cancelled \in BOOLEAN
    BY <1>3 DEF Resource
  <1> HIDE DEF session
  <1>6. b = [a EXCEPT !.session = session]
    BY <1>3 DEF Resource
  <1>7. Successor(a, b) /\ b.manager = a.manager
    BY <1>3, <1>5, FlagsSucceed
  <1> HIDE DEF b
  <1>. QED  BY <1>1, <1>2, <1>4, <1>6, <1>7, ChangeAdvances DEF a

LEMMA MicrophoneResetAdvances ==
    ASSUME IInv, NEW p \in Pages, MicrophoneReset(p)
    PROVE  Advances
  <1> DEFINE r == page[p].resource
             a == resources[r]
             b == [a EXCEPT !.session = "closed", !.cancelled = TRUE]
             x == [page[p] EXCEPT !.resetting = TRUE]
             s == Rest(x)
  <1>1. /\ page[p].pc = "shown"
        /\ resources' = [resources EXCEPT ![r].session = "closed", ![r].cancelled = TRUE]
        /\ page' = [page EXCEPT ![p] = s]
        /\ registered' = registered /\ managers' = managers
        /\ controller' = controller
    BY DEF MicrophoneReset
  <1>2. /\ page[p] \in PageState /\ page[p].pc \notin LockSteps
        /\ Len(resources) \in Nat /\ r \in DOMAIN resources
        /\ resources \in Seq(Resource)
    BY <1>1, CalmFields, StepNames, Lengths DEF IInv, Types
  <1>3. a \in Resource /\ Run(a)
    BY <1>2, ResourceFields
  <1>4. resources' = [resources EXCEPT ![r] = b]
    BY <1>1, <1>2
  <1>5. x \in PageState
    BY <1>2 DEF PageState
  <1> HIDE DEF r, a, x
  <1>6. CalmScript(s, Len(resources))
    BY <1>2, <1>5, RestIsCalm
  <1>7. Successor(a, b) /\ b.manager = a.manager
    BY <1>3, FlagsSucceed
  <1> HIDE DEF b, s
  <1>. QED  BY <1>1, <1>2, <1>4, <1>6, <1>7, ChangeAdvances DEF a

-----------------------------------------------------------------------------
(* The actions under the controller's lock *)

\* A step of the page that holds the lock, takes it or gives it back.
LEMMA LockAdvances ==
    ASSUME IInv, NEW p \in Pages, NEW s \in PageState,
           page' = [page EXCEPT ![p] = s], Grown,
           registered' \in [Calls -> Nat],
           managers' \in Seq(Nat), Len(managers) <= Len(managers'),
           \A r \in DOMAIN resources : resources[r].manager = 0 => resources'[r].manager = 0,
           controller \in {"free", p},
           controller = p \/ \A c \in Calls : registered[c] # 0 => registered'[c] = registered[c],
           Script(p)', Registry', Places'
    PROVE  Advances
  <1>1. /\ page' \in [Pages -> PageState]
        /\ \A q \in Pages : q # p => page'[q] = page[q]
    BY PageMoves DEF IInv
  <1>2. \A q \in Pages : q # p => Script(q)'
    BY <1>1, OtherScripts
  <1>3. Types' /\ Runs'
    BY <1>1 DEF Types, Runs, Grown
  <1>. QED  BY <1>2, <1>3 DEF Advances, IInv, Scripts

\* A script at a step under the lock.
LEMMA LockFields ==
    ASSUME IInv, NEW p \in Pages, page[p].pc \in LockSteps
    PROVE  /\ page[p] \in PageState /\ controller = p
           /\ page[p].made \in 0 .. Len(managers) /\ page[p].made \in Nat
           /\ page[p].pc \notin {"acquiring", "releasing"} => page[p].made = 0
           /\ page[p].pc \in CloseSteps =>
                 /\ page[p].target \in Calls
                 /\ page[p].resource \in DOMAIN resources
                 /\ registered[page[p].target] = page[p].resource
                 /\ page[p].pc = "releasing" => resources[page[p].resource].manager = 0
  <1>1. page[p] \in PageState
    BY DEF IInv, Types
  <1>2. Script(p)
    BY DEF IInv, Scripts
  <1>. QED  BY <1>1, <1>2 DEF Script, LockSteps, ResourceSteps, PageState

LEMMA LockStepNames ==
    /\ {"acquiring", "joining", "marking", "releasing"} = LockSteps
    /\ {"joining", "marking", "releasing"} = CloseSteps
    /\ LockSteps \subseteq PageSteps /\ CloseSteps \subseteq ResourceSteps
    /\ "acquiring" \notin ResourceSteps
  BY DEF PageSteps, LockSteps, ResourceSteps, CloseSteps

LEMMA DiscardedFields ==
    ASSUME Types, NEW k \in Nat
    PROVE  /\ Discarded(k) \in Seq(Nat) /\ Len(Discarded(k)) = Len(managers)
           /\ DOMAIN Discarded(k) = DOMAIN managers
           /\ \A m \in DOMAIN managers :
                 Discarded(k)[m] = IF m = k THEN managers[m] + 1 ELSE managers[m]
  <1>1. managers \in Seq(Nat) /\ DOMAIN managers = 1 .. Len(managers)
        /\ Len(managers) \in Nat
    BY DEF Types
  <1>2. \A m \in 1 .. Len(managers) : managers[m] \in Nat
    BY <1>1
  <1>. QED  BY <1>1, <1>2 DEF Discarded

\* A manager that a script closes was in its hands only.
LEMMA DiscardedPlaces ==
    ASSUME IInv, NEW p \in Pages, page'[p].made = 0,
           page[p].made \in Nat,
           \A q \in Pages : q # p => page'[q].made = page[q].made,
           managers' = Discarded(page[p].made),
           DOMAIN resources' = DOMAIN resources,
           \A r \in DOMAIN resources : resources'[r].manager = resources[r].manager
    PROVE  Places'
  <1>1. /\ DOMAIN managers' = DOMAIN managers
        /\ \A m \in DOMAIN managers :
              managers'[m] = IF m = page[p].made THEN managers[m] + 1 ELSE managers[m]
    BY DiscardedFields DEF IInv
  <1> SUFFICES ASSUME NEW m \in DOMAIN managers
               PROVE  Placed(m)'
    BY <1>1 DEF Places
  <1>2. m # 0 /\ Placed(m)
    BY DEF IInv, Types, Places
  <1>3. Owners(m)' = Owners(m)
    BY DEF Owners
  <1>4. CASE m = page[p].made
    <2>1. p \in Holders(m)
      BY <1>4 DEF Holders
    <2>2. managers[m] = 0 /\ Holders(m) = {p} /\ Owners(m) = {}
      BY <1>2, <2>1 DEF Placed
    <2>3. Holders(m)' = {}
      BY <1>2, <2>2 DEF Holders
    <2>4. managers'[m] = 1
      BY <1>1, <1>4, <2>2
    <2>. QED  BY <1>3, <2>2, <2>3, <2>4 DEF Placed
  <1>5. CASE m # page[p].made
    <2>1. Holders(m)' = Holders(m)
      BY <1>2, <1>5 DEF Holders
    <2>2. managers'[m] = managers[m]
      BY <1>1, <1>5
    <2>3. \A r : r \in DOMAIN resources' <=> r \in DOMAIN resources
      OBVIOUS
    <2>. QED  BY <1>2, <1>3, <2>1, <2>2 DEF Placed
  <1>. QED  BY <1>4, <1>5

LEMMA CloseBeginsAdvances ==
    ASSUME IInv, NEW p \in Pages, CloseBegins(p)
    PROVE  Advances
  <1> DEFINE r == registered[page[p].target]
             a == resources[r]
             b == [a EXCEPT !.session = a.session, !.cancelled = TRUE]
             s == [page[p] EXCEPT !.pc = "joining", !.resource = r]
  <1>1. /\ page[p].pc = "closing" /\ controller = "free" /\ controller' = p
        /\ Found(page[p].target)
        /\ resources' = [resources EXCEPT ![r] = [a EXCEPT !.cancelled = TRUE]]
        /\ page' = [page EXCEPT ![p] = s]
        /\ registered' = registered /\ managers' = managers
    BY DEF CloseBegins, At
  <1>2. /\ page[p] \in PageState /\ page[p].made = 0 /\ page[p].pc \notin LockSteps
        /\ page[p].target \in Calls
    BY <1>1, CalmFields, StepNames DEF IInv, Scripts, Script
  <1>3. r \in DOMAIN resources /\ r \in Nat
    BY <1>1, <1>2, FoundIsResource DEF IInv
  <1>4. a \in Resource /\ Run(a)
    BY <1>3, ResourceFields
  <1> HIDE DEF r, a
  <1>5. s \in PageState /\ s.pc = "joining" /\ s.resource = r /\ s.made = 0
        /\ s.target = page[p].target
    BY <1>2, <1>3, LockStepNames DEF PageState
  <1> HIDE DEF s
  <1>6. b = [a EXCEPT !.cancelled = TRUE] /\ a.session \in {"none", "open", "closed"}
    BY <1>4 DEF Resource
  <1>7. Successor(a, b) /\ b.manager = a.manager
    BY <1>4, <1>6, FlagsSucceed
  <1> HIDE DEF b
  <1>8. Calm
    BY <1>1, <1>3, <1>6, <1>7, ChangedIsCalm DEF a
  <1>9. /\ page'[p] = s /\ \A q \in Pages : q # p => page'[q] = page[q]
    BY <1>1, <1>5, PageMoves DEF IInv
  <1>10. DOMAIN resources' = DOMAIN resources /\ Len(managers) \in Nat
         /\ managers \in Seq(Nat)
    BY <1>1 DEF IInv, Types
  <1>11. r = registered[page[p].target]
    BY DEF r
  <1>12. Script(p)'
    BY <1>1, <1>2, <1>3, <1>5, <1>9, <1>10, <1>11, LockStepNames DEF Script
  <1>13. Places' /\ Registry'
    BY <1>1, <1>2, <1>5, <1>8, <1>9, CalmPlaces, CalmRegistry
  <1>14. Grown /\ registered' \in [Calls -> Nat]
         /\ \A i \in DOMAIN resources :
               resources[i].manager = 0 => resources'[i].manager = 0
    BY <1>8 DEF Calm
  <1>15. managers' \in Seq(Nat) /\ Len(managers) <= Len(managers')
    BY <1>1, <1>10
  <1>. QED
    BY <1>1, <1>5, <1>12, <1>13, <1>14, <1>15, LockAdvances

LEMMA CloseJoinsAdvances ==
    ASSUME IInv, NEW p \in Pages, CloseJoins(p)
    PROVE  Advances
  <1> DEFINE s == [page[p] EXCEPT !.pc = "marking"]
  <1>1. /\ page[p].pc = "joining" /\ page' = [page EXCEPT ![p] = s]
        /\ resources' = resources /\ registered' = registered
        /\ managers' = managers /\ controller' = controller
    BY DEF CloseJoins, OnlyPage, At
  <1>2. /\ page[p] \in PageState /\ page[p].made = 0 /\ controller = p
        /\ page[p].target \in Calls /\ page[p].resource \in DOMAIN resources
        /\ registered[page[p].target] = page[p].resource
    BY <1>1, LockFields, LockStepNames
  <1>3. s \in PageState /\ s.pc = "marking" /\ s.made = 0
        /\ s.resource = page[p].resource /\ s.target = page[p].target
    BY <1>2, LockStepNames DEF PageState
  <1> HIDE DEF s
  <1>4. Calm
    BY <1>1, KeptIsCalm
  <1>5. /\ page'[p] = s /\ \A q \in Pages : q # p => page'[q] = page[q]
    BY <1>1, <1>3, PageMoves DEF IInv
  <1>6. Len(managers) \in Nat /\ managers \in Seq(Nat)
    BY DEF IInv, Types
  <1>7. Script(p)'
    BY <1>1, <1>2, <1>3, <1>5, <1>6, LockStepNames DEF Script
  <1>8. Places' /\ Registry'
    BY <1>1, <1>2, <1>3, <1>4, <1>5, CalmPlaces, CalmRegistry
  <1>9. Grown /\ registered' \in [Calls -> Nat]
        /\ \A i \in DOMAIN resources :
              resources[i].manager = 0 => resources'[i].manager = 0
    BY <1>4 DEF Calm
  <1>10. managers' \in Seq(Nat) /\ Len(managers) <= Len(managers')
    BY <1>1, <1>6
  <1>. QED
    BY <1>1, <1>2, <1>3, <1>7, <1>8, <1>9, <1>10, LockAdvances

\* The manager of the resource goes to the hands of the closing script.
LEMMA CloseMarksAdvances ==
    ASSUME IInv, NEW p \in Pages, CloseMarks(p)
    PROVE  Advances
  <1> DEFINE r == page[p].resource
             a == resources[r]
             k == a.manager
             b == [a EXCEPT !.closed = TRUE, !.manager = 0]
             s == [page[p] EXCEPT !.pc = "releasing", !.made = k]
  <1>1. /\ page[p].pc = "marking"
        /\ resources' = [resources EXCEPT ![r].closed = TRUE, ![r].manager = 0]
        /\ page' = [page EXCEPT ![p] = s]
        /\ registered' = registered /\ managers' = managers
        /\ controller' = controller
    BY DEF CloseMarks, At
  <1>2. /\ page[p] \in PageState /\ page[p].made = 0 /\ controller = p
        /\ page[p].target \in Calls /\ r \in DOMAIN resources
        /\ registered[page[p].target] = r
    BY <1>1, LockFields, LockStepNames
  <1>3. a \in Resource /\ Run(a) /\ resources \in Seq(Resource)
    BY <1>2, ResourceFields DEF IInv, Types
  <1>4. k \in 0 .. Len(managers) /\ k \in Nat /\ Len(managers) \in Nat
        /\ managers \in Seq(Nat)
    BY <1>2, <1>3 DEF IInv, Types, Registry, Resource
  <1>5. resources' = [resources EXCEPT ![r] = b]
    BY <1>1, <1>2, <1>3
  <1> HIDE DEF k
  <1>6. s \in PageState /\ s.pc = "releasing" /\ s.made = k
        /\ s.resource = r /\ s.target = page[p].target
    BY <1>2, <1>4, LockStepNames DEF PageState
  <1> HIDE DEF s, r, a
  <1>7. b \in Resource /\ SameRun(a, b) /\ b.manager = 0
    BY <1>3 DEF Resource, SameRun
  <1> HIDE DEF b
  <1>8. Successor(a, b)
    BY <1>3, <1>7, SameRunSucceeds
  <1>9. /\ Grown /\ DOMAIN resources' = DOMAIN resources
        /\ resources'[r] = b
        /\ \A i \in DOMAIN resources : i # r => resources'[i] = resources[i]
    BY <1>2, <1>5, <1>8, ChangedGrows DEF IInv, a
  <1>10. /\ page'[p] = s /\ \A q \in Pages : q # p => page'[q] = page[q]
    BY <1>1, <1>6, PageMoves DEF IInv
  <1>11. Script(p)'
    BY <1>1, <1>2, <1>4, <1>6, <1>7, <1>9, <1>10, LockStepNames DEF Script
  <1>12. Registry'
    <2>1. \A i \in DOMAIN resources : resources'[i].call = resources[i].call
      BY <1>9 DEF Grown
    <2>2. \A i \in DOMAIN resources :
              resources'[i].manager \in {0, resources[i].manager}
      BY <1>7, <1>9
    <2>. QED  BY <1>1, <1>4, <1>9, <2>1, <2>2 DEF IInv, Registry
  <1>13. Places'
    <2> SUFFICES ASSUME NEW m \in DOMAIN managers
                 PROVE  Placed(m)'
      BY <1>1 DEF Places
    <2>1. m # 0 /\ Placed(m)
      BY DEF IInv, Types, Places
    <2>2. CASE m = k
      <3>1. r \in Owners(m)
        BY <1>2, <2>2 DEF Owners, k, a
      <3>2. managers[m] = 0 /\ Owners(m) = {r} /\ Holders(m) = {}
        BY <2>1, <3>1 DEF Placed
      <3>3. Owners(m)' = {}
        BY <1>7, <1>9, <2>1, <3>2 DEF Owners
      <3>4. Holders(m)' = {p}
        BY <1>6, <1>10, <2>2, <3>2 DEF Holders
      <3>. QED  BY <1>1, <3>2, <3>3, <3>4 DEF Placed
    <2>3. CASE m # k
      <3>1. Owners(m)' = Owners(m)
        <4>1. \A i \in DOMAIN resources :
                  resources'[i].manager = m <=> resources[i].manager = m
          BY <1>7, <1>9, <2>1, <2>3 DEF k, a
        <4>. QED  BY <1>9, <4>1 DEF Owners
      <3>2. Holders(m)' = Holders(m)
        BY <1>2, <1>6, <1>10, <2>1, <2>3 DEF Holders
      <3>. QED  BY <1>1, <1>9, <2>1, <3>1, <3>2 DEF Placed
    <2>. QED  BY <2>2, <2>3
  <1>14. \A i \in DOMAIN resources :
             resources[i].manager = 0 => resources'[i].manager = 0
    BY <1>7, <1>9
  <1>15. /\ managers' \in Seq(Nat) /\ Len(managers) <= Len(managers')
         /\ registered' \in [Calls -> Nat]
    BY <1>1, <1>4 DEF IInv, Types
  <1>. QED
    BY <1>1, <1>2, <1>6, <1>9, <1>11, <1>12, <1>13, <1>14, <1>15, LockAdvances

LEMMA CloseReleasesAdvances ==
    ASSUME IInv, NEW p \in Pages, CloseReleases(p)
    PROVE  Advances
  <1> DEFINE r == page[p].resource
             k == page[p].made
             target == page[p].target
             a == resources[r]
             session == IF a.session = "open" THEN "closed" ELSE a.session
             b == [a EXCEPT !.session = session, !.cancelled = a.cancelled]
             s == Closed(page[p])
  <1>1. /\ page[p].pc = "releasing" /\ managers' = Discarded(k)
        /\ resources' = [resources EXCEPT ![r] = [a EXCEPT !.session = session]]
        /\ registered' = [registered EXCEPT ![target] = 0]
        /\ controller' = "free" /\ page' = [page EXCEPT ![p] = s]
    BY DEF CloseReleases
  <1>2. /\ page[p] \in PageState /\ k \in Nat /\ controller = p
        /\ target \in Calls /\ r \in DOMAIN resources
        /\ registered[target] = r /\ a.manager = 0
    BY <1>1, LockFields, LockStepNames
  <1>3. a \in Resource /\ Run(a) /\ Len(resources) \in Nat
    BY <1>2, ResourceFields, Lengths DEF IInv
  <1>4. CalmScript(s, Len(resources))
    BY <1>2, <1>3, ClosedIsCalm
  <1> HIDE DEF s, r, a, target
  <1>5. session \in {"none", "open", "closed"} /\ a.cancelled \in BOOLEAN
    BY <1>3 DEF Resource
  <1> HIDE DEF session
  <1>6. b = [a EXCEPT !.session = session]
    BY <1>3 DEF Resource
  <1>7. Successor(a, b) /\ b.manager = a.manager
    BY <1>3, <1>5, FlagsSucceed
  <1> HIDE DEF b
  <1>8. /\ Grown /\ DOMAIN resources' = DOMAIN resources
        /\ resources'[r] = b
        /\ \A i \in DOMAIN resources : i # r => resources'[i] = resources[i]
    BY <1>1, <1>2, <1>6, <1>7, ChangedGrows DEF IInv, a
  <1>9. \A i \in DOMAIN resources : resources'[i].manager = resources[i].manager
    BY <1>7, <1>8 DEF a
  <1>10. /\ page'[p] = s /\ \A q \in Pages : q # p => page'[q] = page[q]
    BY <1>1, <1>4, PageMoves DEF IInv, CalmScript
  <1>11. Places'
    BY <1>1, <1>2, <1>4, <1>8, <1>9, <1>10, DiscardedPlaces DEF CalmScript
  <1>12. managers' \in Seq(Nat) /\ Len(managers') = Len(managers)
         /\ Len(managers) \in Nat
    BY <1>1, <1>2, DiscardedFields, Lengths DEF IInv
  <1>13. /\ registered' \in [Calls -> Nat] /\ registered'[target] = 0
         /\ \A c \in Calls : c # target => registered'[c] = registered[c]
    BY <1>1, <1>2 DEF IInv, Types
  <1>14. Registry'
    <2>1. ASSUME NEW c \in Calls, registered'[c] # 0
          PROVE  registered'[c] \in DOMAIN resources' /\ resources'[registered'[c]].call = c
      BY <1>8, <1>13, <2>1 DEF IInv, Registry, Grown
    <2>2. ASSUME NEW i \in DOMAIN resources'
          PROVE  /\ resources'[i].manager \in 0 .. Len(managers')
                 /\ resources'[i].manager # 0 => registered'[resources'[i].call] = i
      <3>1. i \in DOMAIN resources /\ resources[i] \in Resource
        BY <1>8, ResourceFields
      <3>2. /\ resources'[i].manager = resources[i].manager
            /\ resources'[i].call = resources[i].call /\ resources[i].call \in Calls
        BY <1>8, <1>9, <3>1 DEF Grown, Resource
      <3>3. /\ resources[i].manager \in 0 .. Len(managers)
            /\ resources[i].manager # 0 => registered[resources[i].call] = i
        BY <3>1 DEF IInv, Registry
      <3>4. resources[i].manager # 0 => resources[i].call # target
        BY <1>2, <3>3 DEF a
      <3>. QED  BY <1>12, <1>13, <3>2, <3>3, <3>4
    <2>. QED  BY <2>1, <2>2 DEF Registry
  <1>15. Script(p)'
    <2>1. s.pc \notin CloseSteps \cup {"acquiring", "releasing", "closing"}
      <3>1. s.pc = "idle"
        BY DEF s, Closed, Rest, Reset, CalmScript, PageState
      <3>. QED  BY <3>1, LockStepNames
    <2>. QED  BY <1>4, <1>8, <1>10, <1>12, <2>1 DEF Script, CalmScript
  <1>16. s \in PageState /\ Len(managers) <= Len(managers')
    BY <1>4, <1>12 DEF CalmScript
  <1>17. \A i \in DOMAIN resources :
             resources[i].manager = 0 => resources'[i].manager = 0
    BY <1>9
  <1>. QED
    BY <1>1, <1>2, <1>8, <1>11, <1>12, <1>13, <1>14, <1>15, <1>16, <1>17,
       LockAdvances

\* A manager that was started is in the hands of the script that started it.
LEMMA ActivateIntegrationAdvances ==
    ASSUME IInv, NEW p \in Pages, ActivateIntegration(p)
    PROVE  Advances
  <1>1. /\ page[p].pc = "activating" /\ controller = "free" /\ controller' = p
        /\ resources' = resources /\ registered' = registered
    BY DEF ActivateIntegration
  <1>2. PICK k \in Nat :
            /\ page' = [page EXCEPT ![p] = [@ EXCEPT !.pc = "acquiring", !.made = k]]
            /\ \/ managers' = Append(managers, 0) /\ k = Len(managers) + 1
               \/ managers' = managers /\ k = 0
    <2>1. Len(managers) + 1 \in Nat
      BY DEF IInv, Types
    <2>2. CASE /\ managers' = Append(managers, 0)
               /\ page' = [page EXCEPT ![p] = [@ EXCEPT !.pc = "acquiring",
                                                       !.made = Len(managers) + 1]]
      BY <2>1, <2>2
    <2>3. CASE /\ managers' = managers
               /\ page' = [page EXCEPT ![p] = [@ EXCEPT !.pc = "acquiring", !.made = 0]]
      BY <2>3
    <2>. QED  BY <2>2, <2>3 DEF ActivateIntegration
  <1> DEFINE s == [page[p] EXCEPT !.pc = "acquiring", !.made = k]
  <1>3. /\ page[p] \in PageState /\ page[p].made = 0 /\ page[p].pc \notin LockSteps
    BY <1>1, CalmFields, StepNames DEF IInv
  <1>4. s \in PageState /\ s.pc = "acquiring" /\ s.made = k
    BY <1>3, LockStepNames DEF PageState
  <1>5. page' = [page EXCEPT ![p] = s]
    BY <1>2
  <1> HIDE DEF s
  <1>6. /\ page'[p] = s /\ \A q \in Pages : q # p => page'[q] = page[q]
    BY <1>4, <1>5, PageMoves DEF IInv
  <1>7. Calm
    BY <1>1, KeptIsCalm
  <1>8. /\ managers \in Seq(Nat) /\ Len(managers) \in Nat
        /\ DOMAIN managers = 1 .. Len(managers)
    BY DEF IInv, Types
  <1>9. /\ managers' \in Seq(Nat) /\ Len(managers) <= Len(managers')
        /\ k \in 0 .. Len(managers')
    BY SMTT(40), <1>2, <1>8
  <1>10. Script(p)'
    BY <1>1, <1>4, <1>6, <1>9, LockStepNames DEF Script, CloseSteps
  <1>11. Registry'
    BY <1>1, <1>8, <1>9 DEF IInv, Registry
  <1>12. Places'
    <2>1. CASE managers' = managers /\ k = 0
      BY <1>3, <1>4, <1>6, <1>7, <2>1, CalmPlaces
    <2>2. CASE managers' = Append(managers, 0) /\ k = Len(managers) + 1
      <3>1. /\ DOMAIN managers' = DOMAIN managers \cup {k} /\ managers'[k] = 0
            /\ k \notin DOMAIN managers /\ k # 0
            /\ \A m \in DOMAIN managers : managers'[m] = managers[m] /\ m # k /\ m # 0
        BY <1>8, <2>2
      <3>2. ASSUME NEW m \in DOMAIN managers  PROVE Placed(m)'
        <4>1. Placed(m)
          BY DEF IInv, Places
        <4>2. Owners(m)' = Owners(m)
          BY <1>1 DEF Owners
        <4>3. Holders(m)' = Holders(m)
          BY <1>3, <1>4, <1>6, <3>1 DEF Holders
        <4>. QED  BY <1>1, <3>1, <4>1, <4>2, <4>3 DEF Placed
      <3>3. Placed(k)'
        <4>1. Owners(k)' = {}
          BY <1>1, <1>8, <2>2 DEF IInv, Registry, Owners
        <4>2. \A q \in Pages : page[q].made # k
          BY <1>8, <2>2 DEF IInv, Scripts, Script
        <4>3. Holders(k)' = {p}
          BY <1>4, <1>6, <4>2 DEF Holders
        <4>. QED  BY <3>1, <4>1, <4>3 DEF Placed
      <3>. QED  BY <3>1, <3>2, <3>3 DEF Places
    <2>. QED  BY <1>2, <2>1, <2>2
  <1>13. Grown /\ registered' \in [Calls -> Nat]
         /\ \A i \in DOMAIN resources :
               resources[i].manager = 0 => resources'[i].manager = 0
    BY <1>7 DEF Calm
  <1>. QED
    BY <1>1, <1>4, <1>5, <1>9, <1>10, <1>11, <1>12, <1>13, LockAdvances

\* A manager held by a script is no resource's, so the resource a call is
\* found to have is never taken for the one the manager was made for.
LEMMA HeldIsNotOwned ==
    ASSUME IInv, NEW p \in Pages, page[p].made \in DOMAIN managers
    PROVE  Owners(page[p].made) = {} /\ Holders(page[p].made) = {p}
           /\ managers[page[p].made] = 0
  <1>1. p \in Holders(page[p].made)
    BY DEF Holders
  <1>. QED  BY <1>1 DEF IInv, Places, Placed

LEMMA ActivateAcquireAdvances ==
    ASSUME IInv, NEW p \in Pages, ActivateAcquire(p)
    PROVE  Advances
  <1> DEFINE k == page[p].made
             call == CallOf(p)
  <1>1. /\ page[p].pc = "acquiring" /\ controller' = "free"
        /\ \/ /\ Acquirable(call, k) /\ Acquire(call, k)
              /\ page' = [page EXCEPT ![p] = [@ EXCEPT !.pc = "starting", !.key = call,
                              !.made = 0, !.resource = registered'[call]]]
              /\ managers' = managers
           \/ /\ managers' = Discarded(k)
              /\ page' = [page EXCEPT ![p] = NoLongerFresh(p)]
              /\ resources' = resources /\ registered' = registered
    BY DEF ActivateAcquire
  <1>2. /\ page[p] \in PageState /\ k \in Nat /\ controller = p
        /\ k \in 0 .. Len(managers)
    BY <1>1, LockFields, LockStepNames
  <1>3. call \in Calls
    BY CallOfType DEF IInv
  <1>4. /\ managers \in Seq(Nat) /\ Len(managers) \in Nat
        /\ DOMAIN managers = 1 .. Len(managers)
        /\ DOMAIN resources = 1 .. Len(resources) /\ Len(resources) \in Nat
    BY DEF IInv, Types
  <1> HIDE DEF call
  <1>5. CASE /\ Acquirable(call, k) /\ Acquire(call, k)
             /\ page' = [page EXCEPT ![p] = [@ EXCEPT !.pc = "starting", !.key = call,
                             !.made = 0, !.resource = registered'[call]]]
             /\ managers' = managers
    <2> DEFINE r == registered'[call]
               s == [page[p] EXCEPT !.pc = "starting", !.key = call, !.made = 0,
                                    !.resource = r]
    <2>1. /\ Grown /\ registered' \in [Calls -> Nat]
          /\ \A i \in DOMAIN resources : resources'[i].manager = resources[i].manager
          /\ r \in 1 .. Len(resources') /\ r \in Nat
          /\ Registry'
          /\ \/ k = 0 /\ Calm
             \/ /\ DOMAIN resources' = DOMAIN resources \cup {Len(resources) + 1}
                /\ Len(resources) + 1 \notin DOMAIN resources
                /\ resources'[Len(resources) + 1].manager = k
      <3>1. CASE Found(call)
        <4>1. resources' = resources /\ registered' = registered
          BY <1>5, <3>1 DEF Acquire
        <4>2. r \in DOMAIN resources /\ resources[r].manager = k
          BY <1>3, <1>5, <3>1, <4>1, FoundIsResource DEF IInv, Acquirable
        <4>3. k = 0
          <5>1. SUFFICES ASSUME k # 0  PROVE FALSE
            OBVIOUS
          <5>2. k \in DOMAIN managers
            BY <1>2, <1>4, <5>1
          <5>3. r \in Owners(k)
            BY <4>2 DEF Owners
          <5>. QED  BY <5>2, <5>3, HeldIsNotOwned
        <4>4. Calm /\ Registry'
          BY <1>5, <4>1, KeptIsCalm, CalmRegistry
        <4>5. r \in Nat /\ r \in 1 .. Len(resources')
          BY <1>4, <4>1, <4>2
        <4>. QED  BY <4>3, <4>4, <4>5 DEF Calm
      <3>2. CASE ~Found(call)
        <4>1. /\ registered[call] = 0
              /\ resources' = Append(resources, NewResource(call, k))
              /\ registered' = [registered EXCEPT ![call] = Len(resources) + 1]
          BY <1>5, <3>2 DEF Acquire, Found
        <4>2. Types /\ Runs /\ Registry
          BY DEF IInv
        <4>3. /\ Grown
              /\ registered' \in [Calls -> Nat]
              /\ \A d \in Calls : registered[d] # 0 => registered'[d] = registered[d]
              /\ \A d \in Calls : registered'[d] # 0 =>
                    registered'[d] \in DOMAIN resources'
                        /\ resources'[registered'[d]].call = d
              /\ \A i \in DOMAIN resources : resources'[i] = resources[i]
              /\ DOMAIN resources' = DOMAIN resources \cup {Len(resources) + 1}
              /\ Len(resources) + 1 \notin DOMAIN resources
              /\ registered'[call] = Len(resources) + 1
              /\ resources'[Len(resources) + 1].manager = k
              /\ resources'[Len(resources) + 1].call = call
          BY <1>2, <1>3, <4>1, <4>2, AddedGrows
        <4>4. r \in Nat /\ r \in 1 .. Len(resources')
          <5>1. Len(resources') \in Nat /\ DOMAIN resources' = 1 .. Len(resources')
            BY <4>3 DEF Grown
          <5>. QED  BY <1>4, <4>3, <5>1
        <4>5. ASSUME NEW i \in DOMAIN resources'
              PROVE  /\ resources'[i].manager \in 0 .. Len(managers')
                     /\ resources'[i].manager # 0 => registered'[resources'[i].call] = i
          <5>1. CASE i \in DOMAIN resources
            <6>1. /\ resources'[i] = resources[i] /\ i # 0
                  /\ resources[i].call \in Calls
              BY <1>4, <4>3, <5>1, ResourceFields DEF Resource
            <6>2. /\ resources[i].manager \in 0 .. Len(managers)
                  /\ resources[i].manager # 0 => registered[resources[i].call] = i
              BY <5>1 DEF IInv, Registry
            <6>. QED  BY <1>5, <4>3, <6>1, <6>2
          <5>2. CASE i = Len(resources) + 1
            BY <1>2, <1>5, <4>3, <5>2
          <5>. QED  BY <4>3, <5>1, <5>2
        <4>6. Registry'
          BY <4>3, <4>5 DEF Registry
        <4>. QED  BY <4>3, <4>4, <4>6
      <3>. QED  BY <3>1, <3>2
    <2>2. page' = [page EXCEPT ![p] = s]
      BY <1>5
    <2> HIDE DEF r
    <2>3. s \in PageState /\ s.pc = "starting" /\ s.made = 0 /\ s.resource = r
      BY <1>2, <1>3, <2>1, StepNames DEF PageState
    <2> HIDE DEF s
    <2>4. /\ page'[p] = s /\ \A q \in Pages : q # p => page'[q] = page[q]
      BY <2>2, <2>3, PageMoves DEF IInv
    <2>5. Script(p)'
      <3>1. r \in DOMAIN resources'
        BY <2>1 DEF Grown
      <3>2. 0 \in 0 .. Len(managers')
        BY <1>4, <1>5
      <3>3. "starting" \notin LockSteps \cup CloseSteps
                                 \cup {"acquiring", "releasing", "closing"}
        BY DEF LockSteps, CloseSteps
      <3>. QED  BY <2>3, <2>4, <3>1, <3>2, <3>3 DEF Script
    <2>6. Places'
      <3> SUFFICES ASSUME NEW m \in DOMAIN managers
                   PROVE  Placed(m)'
        BY <1>5 DEF Places
      <3>1. m # 0 /\ Placed(m)
        BY <1>4 DEF IInv, Places
      <3>2. CASE m # k
        <4>1. Holders(m)' = Holders(m)
          BY <2>3, <2>4, <3>1, <3>2 DEF Holders
        <4>2. Owners(m)' = Owners(m) /\ DOMAIN resources \subseteq DOMAIN resources'
          <5>1. CASE Calm
            BY <3>1, <5>1 DEF Calm, Grown, IInv, Types, Owners
          <5>2. CASE /\ DOMAIN resources' = DOMAIN resources \cup {Len(resources) + 1}
                     /\ resources'[Len(resources) + 1].manager = k
            BY <2>1, <3>2, <5>2 DEF Owners
          <5>. QED  BY <2>1, <5>1, <5>2
        <4>. QED  BY <1>5, <3>1, <4>1, <4>2 DEF Placed
      <3>3. CASE m = k
        <4>1. managers[m] = 0 /\ Holders(m) = {p} /\ Owners(m) = {}
          BY <3>3, HeldIsNotOwned
        <4>2. /\ DOMAIN resources' = DOMAIN resources \cup {Len(resources) + 1}
              /\ Len(resources) + 1 \notin DOMAIN resources
              /\ resources'[Len(resources) + 1].manager = k
          BY <2>1, <3>1, <3>3
        <4>3. Holders(m)' = {}
          BY <2>3, <2>4, <3>1, <4>1 DEF Holders
        <4>4. Owners(m)' = {Len(resources) + 1}
          BY <2>1, <3>3, <4>1, <4>2 DEF Owners
        <4>. QED  BY <1>5, <4>1, <4>2, <4>3, <4>4 DEF Placed
      <3>. QED  BY <3>2, <3>3
    <2>7. /\ managers' \in Seq(Nat) /\ Len(managers) <= Len(managers')
          /\ \A i \in DOMAIN resources :
                resources[i].manager = 0 => resources'[i].manager = 0
      BY <1>4, <1>5, <2>1
    <2>. QED
      BY <1>1, <1>2, <2>1, <2>2, <2>3, <2>5, <2>6, <2>7, LockAdvances
  <1>6. CASE /\ managers' = Discarded(k)
             /\ page' = [page EXCEPT ![p] = NoLongerFresh(p)]
             /\ resources' = resources /\ registered' = registered
    <2> DEFINE s == NoLongerFresh(p)
    <2>1. CalmScript(s, Len(resources))
      BY <1>4, NoLongerFreshIsCalm DEF IInv
    <2> HIDE DEF s
    <2>2. page' = [page EXCEPT ![p] = s] /\ s \in PageState
      BY <1>6, <2>1 DEF CalmScript, s
    <2>3. /\ page'[p] = s /\ \A q \in Pages : q # p => page'[q] = page[q]
      BY <2>2, PageMoves DEF IInv
    <2>4. Calm
      BY <1>6, KeptIsCalm
    <2>5. /\ managers' \in Seq(Nat) /\ Len(managers') = Len(managers)
          /\ Len(managers) <= Len(managers')
      <3>1. Types
        BY DEF IInv
      <3>2. Discarded(k) \in Seq(Nat) /\ Len(Discarded(k)) = Len(managers)
        BY <1>2, <3>1, DiscardedFields
      <3> HIDE DEF k
      <3>. QED  BY <1>4, <1>6, <3>2
    <2>6. Places'
      BY <1>2, <1>6, <2>1, <2>3, DiscardedPlaces DEF CalmScript
    <2>7. Registry'
      BY <1>6, <2>5 DEF IInv, Registry
    <2>8. Script(p)'
      BY <1>4, <1>6, <2>1, <2>3, <2>5, StepNames, LockStepNames DEF Script, CalmScript
    <2>9. Grown /\ registered' \in [Calls -> Nat]
          /\ \A i \in DOMAIN resources :
                resources[i].manager = 0 => resources'[i].manager = 0
      BY <2>4 DEF Calm
    <2>. QED
      BY <1>1, <1>2, <2>2, <2>5, <2>6, <2>7, <2>8, <2>9, LockAdvances
  <1>. QED  BY <1>1, <1>5, <1>6

-----------------------------------------------------------------------------
(* The specification *)

LEMMA Initially ==
    ASSUME Init
    PROVE  IInv
  <1>1. resources = <<>> /\ managers = <<>> /\ registered = [c \in Calls |-> 0]
    BY DEF Init
  <1>2. NewPage \in PageState
    BY Constants DEF NewPage, PageState, PageSteps, Calls, Named, NoCall
  <1>3. /\ NewPage.pc = "idle" /\ NewPage.made = 0
        /\ "idle" \notin LockSteps \cup ResourceSteps \cup CloseSteps
                            \cup {"acquiring", "releasing", "closing"}
    BY DEF NewPage, LockSteps, ResourceSteps, CloseSteps
  <1>4. page = [p \in Pages |-> NewPage]
    BY DEF Init
  <1>5. /\ page \in [Pages -> PageState] /\ \A p \in Pages : page[p] = NewPage
    BY <1>2, <1>4
  <1>6. Types
    BY <1>1, <1>5 DEF Types
  <1>7. DOMAIN resources = {} /\ DOMAIN managers = {} /\ Len(managers) = 0
    BY <1>1
  <1>8. Registry
    BY <1>1, <1>7 DEF Registry
  <1>9. Scripts
    BY <1>3, <1>5, <1>7 DEF Scripts, Script
  <1>. QED  BY <1>6, <1>7, <1>8, <1>9 DEF IInv, Runs, Places

LEMMA FilesAdvance ==
    ASSUME IInv, NEW p \in Pages, Files(p)
    PROVE  Advances
  BY UploadFileAdvances, ChangeSourceAdvances, PressStartAdvances, ActivateAdvances,
     ActivateIntegrationAdvances, ActivateAcquireAdvances, StartWorkerAdvances,
     PressStopAdvances, ResetAdvances DEF Files

LEMMA MicrophoneAdvances ==
    ASSUME IInv, NEW p \in Pages, Microphone(p)
    PROVE  Advances
  BY MicrophoneFindAdvances, MicrophoneAcquireAdvances, FindMicrophoneAdvances,
     AttachMicrophoneAdvances, MicrophoneResetAdvances, RestAdvances,
     ResetAdvances DEF Microphone

LEMMA CloseAdvances ==
    ASSUME IInv, NEW p \in Pages, Close(p)
    PROVE  Advances
  BY CloseBeginsAdvances, RestAdvances, CloseJoinsAdvances, CloseMarksAdvances,
     CloseReleasesAdvances DEF Close

LEMMA StepAdvances ==
    ASSUME IInv, [Next]_vars
    PROVE  Advances
  <1>1. ASSUME NEW r \in DOMAIN resources, Worker(r) \/ SessionCloses(r)
        PROVE  Advances
    BY <1>1, WorkerStepAdvances
  <1>2. ASSUME NEW p \in Pages, Files(p) \/ Microphone(p) \/ Close(p)  PROVE Advances
    BY <1>2, FilesAdvance, MicrophoneAdvances, CloseAdvances
  <1>3. CASE UNCHANGED vars
    <2>1. Grown
      BY <1>3, KeptGrows DEF IInv, vars
    <2>2. Types' /\ Runs'
      BY <1>3 DEF IInv, vars, Types, Runs
    <2>3. Registry'
      BY <1>3 DEF IInv, vars, Registry
    <2>4. Scripts'
      BY <1>3 DEF IInv, vars, Scripts, Script
    <2>5. \A m \in DOMAIN managers : Placed(m) <=> Placed(m)'
      <3>1. \A m : Holders(m)' = Holders(m) /\ Owners(m)' = Owners(m)
        BY <1>3 DEF vars, Holders, Owners
      <3>. QED  BY <1>3, <3>1 DEF vars, Placed
    <2>6. Places'
      BY <1>3, <2>5 DEF IInv, vars, Places
    <2>. QED  BY <2>1, <2>2, <2>3, <2>4, <2>6 DEF Advances, IInv
  <1>. QED  BY <1>1, <1>2, <1>3 DEF Next

\* The inductive invariant holds in every state.
THEOREM Inductive == Spec => []IInv
  <1>1. Init => IInv
    BY Initially
  <1>2. IInv /\ [Next]_vars => IInv'
    BY StepAdvances DEF Advances
  <1>. QED  BY <1>1, <1>2, PTL DEF Spec

LEMMA EndsFollow ==
    ASSUME IInv
    PROVE  RunsEndInASnapshot
  <1> SUFFICES ASSUME NEW r \in DOMAIN resources,
                      resources[r].run \in {"ended", "recovered"}
               PROVE  LET res == resources[r] IN
                      /\ res.terminal.status \in Ends /\ res.latest = res.terminal
                      /\ \/ res.terminal.chunks = res.chunks
                         \/ res.run = "recovered" /\ res.terminal.chunks = res.chunks - 1
    BY DEF RunsEndInASnapshot
  <1>1. resources[r] \in Resource /\ Run(resources[r])
    BY DEF IInv, Types, Runs
  <1>2. resources[r].latest.chunks \in Nat /\ resources[r].chunks \in Nat
    BY <1>1 DEF Resource, Snapshots
  <1>. QED  BY <1>1, <1>2 DEF Run, Behind

\* A run that is over, however it ended (completed, cancelled, failed, its own
\* handler raising), has published a final snapshot.  It covers every chunk the
\* run applied to the call, unless the handler raised as well: then the one
\* chunk counted and not yet shown may be missing, and never another.  For any
\* number of pages, calls and runs.
THEOREM RunsEnd == Spec => []RunsEndInASnapshot
  BY Inductive, EndsFollow, PTL

LEMMA ReleasesFollow ==
    ASSUME IInv
    PROVE  ManagersAreReleased
  <1> SUFFICES ASSUME NEW m \in DOMAIN managers
               PROVE  /\ managers[m] + Cardinality(Holders(m)) + Cardinality(Owners(m)) = 1
                      /\ \A r \in Owners(m) : registered[resources[r].call] = r
    BY DEF ManagersAreReleased, Holders, Owners
  <1>1. Placed(m) /\ m # 0
    BY DEF IInv, Places, Types
  <1>2. managers[m] + Cardinality(Holders(m)) + Cardinality(Owners(m)) = 1
    <2>1. Cardinality({}) = 0
      BY FS_EmptySet
    <2>2. \A x : Cardinality({x}) = 1
      BY FS_Singleton
    <2>3. CASE managers[m] = 1 /\ Holders(m) = {} /\ Owners(m) = {}
      BY <2>1, <2>3
    <2>4. CASE managers[m] = 0 /\ (\E p \in Pages : Holders(m) = {p}) /\ Owners(m) = {}
      <3>1. Cardinality(Holders(m)) = 1 /\ Cardinality(Owners(m)) = 0
        BY <2>1, <2>2, <2>4
      <3>. QED  BY <2>4, <3>1
    <2>5. CASE /\ managers[m] = 0 /\ Holders(m) = {}
               /\ \E r \in DOMAIN resources : Owners(m) = {r}
      <3>1. Cardinality(Holders(m)) = 0 /\ Cardinality(Owners(m)) = 1
        BY <2>1, <2>2, <2>5
      <3>. QED  BY <2>5, <3>1
    <2>. QED  BY <1>1, <2>3, <2>4, <2>5 DEF Placed
  <1>3. \A r \in Owners(m) : registered[resources[r].call] = r
    BY <1>1 DEF IInv, Registry, Owners
  <1>. QED  BY <1>2, <1>3

\* A RAG manager that was started is in one script's hands, or with one open
\* resource that the registry still finds, or was closed, once.
THEOREM ManagersReleased == Spec => []ManagersAreReleased
  BY Inductive, ReleasesFollow, PTL

\* What a page polls never goes back, whichever page starts, stops or closes
\* the run meanwhile, and nothing follows a final snapshot.
THEOREM SnapshotsAdvance == Spec => SnapshotsOnlyAdvance
  <1> DEFINE A == \A r \in DOMAIN resources : LET before == resources[r].latest IN
                      before # NoSnapshot /\ resources'[r].latest # before =>
                          /\ before.status \notin Ends
                          /\ resources'[r].latest.revision > before.revision
                          /\ resources'[r].latest.chunks >= before.chunks
  <1>1. IInv /\ [Next]_vars => A
    BY StepAdvances DEF Advances, Grown, Advance
  <1>. QED  BY <1>1, Inductive, PTL DEF Spec, SnapshotsOnlyAdvance

=============================================================================
