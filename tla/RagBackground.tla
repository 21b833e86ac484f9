----------------------------- MODULE RagBackground -----------------------------
(***************************************************************************)
(* BoundedPostgreSQLRAGManager (app/composition/postgres_rag_background):  *)
(* bounded background execution of retrieval and generation requests, one  *)
(* per (tenant, call) scope and transcript revision, of which only those   *)
(* of the newest revision may still be delivered.                          *)
(*                                                                         *)
(* Several threads use one manager.  A critical section of its lock is one *)
(* step; what the code does after releasing the lock (preparing the        *)
(* runner, cancelling futures, running a done callback) interleaves with   *)
(* the sections of the other threads.  The thread pool is external: a      *)
(* queued future is picked up or cancelled, a running one returns, and its *)
(* callback runs some time later, on whichever thread gets to it.          *)
(***************************************************************************)
EXTENDS Integers, FiniteSets

CONSTANTS
    Scopes,         \* (tenant_id, call_id) pairs
    MaxRevision,    \* bound on the transcript revisions
    Callers,        \* threads that call start()
    MaxWorkers,     \* max_workers
    Capacity        \* capacity

ASSUME ManagerAssumption == /\ MaxRevision \in Nat
                            /\ MaxWorkers \in Nat \ {0}
                            /\ Capacity \in Nat \ {0}
                            /\ MaxWorkers <= Capacity

Revisions == 0 .. MaxRevision
Unannounced == -1
Requests == Scopes \X Revisions     \* RAGOrchestrationIdentity

VARIABLES
    caller,         \* where each thread is in start()
    attempt,        \* _start_attempt
    executor,       \* _executor
    closed,         \* _closed
    revision,       \* _current_revisions
    submitted,      \* _submitted_identities
    registered,     \* identities in _futures
    completions,    \* identities in _completions
    reservations,   \* _reservations
    future,         \* state of each request's future
    toCancel,       \* futures collected under the lock, still to be cancelled
    answer,         \* how the last call returned
    runs,           \* history: times the runner was started for a request
    delivered       \* history: times a completion was handed out

starting == <<caller, attempt, executor>>
books == <<revision, submitted, registered, completions, reservations>>
history == <<runs, delivered>>
vars == <<starting, closed, books, future, toCancel, answer, history>>

CallerSteps == {"outside", "preparing", "clearing", "waiting", "started",
                "raised"}
FutureStates == {"none", "queued", "running", "returned", "cancelled",
                 "settled"}
Answers == {"none", "accepted", "duplicate", "stale", "capacity_rejected",
            "not_started", "closed", "announced", "raised", "completion",
            "nothing"}

Current(r) == revision[r[1]] = r[2]

Init ==
    /\ caller = [c \in Callers |-> "outside"]
    /\ attempt = "none"
    /\ executor = "none"
    /\ closed = FALSE
    /\ revision = [s \in Scopes |-> Unannounced]
    /\ submitted = {}
    /\ registered = {}
    /\ completions = {}
    /\ reservations = 0
    /\ future = [r \in Requests |-> "none"]
    /\ toCancel = {}
    /\ answer = "none"
    /\ runs = [r \in Requests |-> 0]
    /\ delivered = [r \in Requests |-> 0]

-----------------------------------------------------------------------------
(* start(): one thread leads the attempt, the others wait for its verdict *)

\* attempt.finished is set: every follower gets the leader's verdict.
Verdict(leader, result) ==
    caller' = [c \in Callers |->
                  IF c = leader \/ caller[c] = "waiting" THEN result
                                                         ELSE caller[c]]

EnterStart(c) ==
    /\ caller[c] \in {"outside", "started", "raised"}
    /\ \/ /\ closed
          /\ caller' = [caller EXCEPT ![c] = "raised"]
          /\ attempt' = attempt
       \/ /\ ~closed /\ executor = "open"
          /\ caller' = [caller EXCEPT ![c] = "started"]
          /\ attempt' = attempt
       \/ /\ ~closed /\ executor = "none" /\ attempt = "none"
          /\ caller' = [caller EXCEPT ![c] = "preparing"]
          /\ attempt' = "running"
       \/ /\ ~closed /\ executor = "none" /\ attempt = "running"
          /\ caller' = [caller EXCEPT ![c] = "waiting"]
          /\ attempt' = attempt
       \/ /\ ~closed /\ executor = "none" /\ attempt = "failed"
          /\ caller' = [caller EXCEPT ![c] = "raised"]
          /\ attempt' = attempt
    /\ UNCHANGED <<executor, closed, books, future, toCancel, answer, history>>

\* prepare() or the creation of the pool raises: the followers are told first,
\* the attempt is taken away in a section of its own.
PrepareFails(c) ==
    /\ caller[c] = "preparing"
    /\ attempt' = "failed"
    /\ caller' = [d \in Callers |-> CASE d = c -> "clearing"
                                      [] d # c /\ caller[d] = "waiting" -> "raised"
                                      [] d # c /\ caller[d] # "waiting" -> caller[d]]
    /\ UNCHANGED <<executor, closed, books, future, toCancel, answer, history>>

ClearAttempt(c) ==
    /\ caller[c] = "clearing"
    /\ attempt' = "none"
    /\ caller' = [caller EXCEPT ![c] = "raised"]
    /\ UNCHANGED <<executor, closed, books, future, toCancel, answer, history>>

\* Mutant of FinishStart: the manager was closed meanwhile, unnoticed.
FinishUnchecked(c) ==
    /\ caller[c] = "preparing"
    /\ executor' = "open"
    /\ Verdict(c, "started")
    /\ attempt' = "none"
    /\ UNCHANGED <<closed, books, future, toCancel, answer, history>>

\* Mutant of FinishStart: the attempt is dropped without setting finished.
FinishSilently(c) ==
    /\ caller[c] = "preparing"
    /\ executor' = IF closed THEN executor ELSE "open"
    /\ caller' = [caller EXCEPT ![c] = IF closed THEN "raised" ELSE "started"]
    /\ attempt' = "none"
    /\ UNCHANGED <<closed, books, future, toCancel, answer, history>>

\* The pool is ready: it is installed, or shut down if the manager was closed.
FinishStart(c) ==
    /\ caller[c] = "preparing"
    /\ \/ closed /\ Verdict(c, "raised") /\ executor' = executor
       \/ ~closed /\ Verdict(c, "started") /\ executor' = "open"
    /\ attempt' = "none"
    /\ UNCHANGED <<closed, books, future, toCancel, answer, history>>

-----------------------------------------------------------------------------
(* announce_current_revision, submit, poll, close *)

\* Mutant of Supersede: what is still queued or running is left alone.
SupersedeQuietly(s, rev) ==
    LET stale == {r \in Requests : r[1] = s /\ r[2] < rev}
    IN  /\ revision' = [revision EXCEPT ![s] = rev]
        /\ completions' = completions \ stale
        /\ reservations' = reservations - Cardinality(completions \cap stale)
        /\ submitted' = submitted \ stale
        /\ toCancel' = toCancel

\* The older requests of the scope are dropped, or collected to be cancelled.
\* A scope announced for the first time has none.
Supersede(s, rev) ==
    LET stale == {r \in Requests : r[1] = s /\ r[2] < rev}
    IN  /\ revision' = [revision EXCEPT ![s] = rev]
        /\ completions' = completions \ stale
        /\ reservations' = reservations - Cardinality(completions \cap stale)
        /\ submitted' = submitted \ stale
        /\ toCancel' = toCancel \cup (registered \cap stale)

Announce(s, rev) ==
    /\ \/ /\ ~closed /\ rev > revision[s]
          /\ Supersede(s, rev)
          /\ answer' = "announced"
       \/ /\ ~closed /\ rev = revision[s]
          /\ answer' = "announced"
          /\ UNCHANGED <<revision, completions, reservations, submitted, toCancel>>
       \/ /\ closed \/ rev < revision[s]
          /\ answer' = "raised"
          /\ UNCHANGED <<revision, completions, reservations, submitted, toCancel>>
    /\ UNCHANGED <<starting, closed, registered, future, history>>

SubmitReason(r) ==
    CASE closed                                          -> "closed"
      [] ~closed /\ executor = "none"                    -> "not_started"
      [] ~closed /\ executor = "open" /\ ~Current(r)     -> "stale"
      [] ~closed /\ executor = "open" /\ Current(r)
                 /\ r \in submitted                      -> "duplicate"
      [] ~closed /\ executor = "open" /\ Current(r)
                 /\ r \notin submitted
                 /\ reservations >= Capacity             -> "capacity_rejected"
      [] ~closed /\ executor = "open" /\ Current(r)
                 /\ r \notin submitted
                 /\ reservations < Capacity              -> "accepted"

\* Mutant of Submit: reserved once the pool has taken it, released either way.
SubmitReservingLate(r) ==
    /\ \/ /\ SubmitReason(r) = "accepted"
          /\ answer' = "accepted"
          /\ reservations' = reservations + 1
          /\ submitted' = submitted \cup {r}
          /\ registered' = registered \cup {r}
          /\ future' = [future EXCEPT ![r] = "queued"]
       \/ /\ SubmitReason(r) = "accepted"
          /\ answer' = "raised"
          /\ reservations' = reservations - 1
          /\ UNCHANGED <<submitted, registered, future>>
    /\ UNCHANGED <<starting, closed, revision, completions, toCancel, history>>

\* The pool may refuse an accepted request: the reservation is rolled back.
Submit(r) ==
    /\ \/ /\ SubmitReason(r) = "accepted"
          /\ answer' = "accepted"
          /\ reservations' = reservations + 1
          /\ submitted' = submitted \cup {r}
          /\ registered' = registered \cup {r}
          /\ future' = [future EXCEPT ![r] = "queued"]
       \/ /\ answer' = IF SubmitReason(r) = "accepted" THEN "raised"
                                                      ELSE SubmitReason(r)
          /\ UNCHANGED <<reservations, submitted, registered, future>>
    /\ UNCHANGED <<starting, closed, revision, completions, toCancel, history>>

\* Mutant of Poll: a delivered request may be submitted again.
PollAndForget(r) ==
    /\ IF ~closed /\ Current(r) /\ r \in completions
       THEN /\ completions' = completions \ {r}
            /\ submitted' = submitted \ {r}
            /\ reservations' = reservations - 1
            /\ delivered' = [delivered EXCEPT ![r] = @ + 1]
            /\ answer' = "completion"
       ELSE /\ answer' = "nothing"
            /\ UNCHANGED <<completions, submitted, reservations, delivered>>
    /\ UNCHANGED <<starting, closed, revision, registered, future, toCancel, runs>>

Poll(r) ==
    /\ IF ~closed /\ Current(r) /\ r \in completions
       THEN /\ completions' = completions \ {r}
            /\ reservations' = reservations - 1
            /\ delivered' = [delivered EXCEPT ![r] = @ + 1]
            /\ answer' = "completion"
       ELSE /\ answer' = "nothing"
            /\ UNCHANGED <<completions, reservations, delivered>>
    /\ UNCHANGED <<starting, closed, revision, submitted, registered, future,
                   toCancel, runs>>

Close ==
    /\ ~closed
    /\ closed' = TRUE
    /\ executor' = "none"
    /\ toCancel' = toCancel \cup registered
    /\ registered' = {}
    /\ completions' = {}
    /\ submitted' = {}
    /\ revision' = [s \in Scopes |-> Unannounced]
    /\ reservations' = 0
    /\ UNCHANGED <<caller, attempt, future, answer, history>>

-----------------------------------------------------------------------------
(* The pool and the callbacks *)

\* future.cancel(): only a future that no worker has picked up is cancelled.
CancelFuture(r) ==
    /\ r \in toCancel
    /\ toCancel' = toCancel \ {r}
    /\ future' = [future EXCEPT ![r] = IF @ = "queued" THEN "cancelled" ELSE @]
    /\ UNCHANGED <<starting, closed, books, answer, history>>

RunStarts(r) ==
    /\ future[r] = "queued"
    /\ Cardinality({q \in Requests : future[q] = "running"}) < MaxWorkers
    /\ future' = [future EXCEPT ![r] = "running"]
    /\ runs' = [runs EXCEPT ![r] = @ + 1]
    /\ UNCHANGED <<starting, closed, books, toCancel, answer, delivered>>

\* A result, nothing, or an Exception: each of them becomes a completion.
RunReturns(r) ==
    /\ future[r] = "running"
    /\ future' = [future EXCEPT ![r] = "returned"]
    /\ UNCHANGED <<starting, closed, books, toCancel, answer, history>>

\* Mutant of Complete: a superseded result keeps its reservation.
CompleteLeaking(r) ==
    /\ future[r] \in {"returned", "cancelled"}
    /\ registered' = registered \ {r}
    /\ completions' = IF ~closed /\ future[r] = "returned" /\ Current(r)
                      THEN completions \cup {r} ELSE completions
    /\ reservations' = IF ~closed /\ future[r] = "cancelled"
                       THEN reservations - 1 ELSE reservations
    /\ future' = [future EXCEPT ![r] = "settled"]
    /\ UNCHANGED <<starting, closed, revision, submitted, toCancel, answer,
                   history>>

\* Mutant of Complete: a cancelled future has no callback.
CompleteReturned(r) ==
    /\ future[r] = "returned"
    /\ IF closed
       THEN UNCHANGED <<registered, completions, reservations>>
       ELSE /\ registered' = registered \ {r}
            /\ IF Current(r)
               THEN completions' = completions \cup {r} /\ reservations' = reservations
               ELSE completions' = completions /\ reservations' = reservations - 1
    /\ future' = [future EXCEPT ![r] = "settled"]
    /\ UNCHANGED <<starting, closed, revision, submitted, toCancel, answer,
                   history>>

\* _complete, the done callback: kept for poll() only while still current.
Complete(r) ==
    /\ future[r] \in {"returned", "cancelled"}
    /\ IF closed
       THEN UNCHANGED <<registered, completions, reservations>>
       ELSE /\ registered' = registered \ {r}
            /\ IF future[r] = "cancelled" \/ ~Current(r)
               THEN completions' = completions /\ reservations' = reservations - 1
               ELSE completions' = completions \cup {r} /\ reservations' = reservations
    /\ future' = [future EXCEPT ![r] = "settled"]
    /\ UNCHANGED <<starting, closed, revision, submitted, toCancel, answer,
                   history>>

-----------------------------------------------------------------------------

StartStep(c) == PrepareFails(c) \/ ClearAttempt(c) \/ FinishStart(c)

FutureStep(r) == CancelFuture(r) \/ RunStarts(r) \/ RunReturns(r) \/ Complete(r)

Next == \/ \E c \in Callers : EnterStart(c) \/ StartStep(c)
        \/ \E s \in Scopes, rev \in Revisions : Announce(s, rev)
        \/ \E r \in Requests : Submit(r) \/ Poll(r)
        \/ Close
        \/ \E r \in Requests : FutureStep(r)

\* A thread inside start() goes on, the pool works off its queue, the runner
\* returns and callbacks are run; nobody has to submit, poll or close.
Spec == /\ Init /\ [][Next]_vars
        /\ \A c \in Callers : WF_vars(StartStep(c))
        /\ \A r \in Requests : WF_vars(FutureStep(r))

-----------------------------------------------------------------------------
(* Properties *)

\* Type correctness.
TypeOK ==
    /\ caller \in [Callers -> CallerSteps]
    /\ attempt \in {"none", "running", "failed"}
    /\ executor \in {"none", "open"}
    /\ closed \in BOOLEAN
    /\ revision \in [Scopes -> Revisions \cup {Unannounced}]
    /\ submitted \subseteq Requests
    /\ registered \subseteq Requests
    /\ completions \subseteq Requests
    /\ reservations \in Nat
    /\ future \in [Requests -> FutureStates]
    /\ toCancel \subseteq Requests
    /\ answer \in Answers
    /\ runs \in [Requests -> Nat]
    /\ delivered \in [Requests -> Nat]

\* The counter is what the books say: one reservation per future without a
\* callback and per completion nobody polled, never more than the capacity.
\* Supersession, cancellation and late results neither leak one nor release
\* one twice ("background manager capacity invariant failed").
ReservationsMatch ==
    /\ reservations = Cardinality(registered) + Cardinality(completions)
    /\ registered \cap completions = {}
    /\ reservations <= Capacity

\* Whatever is kept for poll() is of its scope's newest revision, so it can be
\* delivered; what was superseded while queued is on its way to be cancelled.
OnlyCurrentIsKept ==
    /\ \A r \in completions \cup submitted : Current(r)
    /\ \A r \in registered \ submitted :
          future[r] = "queued" => r \in toCancel

\* No request is run or delivered twice, however often it is submitted,
\* cancelled and superseded.
AtMostOnce == \A r \in Requests : runs[r] <= 1 /\ delivered[r] <= runs[r]

\* A closed manager holds nothing, even if start() or callbacks come late.
ClosedHoldsNothing ==
    closed => /\ executor = "none"
              /\ submitted = {} /\ registered = {} /\ completions = {}
              /\ reservations = 0

\* One thread at most leads a start attempt, followers wait only while it does.
StartIsLed ==
    /\ \A c, d \in Callers : caller[c] \in {"preparing", "clearing"}
                             /\ caller[d] \in {"preparing", "clearing"} => c = d
    /\ attempt = "running" <=> \E c \in Callers : caller[c] = "preparing"
    /\ \A c \in Callers : caller[c] = "waiting" => attempt = "running"

\* Nobody waits for ever: every accepted request settles, cancelled or not,
\* closed or not, and start() returns in every thread that entered it.
NothingWaitsForever ==
    /\ \A r \in Requests : future[r] = "queued" ~> future[r] = "settled"
    /\ \A c \in Callers : caller[c] = "waiting" ~> caller[c] # "waiting"

=============================================================================
