-------------------------- MODULE ServiceControllers --------------------------
(* The scripts that start a service in Docker, use it or keep it for a while,  *)
(* and promise to leave the host as they found it:                             *)
(*   tls_service   scripts/run_postgres_tls_service.py                         *)
(*   vllm_service  scripts/run_vllm_e2e_service.py                             *)
(*   tls_smoke     scripts/run_postgres_tls_smoke.py                           *)
(*   vllm_smoke    scripts/run_vllm_loopback_smoke.py                          *)
(*   integration   scripts/run_postgres_integration.py                         *)
(*                                                                             *)
(* A run executes the steps of its script's try block in order; the first one  *)
(* that fails sends it to the finalisers, which go on whatever fails among     *)
(* them. Every command may fail after any part of its work, a service may die, *)
(* and a run may be killed. Several runs share one Docker host and one GPU.    *)
EXTENDS Naturals, Sequences, FiniteSets

CONSTANTS Runs,           \* invocations; each draws a fresh project name
          Pairings        \* which script each run executes, or "absent"

Kinds == {"tls_service", "vllm_service", "tls_smoke", "vllm_smoke", "integration"}

ASSUME PairingsAssumption == Pairings \subseteq [Runs -> Kinds \cup {"absent"}]

VARIABLES
    kind,        \* which script a run executes
    pc,          \* "steps", a finaliser, or "done"
    at,          \* the step a run is at, or failed at
    before,      \* what it saw of the host before it started anything
    handlers,    \* its signal handlers are installed
    tls,         \* its temporary certificate directory exists
    handoff,     \* its hand-off directory: "none", "partial" or "ready"
    primary, cleanup, protected, restored,   \* the errors it keeps apart
    exit,        \* how the process ended: "ok", "failed" or "killed"
    docker,      \* the resources on the host: <<run, resource>>
    serving      \* runs whose service is up

files == <<tls, handoff>>
errors == <<primary, cleanup, protected, restored>>
host == <<docker, serving>>
vars == <<kind, pc, at, before, handlers, tls, handoff, primary, cleanup,
          protected, restored, exit, docker, serving>>

-----------------------------------------------------------------------------
(* The scripts. A step names what it does to the host and the phase codes it   *)
(* may fail with; checks that touch nothing and follow each other are one step.*)
Step(op, phases) == [op |-> op, phases |-> phases]

Both(a, b) == Step("check", a.phases \cup b.phases)

\* The PostgreSQL controller.
ValidRepository == Step("check", {"E_REPOSITORY"})
DockerPreflight == Step("check", {"E_PREFLIGHT"})
ResourceSnapshot == Step("snapshot", {"E_PROTECTED_RESOURCES"})
PrivateRoot == Step("check", {"E_HANDOFF"})
ComposeConfig == Step("check", {"E_PREFLIGHT"})
GenerateCertificates == Step("certificates", {"E_TLS"})
ValidateCertificates == Step("probe", {"E_TLS"})
WaitUntilHealthy == Step("healthy", {"E_READINESS"})
PublishedPort == Step("check", {"E_READINESS"})
MigrationProof == Step("check", {"E_MIGRATION"})

TlsService ==
    << Both(ValidRepository, DockerPreflight), ResourceSnapshot, PrivateRoot,
       Step("handlers", {"E_PREFLIGHT"}), Step("tempdir", {"E_PREFLIGHT"}),
       ComposeConfig, GenerateCertificates, ValidateCertificates,
       Step("up", {"E_STARTUP"}), WaitUntilHealthy, Both(PublishedPort, MigrationProof),
       Step("handoff", {"E_HANDOFF"}), Step("wait", {"E_READINESS"}) >>

\* The vLLM controller.
VllmRepository == Step("check", {"E_REPOSITORY"})
RuntimeContract == Step("check", {"E_RUNTIME_CONTRACT"})
GpuModel == Step("check", {"E_GPU"})
GpuIdle == Step("idle", {"E_GPU"})
CacheAndDisk == Step("check", {"E_CACHE_METADATA", "E_DISK_CAPACITY"})
PortFree == Step("port", {"E_RUNTIME_CONTRACT"})
PrivateDirectory == Step("check", {"E_TLS"})
ProtectedContainers == Step("snapshot", {"E_PROTECTED_CONTAINERS"})
ImageMetadata == Step("check", {"E_IMAGE_METADATA"})
ModelMetadata == Step("check", {"E_MODEL_METADATA"})
OpensslCertificates == Step("check", {"E_TLS"})
VllmHandoff == Step("handoff", {"E_TLS"})
ConfigAndPull == Step("check", {"E_RUNTIME_CONTRACT", "E_IMAGE_METADATA"})
WaitForReady == Step("healthy", {"E_TLS", "E_READINESS"})
GpuActive == Step("healthy", {"E_GPU_ACTIVITY"})

VllmService ==
    << Both(Both(VllmRepository, RuntimeContract), GpuModel), GpuIdle, CacheAndDisk,
       PortFree, PrivateDirectory, ProtectedContainers,
       Both(ImageMetadata, ModelMetadata), Step("handlers", {"E_RUNTIME_CONTRACT"}),
       Step("tempdir", {"E_CLEANUP"}), OpensslCertificates, VllmHandoff, ConfigAndPull,
       Step("up", {"E_STARTUP"}), WaitForReady, GpuActive,
       Step("wait", {"E_RUNTIME_CONTRACT"}) >>

\* The smoke scripts print one fixed failure.
Smoke(op) == Step(op, {"failed"})
TlsProof == Smoke("check")
VllmApiProof == Smoke("check")
IntegrationHealthy == Smoke("healthy")

TlsSmoke ==
    << Smoke("check"), Smoke("tempdir"), Smoke("check"), Smoke("certificates"),
       Smoke("check"), Smoke("up"), Smoke("healthy"), TlsProof >>

VllmSmoke ==
    << Smoke("check"), Smoke("port"), Smoke("snapshot"), Smoke("check"),
       Smoke("tempdir"), Smoke("check"), Smoke("check"), Smoke("up"),
       Smoke("healthy"), VllmApiProof >>

Integration ==
    << Smoke("check"), Smoke("check"), Smoke("up"), IntegrationHealthy, Smoke("check") >>

Program == [tls_service |-> TlsService, vllm_service |-> VllmService,
            tls_smoke |-> TlsSmoke, vllm_smoke |-> VllmSmoke,
            integration |-> Integration]

\* The first step of each try block: a failure before it just ends the run.
TryFrom == [tls_service |-> 6, vllm_service |-> 10, tls_smoke |-> 3,
            vllm_smoke |-> 6, integration |-> 2]

\* Mutant: resource_creation_attempted is set after the certificates.
LateDownFrom == [tls_service |-> 8, vllm_service |-> 13, tls_smoke |-> 3,
                 vllm_smoke |-> 7, integration |-> 2]

\* The step from which "docker compose down" is due (resource_creation_attempted,
\* startup_attempted, environment is not None, or the whole try block).
DownFrom == [tls_service |-> 7, vllm_service |-> 13, tls_smoke |-> 3,
             vllm_smoke |-> 7, integration |-> 2]

\* The finally blocks and what follows them, in order.
Finalisers ==
    [tls_service |-> <<"down", "remove", "leave", "compare", "restore", "report">>,
     vllm_service |-> <<"down", "quiet", "remove", "leave", "compare", "restore",
                        "report">>,
     tls_smoke |-> <<"down", "verify", "leave", "report">>,
     vllm_smoke |-> <<"down", "compare", "leave", "report">>,
     integration |-> <<"logs", "down", "report">>]

Services == {"tls_service", "vllm_service"}
Vllm == {"vllm_service", "vllm_smoke"}

After(c, stage) ==
    LET order == Finalisers[kind[c]]
        i == CHOOSE j \in 1..Len(order) : order[j] = stage
    IN  order[i + 1]

-----------------------------------------------------------------------------
(* The host.                                                                   *)
Named(c, names) == {<<c, n>> : n \in names}
Project(c) == docker \cap Named(c, {"network", "volume", "container", "certificates"})
GpuUsed == \E d \in serving : kind[d] \in Vllm
Parts(c) == IF kind[c] \in Vllm THEN <<"network", "container">>
            ELSE <<"network", "volume", "container">>

\* What the PostgreSQL controller compares afterwards: every resource id on the
\* host. The protected containers of the vLLM scripts belong to others; whether
\* they have changed is left open.
Observed(c) == IF kind[c] = "tls_service" THEN docker ELSE {}

Init == /\ kind \in Pairings
        /\ pc = [c \in Runs |-> IF kind[c] = "absent" THEN "done" ELSE "steps"]
        /\ at = [c \in Runs |-> 1]
        /\ before = [c \in Runs |-> {}]
        /\ handlers = [c \in Runs |-> FALSE] /\ tls = [c \in Runs |-> FALSE]
        /\ handoff = [c \in Runs |-> "none"]
        /\ primary = [c \in Runs |-> "none"] /\ cleanup = [c \in Runs |-> "none"]
        /\ protected = [c \in Runs |-> "none"] /\ restored = [c \in Runs |-> "none"]
        /\ exit = [c \in Runs |-> "none"]
        /\ docker = {} /\ serving = {}

-----------------------------------------------------------------------------
(* The steps.                                                                  *)
This(c) == Program[kind[c]][at[c]]
\* What the process knew is gone when it ends.
Ends(c, status) ==
    /\ pc' = [pc EXCEPT ![c] = "done"] /\ exit' = [exit EXCEPT ![c] = status]
    /\ at' = [at EXCEPT ![c] = 1]
    /\ before' = [before EXCEPT ![c] = {}]
    /\ primary' = [primary EXCEPT ![c] = "none"]
    /\ cleanup' = [cleanup EXCEPT ![c] = "none"]
    /\ protected' = [protected EXCEPT ![c] = "none"]
    /\ restored' = [restored EXCEPT ![c] = "none"]

AtStep(c, op) == pc[c] = "steps" /\ This(c).op = op

Advance(c) ==
    IF at[c] < Len(Program[kind[c]])
    THEN at' = [at EXCEPT ![c] = @ + 1] /\ UNCHANGED pc
    ELSE pc' = [pc EXCEPT ![c] = "down"] /\ UNCHANGED at

Check(c) == /\ AtStep(c, "check")
            /\ Advance(c)
            /\ UNCHANGED <<kind, before, handlers, exit, files, errors, host>>

TakeSnapshot(c) == /\ AtStep(c, "snapshot")
                   /\ before' = [before EXCEPT ![c] = Observed(c)]
                   /\ Advance(c)
                   /\ UNCHANGED <<kind, handlers, exit, files, errors, host>>

\* --preflight-only ends the PostgreSQL controller after its snapshot.
PreflightOnly(c) == /\ kind[c] = "tls_service" /\ pc[c] = "steps" /\ at[c] = 3
                    /\ Ends(c, "ok")
                    /\ UNCHANGED <<kind, handlers, files, host>>

InstallHandlers(c) == /\ AtStep(c, "handlers")
                      /\ handlers' = [handlers EXCEPT ![c] = TRUE]
                      /\ Advance(c)
                      /\ UNCHANGED <<kind, before, exit, files, errors, host>>

MakeTempdir(c) == /\ AtStep(c, "tempdir")
                  /\ tls' = [tls EXCEPT ![c] = TRUE]
                  /\ Advance(c)
                  /\ UNCHANGED <<kind, before, handlers, exit, handoff, errors, host>>

\* _validate_port_free and _validate_gpu_idle: the port is free, the GPU unused.
NothingServes(c) == /\ AtStep(c, "port") \/ AtStep(c, "idle")
                    /\ ~GpuUsed
                    /\ Advance(c)
                    /\ UNCHANGED <<kind, before, handlers, exit, files, errors, host>>

\* "compose run --rm certificate-init" and "docker run --rm": nothing remains.
RunOneOff(c) == /\ AtStep(c, "certificates") \/ AtStep(c, "probe")
                /\ Advance(c)
                /\ UNCHANGED <<kind, before, handlers, exit, files, errors, host>>

\* The second model server cannot have the port the first one publishes.
Up(c) == /\ AtStep(c, "up")
         /\ kind[c] \in Vllm => ~GpuUsed
         /\ docker' = docker \cup {<<c, Parts(c)[i]>> : i \in DOMAIN Parts(c)}
         /\ serving' = serving \cup {c}
         /\ Advance(c)
         /\ UNCHANGED <<kind, before, handlers, exit, files, errors>>

\* The health check of the own container, or of the server that holds the run's
\* certificate and token.
BecomesHealthy(c) == /\ AtStep(c, "healthy")
                     /\ c \in serving
                     /\ Advance(c)
                     /\ UNCHANGED <<kind, before, handlers, exit, files, errors, host>>

CreateHandoff(c) == /\ AtStep(c, "handoff")
                    /\ handoff' = [handoff EXCEPT ![c] = "ready"]
                    /\ Advance(c)
                    /\ UNCHANGED <<kind, before, handlers, exit, tls, errors, host>>

\* The time to live has passed, or a signal has set the stop event.
EndWait(c) == /\ AtStep(c, "wait")
              /\ Advance(c)
              /\ UNCHANGED <<kind, before, handlers, exit, files, errors, host>>

\* What a command that failed, or was killed at its time limit, may leave behind:
\* resources it has created, and whether the service came up all the same.
Leaves(c) ==
    LET op == This(c).op
        made == {{<<c, Parts(c)[j]>> : j \in 1..i} : i \in 0..Len(Parts(c))}
    IN  CASE op = "up" -> made
          [] op \in {"certificates", "probe"} -> {{}, {<<c, op>>}}
          [] OTHER -> {{}}

\* Where a failure leads: past the finalisers that are not due.
FirstFinaliser(c) ==
    IF kind[c] = "integration" THEN IF at[c] >= 3 THEN "logs" ELSE "down"
    ELSE IF at[c] >= DownFrom[kind[c]] THEN "down"
    ELSE IF kind[c] \in Services THEN "remove"
    ELSE "compare"

\* The finalisers record the first error of their own and go on.
Keep(old, new) == IF old = "none" THEN new ELSE old
CleanupError(c) == IF kind[c] \in Services THEN "E_CLEANUP" ELSE "failed"

StepFails(c) ==
    /\ pc[c] = "steps" /\ at[c] >= TryFrom[kind[c]]
    /\ \E phase \in This(c).phases, left \in Leaves(c) :
         /\ docker' = docker \cup left
         /\ \/ UNCHANGED serving
            \/ /\ <<c, "container">> \in left /\ (kind[c] \in Vllm => ~GpuUsed)
               /\ serving' = serving \cup {c}
         /\ primary' = [primary EXCEPT ![c] = phase]
    /\ \/ UNCHANGED handoff
       \/ This(c).op = "handoff" /\ handoff' = [handoff EXCEPT ![c] = "partial"]
    /\ pc' = [pc EXCEPT ![c] = FirstFinaliser(c)]
    /\ UNCHANGED <<kind, at, before, handlers, exit, tls, cleanup, protected, restored>>

\* Before the try block there is nothing to clean up: the run is over. Only the
\* services reach their comparison when the temporary directory cannot be made.
EarlyFailure(c) ==
    /\ pc[c] = "steps" /\ at[c] < TryFrom[kind[c]]
    /\ This(c).op = "tempdir" => kind[c] \notin Services
    /\ Ends(c, "failed")
    /\ UNCHANGED <<kind, handlers, files, host>>

TempdirFails(c) ==
    /\ AtStep(c, "tempdir") /\ kind[c] \in Services
    /\ IF kind[c] = "tls_service"
       THEN primary' = [primary EXCEPT ![c] = "E_PREFLIGHT"] /\ UNCHANGED cleanup
       ELSE cleanup' = [cleanup EXCEPT ![c] = "E_CLEANUP"] /\ UNCHANGED primary
    /\ pc' = [pc EXCEPT ![c] = "compare"]
    /\ UNCHANGED <<kind, at, before, handlers, exit, files, protected, restored, host>>

-----------------------------------------------------------------------------
(* The finalisers.                                                             *)
GoTo(c, stage) == pc' = [pc EXCEPT ![c] = stage]
Record(c, error) == cleanup' = [cleanup EXCEPT ![c] = Keep(@, error)]
Untouched == UNCHANGED <<kind, at, before>>

Logs(c) == /\ pc[c] = "logs" /\ GoTo(c, "down")
           /\ \/ UNCHANGED cleanup
              \/ Record(c, "failed")
           /\ Untouched
           /\ UNCHANGED <<handlers, exit, files, primary, protected, restored, host>>

\* "compose down": a one-off container of the project may survive it.
Down(c) ==
    /\ pc[c] = "down"
    /\ \E oneOff \in SUBSET (docker \cap Named(c, {"certificates"})) :
         docker' = (docker \ Project(c)) \cup oneOff
    /\ serving' = serving \ {c}
    /\ GoTo(c, IF kind[c] = "tls_service" THEN "verify" ELSE After(c, "down"))
    /\ Untouched /\ UNCHANGED <<handlers, exit, files, errors>>

\* A removal that breaks off: containers go first, what they use after them.
BreaksOff(c) ==
    \E gone \in SUBSET Project(c) :
      /\ (gone \ Named(c, {"container", "certificates"}) # {})
            => Project(c) \cap Named(c, {"container"}) \subseteq gone
      /\ docker' = docker \ gone
      /\ \/ serving' = serving \ {c}
         \/ <<c, "container">> \notin gone /\ UNCHANGED serving

DownFails(c) ==
    /\ pc[c] = "down" /\ BreaksOff(c)
    /\ IF kind[c] = "tls_service"
       THEN GoTo(c, "fallback") /\ UNCHANGED cleanup
       ELSE GoTo(c, After(c, "down")) /\ Record(c, CleanupError(c))
    /\ Untouched
    /\ UNCHANGED <<handlers, exit, files, primary, protected, restored>>

\* _require_no_project_resources, and what it does not see: the containers that
\* "docker run" started without the project's label.
AfterResidue(c) == IF kind[c] = "tls_service" THEN "remove" ELSE After(c, "verify")

FindsNothing(c) ==
    /\ pc[c] \in {"verify", "reverify"} /\ Project(c) = {}
    /\ GoTo(c, AfterResidue(c))
    /\ Untouched /\ UNCHANGED <<handlers, exit, files, errors, host>>

FindsResidue(c) ==          \* or the query failed
    /\ pc[c] \in {"verify", "reverify"}
    /\ IF kind[c] = "tls_service" /\ pc[c] = "verify"
       THEN GoTo(c, "fallback") /\ UNCHANGED cleanup
       ELSE GoTo(c, AfterResidue(c)) /\ Record(c, CleanupError(c))
    /\ Untouched
    /\ UNCHANGED <<handlers, exit, files, primary, protected, restored, host>>

\* The exact references of the project, validated and removed one by one.
Fallback(c) == /\ pc[c] = "fallback"
               /\ docker' = docker \ Project(c) /\ serving' = serving \ {c}
               /\ GoTo(c, "reverify")
               /\ Untouched /\ UNCHANGED <<handlers, exit, files, errors>>

FallbackFails(c) ==
    /\ pc[c] = "fallback" /\ BreaksOff(c)
    /\ GoTo(c, "remove") /\ Record(c, "E_CLEANUP")
    /\ Untouched
    /\ UNCHANGED <<handlers, exit, files, primary, protected, restored>>

\* The GPU is polled until it is unused or thirty seconds have passed.
GpuQuiet(c) == /\ pc[c] = "quiet" /\ ~GpuUsed
               /\ GoTo(c, "remove")
               /\ Untouched /\ UNCHANGED <<handlers, exit, files, errors, host>>

\* Mutant: the GPU is polled without a deadline.
WaitsWithoutDeadline(c) == pc[c] = "quiet" /\ GpuUsed /\ UNCHANGED vars

GpuStaysUsed(c) ==
    /\ pc[c] = "quiet"
    /\ GoTo(c, "remove") /\ Record(c, "E_GPU_CLEANUP")
    /\ Untouched
    /\ UNCHANGED <<handlers, exit, files, primary, protected, restored, host>>

\* A hand-off that could not be completed was removed where it was made, or is
\* not known here.
RemoveHandoff(c) ==
    /\ pc[c] = "remove"
    /\ \/ /\ handoff' = [handoff EXCEPT ![c] = IF @ = "ready" THEN "none" ELSE @]
          /\ UNCHANGED cleanup
       \/ /\ handoff[c] = "ready" /\ Record(c, "E_CLEANUP") /\ UNCHANGED handoff
    /\ GoTo(c, "leave")
    /\ Untouched
    /\ UNCHANGED <<handlers, exit, tls, primary, protected, restored, host>>

LeaveTempdir(c) ==
    /\ pc[c] = "leave" /\ tls' = [tls EXCEPT ![c] = FALSE]
    /\ GoTo(c, After(c, "leave"))
    /\ Untouched /\ UNCHANGED <<handlers, exit, handoff, errors, host>>

\* The directory cannot be removed: the error comes out of the with statement.
LeaveTempdirFails(c) ==
    /\ pc[c] = "leave"
    /\ IF kind[c] = "tls_service"
       THEN primary' = [primary EXCEPT ![c] = Keep(@, "E_PREFLIGHT")]
            /\ UNCHANGED cleanup
       ELSE Record(c, CleanupError(c)) /\ UNCHANGED primary
    /\ GoTo(c, After(c, "leave"))
    /\ Untouched /\ UNCHANGED <<handlers, exit, files, protected, restored, host>>

Compare(c) == /\ pc[c] = "compare" /\ Observed(c) = before[c]
              /\ GoTo(c, After(c, "compare"))
              /\ Untouched /\ UNCHANGED <<handlers, exit, files, errors, host>>

CompareFails(c) ==          \* the host differs, or could not be observed
    /\ pc[c] = "compare"
    /\ protected' = [protected EXCEPT ![c] = "E_PROTECTED"]
    /\ GoTo(c, After(c, "compare"))
    /\ Untouched
    /\ UNCHANGED <<handlers, exit, files, primary, cleanup, restored, host>>

RestoreHandlers(c) ==
    /\ pc[c] = "restore" /\ GoTo(c, "report")
    /\ \/ handlers' = [handlers EXCEPT ![c] = FALSE] /\ UNCHANGED restored
       \/ restored' = [restored EXCEPT ![c] = "E_CLEANUP"] /\ UNCHANGED handlers
    /\ Untouched /\ UNCHANGED <<exit, files, primary, cleanup, protected, host>>

\* A smoke run has no handlers: Ctrl-C interrupts a finaliser, too. In the TLS
\* smoke it skips the search for residue.
InterruptFinaliser(c) ==
    /\ kind[c] \notin Services
    /\ pc[c] \in {"logs", "down", "verify", "compare", "leave"}
    /\ IF pc[c] = "down" THEN BreaksOff(c) ELSE UNCHANGED <<docker, serving>>
    /\ Record(c, "interrupted")
    /\ GoTo(c, IF kind[c] = "tls_smoke" /\ pc[c] = "down" THEN "leave"
               ELSE After(c, pc[c]))
    /\ Untouched
    /\ UNCHANGED <<handlers, exit, files, primary, protected, restored>>

\* Which error the run raises: primary, then cleanup, then the others.
Verdict(c) == Keep(Keep(Keep(primary[c], cleanup[c]), protected[c]), restored[c])

\* A vLLM run that went well looks once more at the port and its checkout.
Report(c) ==
    /\ pc[c] = "report"
    /\ \/ /\ Verdict(c) = "none" /\ (kind[c] = "vllm_service" => ~GpuUsed)
          /\ Ends(c, "ok")
       \/ (Verdict(c) # "none" \/ kind[c] \in Vllm) /\ Ends(c, "failed")
    /\ UNCHANGED <<kind, handlers, files, host>>

-----------------------------------------------------------------------------
(* The rest of the world.                                                      *)
Kill(c) == /\ pc[c] # "done"
           /\ Ends(c, "killed")
           /\ UNCHANGED <<kind, handlers, files, host>>

ServiceDies(c) == /\ c \in serving /\ serving' = serving \ {c}
                  /\ Untouched
                  /\ UNCHANGED <<pc, handlers, exit, files, errors, docker>>

ProbeEnds(c) == /\ <<c, "probe">> \in docker /\ docker' = docker \ {<<c, "probe">>}
                /\ Untouched
                /\ UNCHANGED <<pc, handlers, exit, files, errors, serving>>

Start(c) == \/ Check(c) \/ TakeSnapshot(c) \/ PreflightOnly(c) \/ InstallHandlers(c)
            \/ MakeTempdir(c) \/ NothingServes(c) \/ RunOneOff(c) \/ Up(c)
            \/ BecomesHealthy(c) \/ CreateHandoff(c) \/ EndWait(c)
            \/ StepFails(c) \/ EarlyFailure(c) \/ TempdirFails(c)

Finish(c) == \/ Logs(c) \/ Down(c) \/ DownFails(c) \/ FindsNothing(c) \/ FindsResidue(c)
             \/ Fallback(c) \/ FallbackFails(c) \/ GpuQuiet(c) \/ GpuStaysUsed(c)
             \/ RemoveHandoff(c) \/ LeaveTempdir(c) \/ LeaveTempdirFails(c)
             \/ Compare(c) \/ CompareFails(c) \/ RestoreHandlers(c) \/ Report(c)

Next == \E c \in Runs : \/ Start(c) \/ Finish(c) \/ InterruptFinaliser(c)
                        \/ Kill(c) \/ ServiceDies(c) \/ ProbeEnds(c)

\* The scripts whose every command has a time limit: a run of theirs goes on by
\* itself. The other two call Docker, psql and pytest without one, and wait for as
\* long as those take: nothing obliges their runs to take another step.
Bounded == {"tls_service", "vllm_service", "vllm_smoke"}

Spec == /\ Init /\ [][Next]_vars
        /\ \A c \in Runs : WF_vars(kind[c] \in Bounded /\ (Start(c) \/ Finish(c)))

-----------------------------------------------------------------------------
(* Properties.                                                                 *)

\* A run that reports success has left nothing of its own: no resource with its
\* project's label, no hand-off with a credential, no key material, and its
\* signal handlers are gone (the finally blocks of the five run() functions).
SuccessLeavesNothing ==
    \A c \in Runs : exit[c] = "ok" =>
        /\ Project(c) = {} /\ c \notin serving
        /\ handoff[c] = "none" /\ ~tls[c] /\ ~handlers[c]

\* Whatever went wrong before, a run that was not killed knows of every resource
\* of its project that it leaves: its clean-up has recorded an error. For the
\* PostgreSQL controller this covers unlabelled containers, too: what the clean-up
\* cannot see makes the comparison with the first snapshot fail.
\* And a run that reports success has left nothing of its own.
NothingLeftUnnoticed ==
    /\ SuccessLeavesNothing
    /\ \A c \in Runs : pc[c] = "report" =>
          /\ Project(c) # {} => cleanup[c] # "none"
          /\ (kind[c] = "tls_service" /\ docker \cap Named(c, {"probe"}) # {})
               => protected[c] # "none"

\* A run of a script whose commands are bounded ends, whatever fails, also beside a
\* model server that never lets go of the GPU and beside a run that hangs: the waits
\* for health and for an idle GPU have deadlines of their own, and no step waits for
\* another run (run_postgres_tls_service.py and the two vLLM scripts).
BoundedRunsEnd == \A c \in Runs : kind[c] \in Bounded => <>(pc[c] = "done")

=============================================================================
