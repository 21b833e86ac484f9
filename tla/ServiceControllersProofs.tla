------------------------ MODULE ServiceControllersProofs ------------------------
(*****************************************************************************)
(* Proofs about ServiceControllers: however the scripts are interrupted, and *)
(* whatever else runs on the host, a run that reports success has left       *)
(* nothing of its own, and one that could not clean up knows it.             *)
(*****************************************************************************)
EXTENDS ServiceControllers, TLAPS

-----------------------------------------------------------------------------
(* The inductive invariant *)

\* The resources that carry a project's label.
Labelled == {"network", "volume", "container", "certificates"}
On(c, name) == <<c, name>> \in docker
Clean(c) == \A name \in Labelled : ~On(c, name)

\* The stages of the finalisers that a script may come to.
Stages ==
    [tls_service |-> {"down", "verify", "fallback", "reverify", "remove", "leave",
                      "compare", "restore", "report"},
     vllm_service |-> {"down", "quiet", "remove", "leave", "compare", "restore",
                       "report"},
     tls_smoke |-> {"down", "verify", "leave", "report"},
     vllm_smoke |-> {"down", "compare", "leave", "report"},
     integration |-> {"logs", "down", "report"}]

Arrays == /\ DOMAIN kind = Runs /\ DOMAIN pc = Runs /\ DOMAIN at = Runs
          /\ DOMAIN before = Runs /\ DOMAIN handlers = Runs /\ DOMAIN tls = Runs
          /\ DOMAIN handoff = Runs /\ DOMAIN primary = Runs /\ DOMAIN cleanup = Runs
          /\ DOMAIN protected = Runs /\ DOMAIN restored = Runs /\ DOMAIN exit = Runs

\* Where a run is in its script.
Placed(c) ==
    /\ kind[c] \in Kinds \cup {"absent"}
    /\ pc[c] # "done" => kind[c] \in Kinds
    /\ pc[c] = "steps" => at[c] \in 1 .. Len(Program[kind[c]])
    /\ pc[c] \notin {"steps", "done"} => pc[c] \in Stages[kind[c]]
    /\ exit[c] = "ok" => pc[c] = "done"

\* Before the clean-up is due there is nothing to clean up; after it whatever is
\* left was noticed.
Resources(c) ==
    /\ pc[c] = "steps" /\ at[c] < DownFrom[kind[c]] => Clean(c)
    /\ pc[c] \in {"quiet", "remove", "leave", "compare", "restore", "report"}
          => Clean(c) \/ cleanup[c] # "none"
    /\ c \in serving => On(c, "container")
    /\ On(c, "certificates") => kind[c] \in {"tls_service", "tls_smoke"}

\* The unlabelled container was not there before, so the comparison finds it.
Unlabelled(c) ==
    /\ <<c, "probe">> \notin before[c]
    /\ pc[c] = "steps" => ~On(c, "probe")
    /\ kind[c] = "tls_service" /\ pc[c] \in {"restore", "report"}
          => ~On(c, "probe") \/ protected[c] # "none"

\* Directories and handlers are made inside the steps that the finalisers undo,
\* and each finaliser that fails to undo its own leaves an error.
Private(c) ==
    /\ tls[c] => kind[c] # "integration"
    /\ handoff[c] # "none" \/ handlers[c] => kind[c] \in Services
    /\ kind[c] \in Services /\ pc[c] = "steps" /\ at[c] < TryFrom[kind[c]]
          => ~tls[c] /\ handoff[c] = "none"
    /\ kind[c] = "tls_service" /\ pc[c] = "steps" /\ at[c] <= 4 => ~handlers[c]
    /\ handoff[c] \in {"none", "partial", "ready"}
    /\ pc[c] # "done" /\ handoff[c] = "partial" => primary[c] # "none"
    /\ pc[c] \in {"leave", "compare", "restore", "report"} /\ kind[c] \in Services
          => handoff[c] # "ready" \/ cleanup[c] # "none"
    /\ pc[c] = "report" \/ (pc[c] \in {"compare", "restore"} /\ kind[c] \in Services)
          => ~tls[c] \/ primary[c] # "none" \/ cleanup[c] # "none"
    /\ pc[c] = "report" => ~handlers[c] \/ restored[c] # "none"

Leftover(c) == ~Clean(c) \/ c \in serving \/ handoff[c] # "none" \/ tls[c] \/ handlers[c]

Good(c) == /\ Placed(c) /\ Resources(c) /\ Unlabelled(c) /\ Private(c)
           /\ exit[c] = "ok" => ~Leftover(c)

IInv == Arrays /\ \A c \in Runs : Good(c)

-----------------------------------------------------------------------------
(* The scripts *)

\* What the proofs use of step i of script k.
StepFact(k, i) ==
    LET op == Program[k][i].op IN
    /\ op \in {"up", "certificates", "probe"} => i >= DownFrom[k]
    /\ op = "certificates" => k \in {"tls_service", "tls_smoke"}
    /\ op = "handlers" => k \in Services /\ (k = "tls_service" => i >= 4)
    /\ op = "tempdir" => k # "integration" /\ (k \in Services => i = TryFrom[k] - 1)
    /\ op = "handoff" => k \in Services /\ i >= TryFrom[k]
    /\ "none" \notin Program[k][i].phases

LEMMA TlsServiceSteps ==
    Len(TlsService) = 13 /\ \A i \in 1 .. 13 : StepFact("tls_service", i)
  BY DEF TlsService, StepFact, Program, DownFrom, TryFrom, Services, Step, Both,
         ValidRepository, DockerPreflight, ResourceSnapshot, PrivateRoot, ComposeConfig,
         GenerateCertificates, ValidateCertificates, WaitUntilHealthy, PublishedPort,
         MigrationProof

LEMMA VllmServiceSteps ==
    Len(VllmService) = 16 /\ \A i \in 1 .. 16 : StepFact("vllm_service", i)
  BY DEF VllmService, StepFact, Program, DownFrom, TryFrom, Services, Step, Both,
         VllmRepository, RuntimeContract, GpuModel, GpuIdle, CacheAndDisk, PortFree,
         PrivateDirectory, ProtectedContainers, ImageMetadata, ModelMetadata,
         OpensslCertificates, VllmHandoff, ConfigAndPull, WaitForReady, GpuActive

LEMMA TlsSmokeSteps ==
    Len(TlsSmoke) = 8 /\ \A i \in 1 .. 8 : StepFact("tls_smoke", i)
  BY DEF TlsSmoke, StepFact, Program, DownFrom, TryFrom, Services, Step, Smoke,
     TlsProof

LEMMA VllmSmokeSteps ==
    Len(VllmSmoke) = 10 /\ \A i \in 1 .. 10 : StepFact("vllm_smoke", i)
  BY DEF VllmSmoke, StepFact, Program, DownFrom, TryFrom, Services, Step, Smoke,
         VllmApiProof

LEMMA IntegrationSteps ==
    Len(Integration) = 5 /\ \A i \in 1 .. 5 : StepFact("integration", i)
  BY DEF Integration, StepFact, Program, DownFrom, TryFrom, Services, Step, Smoke,
         IntegrationHealthy

LEMMA ScriptSteps ==
    ASSUME NEW k \in Kinds
    PROVE  /\ Len(Program[k]) \in Nat /\ Len(Program[k]) >= 5
           /\ \A i \in 1 .. Len(Program[k]) : StepFact(k, i)
           /\ TryFrom[k] \in 2 .. 10 /\ DownFrom[k] \in 2 .. 13
           /\ k \in {"tls_smoke", "integration"} => DownFrom[k] = TryFrom[k]
  <1>1. /\ Program["tls_service"] = TlsService /\ Program["vllm_service"] = VllmService
        /\ Program["tls_smoke"] = TlsSmoke /\ Program["vllm_smoke"] = VllmSmoke
        /\ Program["integration"] = Integration
    BY DEF Program
  <1>2. CASE k = "tls_service"
    <2>1. TryFrom[k] = 6 /\ DownFrom[k] = 7
      BY <1>2 DEF TryFrom, DownFrom
    <2>2. Len(Program[k]) = 13 /\ \A i \in 1 .. 13 : StepFact(k, i)
      BY <1>1, <1>2, TlsServiceSteps
    <2>. QED  BY <1>2, <2>1, <2>2
  <1>3. CASE k = "vllm_service"
    <2>1. TryFrom[k] = 10 /\ DownFrom[k] = 13
      BY <1>3 DEF TryFrom, DownFrom
    <2>2. Len(Program[k]) = 16 /\ \A i \in 1 .. 16 : StepFact(k, i)
      BY <1>1, <1>3, VllmServiceSteps
    <2>. QED  BY <1>3, <2>1, <2>2
  <1>4. CASE k = "tls_smoke"
    <2>1. TryFrom[k] = 3 /\ DownFrom[k] = 3
      BY <1>4 DEF TryFrom, DownFrom
    <2>2. Len(Program[k]) = 8 /\ \A i \in 1 .. 8 : StepFact(k, i)
      BY <1>1, <1>4, TlsSmokeSteps
    <2>. QED  BY <1>4, <2>1, <2>2
  <1>5. CASE k = "vllm_smoke"
    <2>1. TryFrom[k] = 6 /\ DownFrom[k] = 7
      BY <1>5 DEF TryFrom, DownFrom
    <2>2. Len(Program[k]) = 10 /\ \A i \in 1 .. 10 : StepFact(k, i)
      BY <1>1, <1>5, VllmSmokeSteps
    <2>. QED  BY <1>5, <2>1, <2>2
  <1>6. CASE k = "integration"
    <2>1. TryFrom[k] = 2 /\ DownFrom[k] = 2
      BY <1>6 DEF TryFrom, DownFrom
    <2>2. Len(Program[k]) = 5 /\ \A i \in 1 .. 5 : StepFact(k, i)
      BY <1>1, <1>6, IntegrationSteps
    <2>. QED  BY <1>6, <2>1, <2>2
  <1>. QED  BY <1>2, <1>3, <1>4, <1>5, <1>6 DEF Kinds

-----------------------------------------------------------------------------
(* A step of one run leaves the others alone. *)

Same(d) ==
    /\ kind'[d] = kind[d] /\ pc'[d] = pc[d] /\ at'[d] = at[d] /\ before'[d] = before[d]
    /\ handlers'[d] = handlers[d] /\ tls'[d] = tls[d] /\ handoff'[d] = handoff[d]
    /\ primary'[d] = primary[d] /\ cleanup'[d] = cleanup[d]
    /\ protected'[d] = protected[d] /\ restored'[d] = restored[d] /\ exit'[d] = exit[d]
    /\ \A name : On(d, name)' <=> On(d, name)
    /\ d \in serving' <=> d \in serving

Alone(c) == Arrays' /\ \A d \in Runs : d # c => Same(d)

LEMMA OthersStayGood ==
    ASSUME IInv, NEW c \in Runs, Alone(c), Good(c)'
    PROVE  IInv'
  <1>1. ASSUME NEW d \in Runs, d # c  PROVE Good(d)'
    <2>1. Good(d) /\ Same(d)
      BY <1>1 DEF IInv, Alone
    <2>2. Clean(d)' <=> Clean(d)
      BY <2>1 DEF Same, Clean
    <2>3. Placed(d)'
      BY <2>1 DEF Same, Good, Placed
    <2>4. Resources(d)'
      BY <2>1, <2>2 DEF Same, Good, Resources
    <2>5. Unlabelled(d)'
      BY <2>1 DEF Same, Good, Unlabelled
    <2>6. Private(d)'
      BY <2>1 DEF Same, Good, Private
    <2>7. exit'[d] = "ok" => ~Leftover(d)'
      BY <2>1, <2>2 DEF Same, Good, Leftover
    <2>. QED  BY <2>3, <2>4, <2>5, <2>6, <2>7 DEF Good
  <1>. QED  BY <1>1 DEF Alone, IInv

\* What is true of the run that moves.
LEMMA Mine ==
    ASSUME IInv, NEW c \in Runs
    PROVE  /\ Arrays /\ Placed(c) /\ Resources(c) /\ Unlabelled(c) /\ Private(c)
           /\ pc[c] = "steps" => /\ kind[c] \in Kinds
                                 /\ at[c] \in 1 .. Len(Program[kind[c]])
                                 /\ StepFact(kind[c], at[c])
                                 /\ exit[c] # "ok"
                                 /\ at[c] \in Nat /\ TryFrom[kind[c]] \in Nat
                                 /\ DownFrom[kind[c]] \in Nat
           /\ exit[c] = "ok" => pc[c] = "done" /\ ~Leftover(c)
  BY ScriptSteps DEF IInv, Good, Placed

-----------------------------------------------------------------------------
(* The steps *)

\* A step that is through leads to the next one or to the finalisers.
LEMMA AdvanceMoves ==
    ASSUME IInv, NEW c \in Runs, pc[c] = "steps", Advance(c)
    PROVE  /\ DOMAIN pc' = Runs /\ DOMAIN at' = Runs
           /\ \A d \in Runs : d # c => pc'[d] = pc[d] /\ at'[d] = at[d]
           /\ \/ /\ pc'[c] = "steps" /\ at'[c] = at[c] + 1
                 /\ at'[c] \in 1 .. Len(Program[kind[c]])
              \/ pc'[c] = "down"
  <1>1. /\ kind[c] \in Kinds /\ at[c] \in 1 .. Len(Program[kind[c]])
        /\ Len(Program[kind[c]]) \in Nat /\ Arrays
    BY Mine, ScriptSteps
  <1>. QED  BY <1>1 DEF Advance, Arrays

\* A step that changes nothing but the place in the script.
Passes(c) == /\ pc[c] = "steps" /\ Advance(c)
             /\ UNCHANGED <<kind, before, handlers, exit, files, errors, host>>

LEMMA PassMoves ==
    ASSUME IInv, NEW c \in Runs, Passes(c)
    PROVE  Alone(c) /\ Good(c)'
  <1>1. Alone(c)
    BY AdvanceMoves, Mine DEF Passes, Alone, Arrays, Same, On, files, errors, host
  <1>2. Placed(c)' /\ exit'[c] # "ok"
    BY AdvanceMoves, Mine DEF Passes, Placed, Stages, Kinds
  <1>3. Resources(c)'
    BY AdvanceMoves, Mine DEF Passes, Resources, Clean, On, host
  <1>4. Unlabelled(c)'
    BY AdvanceMoves, Mine DEF Passes, Unlabelled, On, host, errors
  <1>5. Private(c)'
    BY AdvanceMoves, Mine DEF Passes, Private, files, errors, host
  <1>. QED  BY <1>1, <1>2, <1>3, <1>4, <1>5 DEF Good

LEMMA PassingMoves ==
    ASSUME IInv, NEW c \in Runs,
           Check(c) \/ NothingServes(c) \/ RunOneOff(c) \/ BecomesHealthy(c) \/ EndWait(c)
    PROVE  Alone(c) /\ Good(c)'
  <1>1. Passes(c)
    BY DEF Check, NothingServes, RunOneOff, BecomesHealthy, EndWait, AtStep, Passes
  <1>. QED  BY <1>1, PassMoves

LEMMA TakeSnapshotMoves ==
    ASSUME IInv, NEW c \in Runs, TakeSnapshot(c)
    PROVE  Alone(c) /\ Good(c)'
  <1>1. Alone(c)
    BY AdvanceMoves, Mine DEF TakeSnapshot, AtStep, Observed, Alone, Arrays, Same,
       On, files, errors, host
  <1>2. Placed(c)' /\ exit'[c] # "ok"
    BY AdvanceMoves, Mine DEF TakeSnapshot, AtStep, Observed, Placed, Stages, Kinds
  <1>3. Resources(c)'
    BY AdvanceMoves, Mine DEF TakeSnapshot, AtStep, Observed, Resources, Clean, On,
       host
  <1>4. Unlabelled(c)'
    BY AdvanceMoves, Mine DEF TakeSnapshot, AtStep, Observed, Unlabelled, On, host,
       errors
  <1>5. Private(c)'
    BY AdvanceMoves, Mine DEF TakeSnapshot, AtStep, Observed, Private, files,
       errors, host
  <1>. QED  BY <1>1, <1>2, <1>3, <1>4, <1>5 DEF Good

LEMMA InstallHandlersMoves ==
    ASSUME IInv, NEW c \in Runs, InstallHandlers(c)
    PROVE  Alone(c) /\ Good(c)'
  <1>1. Alone(c)
    BY AdvanceMoves, Mine DEF InstallHandlers, AtStep, This, StepFact, Alone,
       Arrays, Same, On, files, errors, host
  <1>2. Placed(c)' /\ exit'[c] # "ok"
    BY AdvanceMoves, Mine DEF InstallHandlers, AtStep, This, StepFact, Placed,
       Stages, Kinds
  <1>3. Resources(c)'
    BY AdvanceMoves, Mine DEF InstallHandlers, AtStep, This, StepFact, Resources,
       Clean, On, host
  <1>4. Unlabelled(c)'
    BY AdvanceMoves, Mine DEF InstallHandlers, AtStep, This, StepFact, Unlabelled,
       On, host, errors
  <1>5. Private(c)'
    BY AdvanceMoves, Mine DEF InstallHandlers, AtStep, This, StepFact, Private,
       files, errors, host
  <1>. QED  BY <1>1, <1>2, <1>3, <1>4, <1>5 DEF Good

LEMMA MakeTempdirMoves ==
    ASSUME IInv, NEW c \in Runs, MakeTempdir(c)
    PROVE  Alone(c) /\ Good(c)'
  <1>1. Alone(c)
    BY AdvanceMoves, Mine DEF MakeTempdir, AtStep, This, StepFact, Alone, Arrays,
       Same, On, files, errors, host
  <1>2. Placed(c)' /\ exit'[c] # "ok"
    BY AdvanceMoves, Mine DEF MakeTempdir, AtStep, This, StepFact, Placed, Stages,
       Kinds
  <1>3. Resources(c)'
    BY AdvanceMoves, Mine DEF MakeTempdir, AtStep, This, StepFact, Resources, Clean,
       On, host
  <1>4. Unlabelled(c)'
    BY AdvanceMoves, Mine DEF MakeTempdir, AtStep, This, StepFact, Unlabelled, On,
       host, errors
  <1>5. Private(c)'
    BY AdvanceMoves, Mine DEF MakeTempdir, AtStep, This, StepFact, Private, files,
       errors, host
  <1>. QED  BY <1>1, <1>2, <1>3, <1>4, <1>5 DEF Good

LEMMA CreateHandoffMoves ==
    ASSUME IInv, NEW c \in Runs, CreateHandoff(c)
    PROVE  Alone(c) /\ Good(c)'
  <1>1. Alone(c)
    BY AdvanceMoves, Mine DEF CreateHandoff, AtStep, This, StepFact, Alone, Arrays,
       Same, On, files, errors, host
  <1>2. Placed(c)' /\ exit'[c] # "ok"
    BY AdvanceMoves, Mine DEF CreateHandoff, AtStep, This, StepFact, Placed, Stages,
       Kinds
  <1>3. Resources(c)'
    BY AdvanceMoves, Mine DEF CreateHandoff, AtStep, This, StepFact, Resources,
       Clean, On, host
  <1>4. Unlabelled(c)'
    BY AdvanceMoves, Mine DEF CreateHandoff, AtStep, This, StepFact, Unlabelled, On,
       host, errors
  <1>5. Private(c)'
    BY AdvanceMoves, Mine DEF CreateHandoff, AtStep, This, StepFact, Private, files,
       errors, host
  <1>. QED  BY <1>1, <1>2, <1>3, <1>4, <1>5 DEF Good

\* What "compose up" makes.
LEMMA PartsFacts ==
    ASSUME NEW c
    PROVE  /\ \A i \in DOMAIN Parts(c) : Parts(c)[i] \in {"network", "volume", "container"}
           /\ \E i \in DOMAIN Parts(c) : Parts(c)[i] = "container"
  BY DEF Parts

LEMMA UpMoves ==
    ASSUME IInv, NEW c \in Runs, Up(c)
    PROVE  Alone(c) /\ Good(c)'
  <1>1. Alone(c)
    BY AdvanceMoves, Mine, PartsFacts DEF Up, AtStep, This, StepFact, Alone, Arrays,
       Same, On, files, errors, host
  <1>2. Placed(c)' /\ exit'[c] # "ok"
    BY AdvanceMoves, Mine, PartsFacts DEF Up, AtStep, This, StepFact, Placed,
       Stages, Kinds
  <1>3. Resources(c)'
    BY AdvanceMoves, Mine, PartsFacts DEF Up, AtStep, This, StepFact, Resources,
       Clean, On, host
  <1>4. Unlabelled(c)'
    BY AdvanceMoves, Mine, PartsFacts DEF Up, AtStep, This, StepFact, Unlabelled,
       On, host, errors
  <1>5. Private(c)'
    BY AdvanceMoves, Mine, PartsFacts DEF Up, AtStep, This, StepFact, Private,
       files, errors, host
  <1>. QED  BY <1>1, <1>2, <1>3, <1>4, <1>5 DEF Good

-----------------------------------------------------------------------------
(* The ends of a run *)

\* What is left when a run ends is what was there; only a success promises more.
LEMMA EndMoves ==
    ASSUME IInv, NEW c \in Runs, NEW status, Ends(c, status),
           UNCHANGED <<kind, handlers, files, host>>,
           pc[c] # "done", status = "ok" => ~Leftover(c)
    PROVE  Alone(c) /\ Good(c)'
  <1>1. Alone(c)
    BY Mine DEF Ends, Alone, Arrays, Same, On, files, host
  <1>2. Placed(c)'
    BY Mine DEF Ends, Placed, Arrays
  <1>3. Resources(c)'
    BY Mine DEF Ends, Resources, On, host, Arrays
  <1>4. Unlabelled(c)'
    BY Mine DEF Ends, Unlabelled, host, Arrays
  <1>5. Private(c)'
    BY Mine DEF Ends, Private, files, Arrays
  <1>6. exit'[c] = "ok" => ~Leftover(c)'
    BY Mine DEF Ends, Leftover, Clean, On, files, host, Arrays
  <1>. QED  BY <1>1, <1>2, <1>3, <1>4, <1>5, <1>6 DEF Good

LEMMA KillMoves ==
    ASSUME IInv, NEW c \in Runs, Kill(c)
    PROVE  Alone(c) /\ Good(c)'
  BY EndMoves DEF Kill

LEMMA EarlyFailureMoves ==
    ASSUME IInv, NEW c \in Runs, EarlyFailure(c)
    PROVE  Alone(c) /\ Good(c)'
  BY EndMoves DEF EarlyFailure

LEMMA PreflightOnlyMoves ==
    ASSUME IInv, NEW c \in Runs, PreflightOnly(c)
    PROVE  Alone(c) /\ Good(c)'
  <1>1. kind[c] = "tls_service" /\ pc[c] = "steps" /\ at[c] = 3
    BY DEF PreflightOnly
  <1>2. TryFrom[kind[c]] = 6 /\ DownFrom[kind[c]] = 7
    BY <1>1 DEF TryFrom, DownFrom
  <1>3. ~Leftover(c)
    BY <1>1, <1>2, Mine DEF Leftover, Private, Resources, Services, Clean, Labelled
  <1>. QED  BY <1>1, <1>3, EndMoves DEF PreflightOnly

\* A run that has nothing to report has undone everything.
LEMMA ReportMoves ==
    ASSUME IInv, NEW c \in Runs, Report(c)
    PROVE  Alone(c) /\ Good(c)'
  <1>1. pc[c] = "report"
    BY DEF Report
  <1>2. ASSUME Verdict(c) = "none"  PROVE ~Leftover(c)
    <2>1. /\ primary[c] = "none" /\ cleanup[c] = "none" /\ protected[c] = "none"
          /\ restored[c] = "none"
      BY <1>2 DEF Verdict, Keep
    <2>. QED
      BY <1>1, <2>1, Mine DEF Leftover, Private, Resources, Clean, Labelled
  <1>. QED  BY <1>1, <1>2, EndMoves DEF Report

-----------------------------------------------------------------------------
(* Failures of a step *)

\* What a command that fails leaves behind.
LEMMA LeavesFacts ==
    ASSUME NEW c, NEW left \in Leaves(c)
    PROVE  /\ \A x \in left : \E name \in Labelled \cup {"probe"} : x = <<c, name>>
           /\ left # {} => This(c).op \in {"up", "certificates", "probe"}
           /\ <<c, "certificates">> \in left => This(c).op = "certificates"
  BY PartsFacts DEF Leaves, Labelled

LEMMA FirstFinaliserIsAStage ==
    ASSUME IInv, NEW c \in Runs, pc[c] = "steps", at[c] >= TryFrom[kind[c]]
    PROVE  /\ FirstFinaliser(c) \in Stages[kind[c]]
           /\ at[c] >= DownFrom[kind[c]] => FirstFinaliser(c) \in {"logs", "down"}
           /\ at[c] < DownFrom[kind[c]] =>
                 \/ FirstFinaliser(c) = "remove" /\ kind[c] \in Services
                 \/ FirstFinaliser(c) = "compare" /\ kind[c] \notin Services
  <1>1. /\ kind[c] \in Kinds /\ at[c] \in Nat /\ TryFrom[kind[c]] \in Nat
        /\ DownFrom[kind[c]] \in Nat
    BY Mine
  <1>2. CASE kind[c] = "integration"
    <2>1. DownFrom[kind[c]] = 2 /\ TryFrom[kind[c]] = 2
      BY <1>2 DEF DownFrom, TryFrom
    <2>2. "logs" \in Stages[kind[c]] /\ "down" \in Stages[kind[c]]
      BY <1>2 DEF Stages
    <2>3. FirstFinaliser(c) = IF at[c] >= 3 THEN "logs" ELSE "down"
      BY <1>1, <1>2, <2>1 DEF FirstFinaliser, Services
    <2>. QED  BY <1>1, <2>1, <2>2, <2>3
  <1>3. CASE kind[c] \in {"tls_service", "vllm_service"}
    <2>1. "down" \in Stages[kind[c]] /\ "remove" \in Stages[kind[c]]
      BY <1>3 DEF Stages
    <2>2. CASE at[c] >= DownFrom[kind[c]]
      <3>1. FirstFinaliser(c) = "down"
        BY <1>3, <2>2 DEF FirstFinaliser, Services
      <3>. QED  BY <1>1, <2>1, <2>2, <3>1
    <2>3. CASE ~(at[c] >= DownFrom[kind[c]])
      <3>1. FirstFinaliser(c) = "remove" /\ kind[c] \in Services
        BY <1>3, <2>3 DEF FirstFinaliser, Services
      <3>. QED  BY <1>1, <2>1, <2>3, <3>1
    <2>. QED  BY <2>2, <2>3
  <1>4. CASE kind[c] = "tls_smoke"
    <2>1. DownFrom[kind[c]] = 3 /\ TryFrom[kind[c]] = 3
      BY <1>4 DEF DownFrom, TryFrom
    <2>2. "down" \in Stages[kind[c]]
      BY <1>4 DEF Stages
    <2>. QED  BY <1>1, <1>4, <2>1, <2>2 DEF FirstFinaliser, Services
  <1>5. CASE kind[c] = "vllm_smoke"
    <2>1. {"down", "compare"} \subseteq Stages[kind[c]]
      BY <1>5 DEF Stages
    <2>. QED  BY <1>1, <1>5, <2>1 DEF FirstFinaliser, Services
  <1>. QED  BY <1>1, <1>2, <1>3, <1>4, <1>5 DEF Kinds

LEMMA StepFailsMoves ==
    ASSUME IInv, NEW c \in Runs, StepFails(c)
    PROVE  Alone(c) /\ Good(c)'
  <1>1. /\ pc[c] = "steps" /\ at[c] >= TryFrom[kind[c]]
        /\ pc' = [pc EXCEPT ![c] = FirstFinaliser(c)]
        /\ UNCHANGED <<kind, at, before, handlers, exit, tls, cleanup, protected, restored>>
    BY DEF StepFails
  <1>2. PICK phase \in This(c).phases, left \in Leaves(c) :
            /\ docker' = docker \cup left
            /\ \/ serving' = serving
               \/ <<c, "container">> \in left /\ serving' = serving \cup {c}
            /\ primary' = [primary EXCEPT ![c] = phase]
    BY DEF StepFails
  <1>3. \/ handoff' = handoff
        \/ This(c).op = "handoff" /\ handoff' = [handoff EXCEPT ![c] = "partial"]
    BY DEF StepFails
  <1>4. /\ StepFact(kind[c], at[c]) /\ kind[c] \in Kinds /\ at[c] \in Nat
        /\ TryFrom[kind[c]] \in Nat /\ DownFrom[kind[c]] \in Nat /\ exit[c] # "ok"
        /\ Arrays
    BY <1>1, Mine
  <1>5. /\ \A x \in left : \E name \in Labelled \cup {"probe"} : x = <<c, name>>
        /\ left # {} => at[c] >= DownFrom[kind[c]]
        /\ <<c, "certificates">> \in left => kind[c] \in {"tls_service", "tls_smoke"}
        /\ phase # "none"
    BY <1>4, LeavesFacts DEF This, StepFact
  <1>6. /\ FirstFinaliser(c) \in Stages[kind[c]]
        /\ at[c] >= DownFrom[kind[c]] => FirstFinaliser(c) \in {"logs", "down"}
        /\ at[c] < DownFrom[kind[c]] =>
              \/ FirstFinaliser(c) = "remove" /\ kind[c] \in Services
              \/ FirstFinaliser(c) = "compare" /\ kind[c] \notin Services
    BY <1>1, FirstFinaliserIsAStage
  <1>7. /\ pc'[c] = FirstFinaliser(c) /\ primary'[c] = phase
        /\ \A d \in Runs : d # c => pc'[d] = pc[d] /\ primary'[d] = primary[d]
                                    /\ handoff'[d] = handoff[d]
        /\ \/ handoff'[c] = handoff[c]
           \/ kind[c] \in Services /\ handoff'[c] = "partial"
        /\ DOMAIN pc' = Runs /\ DOMAIN primary' = Runs /\ DOMAIN handoff' = Runs
    BY <1>1, <1>2, <1>3, <1>4 DEF Arrays, This, StepFact
  <1>8. \A d : d # c => \A name : <<d, name>> \in docker' <=> <<d, name>> \in docker
    BY <1>2, <1>5
  <1>9. Alone(c)
    BY <1>1, <1>2, <1>4, <1>7, <1>8 DEF Alone, Same, Arrays, On
  <1>10. Placed(c)' /\ exit'[c] # "ok"
    BY <1>1, <1>4, <1>6, <1>7 DEF Placed
  <1>11. Resources(c)'
    <2>1. left = {} => Clean(c)' <=> Clean(c)
      BY <1>2 DEF Clean, On
    <2>2. at[c] < DownFrom[kind[c]] => Clean(c)'
      BY <1>1, <1>4, <1>5, <2>1, Mine DEF Resources
    <2>. QED
      BY <1>1, <1>2, <1>4, <1>5, <1>6, <1>7, <2>2, Mine DEF Resources, On
  <1>12. Unlabelled(c)'
    BY <1>1, <1>4, <1>6, <1>7, Mine DEF Unlabelled
  <1>13. Private(c)'
    BY <1>1, <1>4, <1>5, <1>6, <1>7, Mine DEF Private
  <1>. QED  BY <1>9, <1>10, <1>11, <1>12, <1>13 DEF Good

LEMMA TempdirFailsMoves ==
    ASSUME IInv, NEW c \in Runs, TempdirFails(c)
    PROVE  Alone(c) /\ Good(c)'
  <1>1. Alone(c)
    BY Mine DEF TempdirFails, AtStep, This, StepFact, Services, Alone, Arrays, Same,
       On, files, errors, host, Untouched, GoTo, Record
  <1>2. Placed(c)' /\ exit'[c] # "ok"
    BY Mine DEF TempdirFails, AtStep, This, StepFact, Services, Placed, Stages,
       Kinds, Untouched, GoTo, Record, After, Finalisers
  <1>3. Resources(c)'
    <2>1. /\ pc[c] = "steps" /\ docker' = docker /\ serving' = serving /\ kind' = kind
          /\ pc'[c] = "compare" /\ kind[c] \in Services
          /\ This(c).op = "tempdir"
      BY Mine DEF TempdirFails, AtStep, host, Arrays
    <2>2. at[c] < DownFrom[kind[c]]
      <3>1. at[c] = TryFrom[kind[c]] - 1
        BY <2>1, Mine DEF StepFact, This
      <3>. QED  BY <2>1, <3>1 DEF Services, TryFrom, DownFrom
    <2>3. Clean(c)'
      BY <2>1, <2>2, Mine DEF Resources, Clean, On
    <2>. QED  BY <2>1, <2>3, Mine DEF Resources, On
  <1>4. Unlabelled(c)'
    BY Mine DEF TempdirFails, AtStep, This, StepFact, Services, Unlabelled, On,
       host, errors, Untouched, GoTo, Record, Keep, After, Finalisers
  <1>5. Private(c)'
    BY Mine DEF TempdirFails, AtStep, This, StepFact, Services, Private, files,
       errors, host, Untouched, GoTo, Record, Keep, After, Finalisers
  <1>. QED  BY <1>1, <1>2, <1>3, <1>4, <1>5 DEF Good

-----------------------------------------------------------------------------
(* The finalisers *)

LEMMA Following ==
    ASSUME NEW c, NEW order, order = Finalisers[kind[c]], NEW stage,
           NEW j \in 1 .. Len(order), order[j] = stage,
           \A i \in 1 .. Len(order) : order[i] = stage => i = j
    PROVE  After(c, stage) = order[j + 1]
  <1>1. (CHOOSE i \in 1 .. Len(order) : order[i] = stage) = j
    OBVIOUS
  <1>. QED  BY <1>1 DEF After

\* The order of the finalisers.
LEMMA AfterFacts ==
    ASSUME NEW c
    PROVE  /\ kind[c] = "tls_service" =>
                 /\ After(c, "leave") = "compare"
                 /\ After(c, "compare") = "restore"
           /\ kind[c] = "vllm_service" =>
                 /\ After(c, "down") = "quiet"
                 /\ After(c, "leave") = "compare"
                 /\ After(c, "compare") = "restore"
           /\ kind[c] = "tls_smoke" =>
                 /\ After(c, "down") = "verify"
                 /\ After(c, "verify") = "leave"
                 /\ After(c, "leave") = "report"
           /\ kind[c] = "vllm_smoke" =>
                 /\ After(c, "down") = "compare"
                 /\ After(c, "compare") = "leave"
                 /\ After(c, "leave") = "report"
           /\ kind[c] = "integration" =>
                 /\ After(c, "logs") = "down"
                 /\ After(c, "down") = "report"
  <1>1. ASSUME kind[c] = "tls_service"
        PROVE  /\ After(c, "leave") = "compare"
               /\ After(c, "compare") = "restore"
    <2> DEFINE order == <<"down", "remove", "leave", "compare", "restore", "report">>
    <2>1. order = Finalisers[kind[c]]
      BY <1>1 DEF Finalisers
    <2>2. Len(order) = 6
      OBVIOUS
    <2>3. After(c, "leave") = order[3 + 1]
      <3>1. 3 \in 1 .. Len(order) /\ order[3] = "leave"
        BY <2>2
      <3>2. \A i \in 1 .. Len(order) : order[i] = "leave" => i = 3
        BY <2>2
      <3> HIDE DEF order
      <3>. QED  BY <2>1, <3>1, <3>2, Following
    <2>4. After(c, "compare") = order[4 + 1]
      <3>1. 4 \in 1 .. Len(order) /\ order[4] = "compare"
        BY <2>2
      <3>2. \A i \in 1 .. Len(order) : order[i] = "compare" => i = 4
        BY <2>2
      <3> HIDE DEF order
      <3>. QED  BY <2>1, <3>1, <3>2, Following
    <2>. QED  BY <2>3, <2>4
  <1>2. ASSUME kind[c] = "vllm_service"
        PROVE  /\ After(c, "down") = "quiet"
               /\ After(c, "leave") = "compare"
               /\ After(c, "compare") = "restore"
    <2> DEFINE order == <<"down", "quiet", "remove", "leave", "compare", "restore", "report">>
    <2>1. order = Finalisers[kind[c]]
      BY <1>2 DEF Finalisers
    <2>2. Len(order) = 7
      OBVIOUS
    <2>3. After(c, "down") = order[1 + 1]
      <3>1. 1 \in 1 .. Len(order) /\ order[1] = "down"
        BY <2>2
      <3>2. \A i \in 1 .. Len(order) : order[i] = "down" => i = 1
        BY <2>2
      <3> HIDE DEF order
      <3>. QED  BY <2>1, <3>1, <3>2, Following
    <2>4. After(c, "leave") = order[4 + 1]
      <3>1. 4 \in 1 .. Len(order) /\ order[4] = "leave"
        BY <2>2
      <3>2. \A i \in 1 .. Len(order) : order[i] = "leave" => i = 4
        BY <2>2
      <3> HIDE DEF order
      <3>. QED  BY <2>1, <3>1, <3>2, Following
    <2>5. After(c, "compare") = order[5 + 1]
      <3>1. 5 \in 1 .. Len(order) /\ order[5] = "compare"
        BY <2>2
      <3>2. \A i \in 1 .. Len(order) : order[i] = "compare" => i = 5
        BY <2>2
      <3> HIDE DEF order
      <3>. QED  BY <2>1, <3>1, <3>2, Following
    <2>. QED  BY <2>3, <2>4, <2>5
  <1>3. ASSUME kind[c] = "tls_smoke"
        PROVE  /\ After(c, "down") = "verify"
               /\ After(c, "verify") = "leave"
               /\ After(c, "leave") = "report"
    <2> DEFINE order == <<"down", "verify", "leave", "report">>
    <2>1. order = Finalisers[kind[c]]
      BY <1>3 DEF Finalisers
    <2>2. Len(order) = 4
      OBVIOUS
    <2>3. After(c, "down") = order[1 + 1]
      <3>1. 1 \in 1 .. Len(order) /\ order[1] = "down"
        BY <2>2
      <3>2. \A i \in 1 .. Len(order) : order[i] = "down" => i = 1
        BY <2>2
      <3> HIDE DEF order
      <3>. QED  BY <2>1, <3>1, <3>2, Following
    <2>4. After(c, "verify") = order[2 + 1]
      <3>1. 2 \in 1 .. Len(order) /\ order[2] = "verify"
        BY <2>2
      <3>2. \A i \in 1 .. Len(order) : order[i] = "verify" => i = 2
        BY <2>2
      <3> HIDE DEF order
      <3>. QED  BY <2>1, <3>1, <3>2, Following
    <2>5. After(c, "leave") = order[3 + 1]
      <3>1. 3 \in 1 .. Len(order) /\ order[3] = "leave"
        BY <2>2
      <3>2. \A i \in 1 .. Len(order) : order[i] = "leave" => i = 3
        BY <2>2
      <3> HIDE DEF order
      <3>. QED  BY <2>1, <3>1, <3>2, Following
    <2>. QED  BY <2>3, <2>4, <2>5
  <1>4. ASSUME kind[c] = "vllm_smoke"
        PROVE  /\ After(c, "down") = "compare"
               /\ After(c, "compare") = "leave"
               /\ After(c, "leave") = "report"
    <2> DEFINE order == <<"down", "compare", "leave", "report">>
    <2>1. order = Finalisers[kind[c]]
      BY <1>4 DEF Finalisers
    <2>2. Len(order) = 4
      OBVIOUS
    <2>3. After(c, "down") = order[1 + 1]
      <3>1. 1 \in 1 .. Len(order) /\ order[1] = "down"
        BY <2>2
      <3>2. \A i \in 1 .. Len(order) : order[i] = "down" => i = 1
        BY <2>2
      <3> HIDE DEF order
      <3>. QED  BY <2>1, <3>1, <3>2, Following
    <2>4. After(c, "compare") = order[2 + 1]
      <3>1. 2 \in 1 .. Len(order) /\ order[2] = "compare"
        BY <2>2
      <3>2. \A i \in 1 .. Len(order) : order[i] = "compare" => i = 2
        BY <2>2
      <3> HIDE DEF order
      <3>. QED  BY <2>1, <3>1, <3>2, Following
    <2>5. After(c, "leave") = order[3 + 1]
      <3>1. 3 \in 1 .. Len(order) /\ order[3] = "leave"
        BY <2>2
      <3>2. \A i \in 1 .. Len(order) : order[i] = "leave" => i = 3
        BY <2>2
      <3> HIDE DEF order
      <3>. QED  BY <2>1, <3>1, <3>2, Following
    <2>. QED  BY <2>3, <2>4, <2>5
  <1>5. ASSUME kind[c] = "integration"
        PROVE  /\ After(c, "logs") = "down"
               /\ After(c, "down") = "report"
    <2> DEFINE order == <<"logs", "down", "report">>
    <2>1. order = Finalisers[kind[c]]
      BY <1>5 DEF Finalisers
    <2>2. Len(order) = 3
      OBVIOUS
    <2>3. After(c, "logs") = order[1 + 1]
      <3>1. 1 \in 1 .. Len(order) /\ order[1] = "logs"
        BY <2>2
      <3>2. \A i \in 1 .. Len(order) : order[i] = "logs" => i = 1
        BY <2>2
      <3> HIDE DEF order
      <3>. QED  BY <2>1, <3>1, <3>2, Following, SMTT(30)
    <2>4. After(c, "down") = order[2 + 1]
      <3>1. 2 \in 1 .. Len(order) /\ order[2] = "down"
        BY <2>2
      <3>2. \A i \in 1 .. Len(order) : order[i] = "down" => i = 2
        BY <2>2
      <3> HIDE DEF order
      <3>. QED  BY <2>1, <3>1, <3>2, Following
    <2>. QED  BY <2>3, <2>4
  <1>. QED  BY <1>1, <1>2, <1>3, <1>4, <1>5

\* Where each finaliser leads, script by script.
LEMMA Routes ==
    ASSUME IInv, NEW c \in Runs, pc[c] \notin {"steps", "done"}
    PROVE  /\ kind[c] \in Kinds
           /\ \/ /\ kind[c] = "tls_service"
                 /\ pc[c] \in {"down", "verify", "fallback", "reverify", "remove",
                               "leave", "compare", "restore", "report"}
                 /\ \A stage \in {"verify", "fallback", "reverify", "remove", "leave",
                                  "compare", "restore", "report"} :
                       stage \in Stages[kind[c]]
                 /\ After(c, "leave") = "compare" /\ After(c, "compare") = "restore"
              \/ /\ kind[c] = "vllm_service"
                 /\ pc[c] \in {"down", "quiet", "remove", "leave", "compare", "restore",
                               "report"}
                 /\ \A stage \in {"quiet", "remove", "leave", "compare", "restore",
                                  "report"} : stage \in Stages[kind[c]]
                 /\ After(c, "down") = "quiet"
                 /\ After(c, "leave") = "compare" /\ After(c, "compare") = "restore"
              \/ /\ kind[c] = "tls_smoke" /\ pc[c] \in {"down", "verify", "leave", "report"}
                 /\ \A stage \in {"verify", "leave", "report"} : stage \in Stages[kind[c]]
                 /\ After(c, "down") = "verify" /\ After(c, "verify") = "leave"
                 /\ After(c, "leave") = "report"
              \/ /\ kind[c] = "vllm_smoke" /\ pc[c] \in {"down", "compare", "leave", "report"}
                 /\ \A stage \in {"compare", "leave", "report"} : stage \in Stages[kind[c]]
                 /\ After(c, "down") = "compare" /\ After(c, "compare") = "leave"
                 /\ After(c, "leave") = "report"
              \/ /\ kind[c] = "integration" /\ pc[c] \in {"logs", "down", "report"}
                 /\ \A stage \in {"down", "report"} : stage \in Stages[kind[c]]
                 /\ After(c, "logs") = "down" /\ After(c, "down") = "report"
  <1>1. kind[c] \in Kinds /\ pc[c] \in Stages[kind[c]]
    BY Mine DEF Placed
  <1>2. CASE kind[c] = "tls_service"
    BY <1>1, <1>2, AfterFacts DEF Stages
  <1>3. CASE kind[c] = "vllm_service"
    BY <1>1, <1>3, AfterFacts DEF Stages
  <1>4. CASE kind[c] = "tls_smoke"
    BY <1>1, <1>4, AfterFacts DEF Stages
  <1>5. CASE kind[c] = "vllm_smoke"
    BY <1>1, <1>5, AfterFacts DEF Stages
  <1>6. CASE kind[c] = "integration"
    BY <1>1, <1>6, AfterFacts DEF Stages
  <1>. QED  BY <1>1, <1>2, <1>3, <1>4, <1>5, <1>6 DEF Kinds

\* The finalisers that come after the removal.
Last == {"quiet", "remove", "leave", "compare", "restore", "report"}

LEMMA NothingRemoved ==
    ASSUME IInv, NEW c \in Runs, docker' = docker, serving' = serving,
           kind'[c] = kind[c], cleanup'[c] = cleanup[c], pc[c] \in Last, pc'[c] \in Last
    PROVE  Resources(c)'
  <1>1. Clean(c)' <=> Clean(c)
    BY DEF Clean, On
  <1>2. Clean(c) \/ cleanup[c] # "none"
    BY Mine DEF Resources, Last
  <1>3. pc'[c] # "steps"
    BY DEF Last
  <1>. QED  BY <1>1, <1>2, <1>3, Mine DEF Resources, On

LEMMA LogsMoves ==
    ASSUME IInv, NEW c \in Runs, Logs(c)
    PROVE  Alone(c) /\ Good(c)'
  <1>1. Alone(c)
    BY Mine DEF Logs, Alone, Arrays, Same, On, files, errors, host, Untouched, GoTo,
       Record
  <1>2. Placed(c)' /\ exit'[c] # "ok"
    BY Mine, Routes DEF Logs, Arrays, Placed, Untouched, GoTo, files, errors
  <1>3. Resources(c)'
    BY Mine, Routes DEF Logs, Arrays, Resources, Clean, On, host, Untouched, GoTo,
       Record, Keep
  <1>4. Unlabelled(c)'
    BY Mine, Routes DEF Logs, Arrays, Unlabelled, On, host, errors, Untouched, GoTo
  <1>5. Private(c)'
    BY Mine, Routes DEF Logs, Arrays, Private, Services, files, errors, Untouched,
       GoTo, Record, Keep
  <1>. QED  BY <1>1, <1>2, <1>3, <1>4, <1>5 DEF Good

LEMMA FindsNothingMoves ==
    ASSUME IInv, NEW c \in Runs, FindsNothing(c)
    PROVE  Alone(c) /\ Good(c)'
  <1>1. Alone(c)
    BY Mine DEF FindsNothing, AfterResidue, Alone, Arrays, Same, On, files, errors,
       host, Untouched, GoTo, Record
  <1>2. Placed(c)' /\ exit'[c] # "ok"
    BY Mine, Routes DEF FindsNothing, AfterResidue, Arrays, Placed, Untouched, GoTo,
       files, errors
  <1>3. Resources(c)'
    BY Mine, Routes DEF FindsNothing, AfterResidue, Project, Named, Labelled,
       Arrays, Resources, Clean, On, host, Untouched, GoTo, Record, Keep
  <1>4. Unlabelled(c)'
    BY Mine, Routes DEF FindsNothing, AfterResidue, Arrays, Unlabelled, On, host,
       errors, Untouched, GoTo
  <1>5. Private(c)'
    BY Mine, Routes DEF FindsNothing, AfterResidue, Arrays, Private, Services,
       files, errors, Untouched, GoTo, Record, Keep
  <1>. QED  BY <1>1, <1>2, <1>3, <1>4, <1>5 DEF Good

LEMMA FindsResidueMoves ==
    ASSUME IInv, NEW c \in Runs, FindsResidue(c)
    PROVE  Alone(c) /\ Good(c)'
  <1>1. Alone(c)
    BY Mine DEF FindsResidue, AfterResidue, Alone, Arrays, Same, On, files, errors,
       host, Untouched, GoTo, Record
  <1>2. Placed(c)' /\ exit'[c] # "ok"
    BY Mine, Routes DEF FindsResidue, AfterResidue, Arrays, Placed, Untouched, GoTo,
       files, errors
  <1>3. Resources(c)'
    BY Mine, Routes DEF FindsResidue, AfterResidue, CleanupError, Arrays, Resources,
       Clean, On, host, Untouched, GoTo, Record, Keep
  <1>4. Unlabelled(c)'
    BY Mine, Routes DEF FindsResidue, AfterResidue, Arrays, Unlabelled, On, host,
       errors, Untouched, GoTo
  <1>5. Private(c)'
    BY Mine, Routes DEF FindsResidue, AfterResidue, Arrays, Private, Services,
       files, errors, Untouched, GoTo, Record, Keep
  <1>. QED  BY <1>1, <1>2, <1>3, <1>4, <1>5 DEF Good

LEMMA GpuQuietMoves ==
    ASSUME IInv, NEW c \in Runs, GpuQuiet(c)
    PROVE  Alone(c) /\ Good(c)'
  <1>1. Alone(c)
    BY Mine DEF GpuQuiet, Alone, Arrays, Same, On, files, errors, host, Untouched,
       GoTo, Record
  <1>2. Placed(c)' /\ exit'[c] # "ok"
    BY Mine, Routes DEF GpuQuiet, Arrays, Placed, Untouched, GoTo, files, errors
  <1>3. Resources(c)'
    <2>1. /\ docker' = docker /\ serving' = serving /\ kind'[c] = kind[c]
          /\ cleanup'[c] = cleanup[c]
      BY DEF GpuQuiet, host, errors, Untouched
    <2>2. pc[c] \in Last /\ pc'[c] \in Last
      BY Mine, Routes DEF GpuQuiet, Arrays, GoTo, Last
    <2>. QED  BY <2>1, <2>2, NothingRemoved
  <1>4. Unlabelled(c)'
    BY Mine, Routes DEF GpuQuiet, Arrays, Unlabelled, On, host, errors, Untouched,
       GoTo
  <1>5. Private(c)'
    BY Mine, Routes DEF GpuQuiet, Arrays, Private, Services, files, errors,
       Untouched, GoTo, Record, Keep
  <1>. QED  BY <1>1, <1>2, <1>3, <1>4, <1>5 DEF Good

LEMMA GpuStaysUsedMoves ==
    ASSUME IInv, NEW c \in Runs, GpuStaysUsed(c)
    PROVE  Alone(c) /\ Good(c)'
  <1>1. Alone(c)
    BY Mine DEF GpuStaysUsed, Alone, Arrays, Same, On, files, errors, host,
       Untouched, GoTo, Record
  <1>2. Placed(c)' /\ exit'[c] # "ok"
    BY Mine, Routes DEF GpuStaysUsed, Arrays, Placed, Untouched, GoTo, files, errors
  <1>3. Resources(c)'
    BY Mine, Routes DEF GpuStaysUsed, Arrays, Resources, Clean, On, host, Untouched,
       GoTo, Record, Keep
  <1>4. Unlabelled(c)'
    BY Mine, Routes DEF GpuStaysUsed, Arrays, Unlabelled, On, host, errors,
       Untouched, GoTo
  <1>5. Private(c)'
    BY Mine, Routes DEF GpuStaysUsed, Arrays, Private, Services, files, errors,
       Untouched, GoTo, Record, Keep
  <1>. QED  BY <1>1, <1>2, <1>3, <1>4, <1>5 DEF Good

LEMMA RemoveHandoffMoves ==
    ASSUME IInv, NEW c \in Runs, RemoveHandoff(c)
    PROVE  Alone(c) /\ Good(c)'
  <1>1. Alone(c)
    BY Mine DEF RemoveHandoff, Alone, Arrays, Same, On, files, errors, host,
       Untouched, GoTo, Record
  <1>2. Placed(c)' /\ exit'[c] # "ok"
    BY Mine, Routes DEF RemoveHandoff, Arrays, Placed, Untouched, GoTo, files, errors
  <1>3. Resources(c)'
    BY Mine, Routes DEF RemoveHandoff, Arrays, Resources, Clean, On, host,
       Untouched, GoTo, Record, Keep
  <1>4. Unlabelled(c)'
    BY Mine, Routes DEF RemoveHandoff, Arrays, Unlabelled, On, host, errors,
       Untouched, GoTo
  <1>5. Private(c)'
    BY Mine, Routes DEF RemoveHandoff, Arrays, Private, Services, files, errors,
       Untouched, GoTo, Record, Keep
  <1>. QED  BY <1>1, <1>2, <1>3, <1>4, <1>5 DEF Good

LEMMA LeaveTempdirMoves ==
    ASSUME IInv, NEW c \in Runs, LeaveTempdir(c)
    PROVE  Alone(c) /\ Good(c)'
  <1>1. Alone(c)
    BY Mine DEF LeaveTempdir, Alone, Arrays, Same, On, files, errors, host,
       Untouched, GoTo, Record
  <1>2. Placed(c)' /\ exit'[c] # "ok"
    BY Mine, Routes DEF LeaveTempdir, Arrays, Placed, Untouched, GoTo, files, errors
  <1>3. Resources(c)'
    <2>1. /\ docker' = docker /\ serving' = serving /\ kind'[c] = kind[c]
          /\ cleanup'[c] = cleanup[c]
      BY DEF LeaveTempdir, host, errors, Untouched
    <2>2. pc[c] \in Last /\ pc'[c] \in Last
      BY Mine, Routes DEF LeaveTempdir, Arrays, GoTo, Last
    <2>. QED  BY <2>1, <2>2, NothingRemoved
  <1>4. Unlabelled(c)'
    BY Mine, Routes DEF LeaveTempdir, Arrays, Unlabelled, On, host, errors,
       Untouched, GoTo
  <1>5. Private(c)'
    BY Mine, Routes DEF LeaveTempdir, Arrays, Private, Services, files, errors,
       Untouched, GoTo, Record, Keep
  <1>. QED  BY <1>1, <1>2, <1>3, <1>4, <1>5 DEF Good

LEMMA LeaveTempdirFailsMoves ==
    ASSUME IInv, NEW c \in Runs, LeaveTempdirFails(c)
    PROVE  Alone(c) /\ Good(c)'
  <1>1. Alone(c)
    BY Mine DEF LeaveTempdirFails, Alone, Arrays, Same, On, files, errors, host,
       Untouched, GoTo, Record
  <1>2. Placed(c)' /\ exit'[c] # "ok"
    BY Mine, Routes DEF LeaveTempdirFails, Arrays, Placed, Untouched, GoTo, files,
       errors
  <1>3. Resources(c)'
    BY Mine, Routes DEF LeaveTempdirFails, CleanupError, Arrays, Resources, Clean,
       On, host, Untouched, GoTo, Record, Keep
  <1>4. Unlabelled(c)'
    BY Mine, Routes DEF LeaveTempdirFails, Arrays, Unlabelled, On, host, errors,
       Untouched, GoTo
  <1>5. Private(c)'
    BY Mine, Routes DEF LeaveTempdirFails, CleanupError, Arrays, Private, Services,
       files, errors, Untouched, GoTo, Record, Keep
  <1>. QED  BY <1>1, <1>2, <1>3, <1>4, <1>5 DEF Good

LEMMA CompareMoves ==
    ASSUME IInv, NEW c \in Runs, Compare(c)
    PROVE  Alone(c) /\ Good(c)'
  <1>1. Alone(c)
    BY Mine DEF Compare, Alone, Arrays, Same, On, files, errors, host, Untouched,
       GoTo, Record
  <1>2. Placed(c)' /\ exit'[c] # "ok"
    BY Mine, Routes DEF Compare, Arrays, Placed, Untouched, GoTo, files, errors
  <1>3. Resources(c)'
    <2>1. /\ docker' = docker /\ serving' = serving /\ kind'[c] = kind[c]
          /\ cleanup'[c] = cleanup[c]
      BY DEF Compare, host, errors, Untouched
    <2>2. pc[c] \in Last /\ pc'[c] \in Last
      BY Mine, Routes DEF Compare, Arrays, GoTo, Last
    <2>. QED  BY <2>1, <2>2, NothingRemoved
  <1>4. Unlabelled(c)'
    BY Mine, Routes DEF Compare, Observed, Arrays, Unlabelled, On, host, errors,
       Untouched, GoTo
  <1>5. Private(c)'
    BY Mine, Routes DEF Compare, Arrays, Private, Services, files, errors,
       Untouched, GoTo, Record, Keep
  <1>. QED  BY <1>1, <1>2, <1>3, <1>4, <1>5 DEF Good

LEMMA CompareFailsMoves ==
    ASSUME IInv, NEW c \in Runs, CompareFails(c)
    PROVE  Alone(c) /\ Good(c)'
  <1>1. Alone(c)
    BY Mine DEF CompareFails, Alone, Arrays, Same, On, files, errors, host,
       Untouched, GoTo, Record
  <1>2. Placed(c)' /\ exit'[c] # "ok"
    BY Mine, Routes DEF CompareFails, Arrays, Placed, Untouched, GoTo, files, errors
  <1>3. Resources(c)'
    BY Mine, Routes DEF CompareFails, Arrays, Resources, Clean, On, host, Untouched,
       GoTo, Record, Keep
  <1>4. Unlabelled(c)'
    BY Mine, Routes DEF CompareFails, Arrays, Unlabelled, On, host, errors,
       Untouched, GoTo
  <1>5. Private(c)'
    BY Mine, Routes DEF CompareFails, Arrays, Private, Services, files, errors,
       Untouched, GoTo, Record, Keep
  <1>. QED  BY <1>1, <1>2, <1>3, <1>4, <1>5 DEF Good

LEMMA RestoreHandlersMoves ==
    ASSUME IInv, NEW c \in Runs, RestoreHandlers(c)
    PROVE  Alone(c) /\ Good(c)'
  <1>1. Alone(c)
    BY Mine DEF RestoreHandlers, Alone, Arrays, Same, On, files, errors, host,
       Untouched, GoTo, Record
  <1>2. Placed(c)' /\ exit'[c] # "ok"
    BY Mine, Routes DEF RestoreHandlers, Arrays, Placed, Untouched, GoTo, files,
       errors
  <1>3. Resources(c)'
    BY Mine, Routes DEF RestoreHandlers, Arrays, Resources, Clean, On, host,
       Untouched, GoTo, Record, Keep
  <1>4. Unlabelled(c)'
    BY Mine, Routes DEF RestoreHandlers, Arrays, Unlabelled, On, host, errors,
       Untouched, GoTo
  <1>5. Private(c)'
    BY Mine, Routes DEF RestoreHandlers, Arrays, Private, Services, files, errors,
       Untouched, GoTo, Record, Keep
  <1>. QED  BY <1>1, <1>2, <1>3, <1>4, <1>5 DEF Good

-----------------------------------------------------------------------------
(* The removal of a project's resources, which may break off *)

\* Only resources of the project go, and a service goes before its container.
Shrinks(c) ==
    /\ docker' \subseteq docker
    /\ \A d \in Runs : d # c => \A name : <<d, name>> \in docker => <<d, name>> \in docker'
    /\ <<c, "probe">> \in docker => <<c, "probe">> \in docker'
    /\ c \in serving' => <<c, "container">> \in docker'
    /\ \A d \in Runs : d # c => (d \in serving' <=> d \in serving)

LEMMA ProjectFacts ==
    ASSUME NEW c
    PROVE  /\ Project(c) \subseteq docker
           /\ \A x \in Project(c) : \E name \in Labelled : x = <<c, name>>
           /\ \A name \in Labelled : <<c, name>> \in docker => <<c, name>> \in Project(c)
  BY DEF Project, Named, Labelled

LEMMA ProjectIsItsOwn ==
    ASSUME NEW c, NEW x \in Project(c)
    PROVE  x[1] = c /\ x # <<c, "probe">>
  <1>1. PICK name \in Labelled : x = <<c, name>>
    BY ProjectFacts
  <1>2. name # "probe"
    BY DEF Labelled
  <1>. QED  BY <1>1, <1>2

LEMMA BreaksOffShrinks ==
    ASSUME IInv, NEW c \in Runs, BreaksOff(c)
    PROVE  Shrinks(c)
  <1>1. PICK gone \in SUBSET Project(c) :
            /\ docker' = docker \ gone
            /\ \/ serving' = serving \ {c}
               \/ <<c, "container">> \notin gone /\ serving' = serving
    BY DEF BreaksOff
  <1>2. \A x \in gone : \E name \in Labelled : x = <<c, name>>
    BY <1>1, ProjectFacts
  <1>3. <<c, "probe">> \notin gone
    BY <1>2 DEF Labelled
  <1>4. c \in serving => <<c, "container">> \in docker
    BY Mine DEF Resources, On
  <1>. QED  BY <1>1, <1>2, <1>3, <1>4 DEF Shrinks

\* A removal that does not go on to look for residue is through, or has left an
\* error.
LEMMA RemovalMoves ==
    ASSUME IInv, NEW c \in Runs, Shrinks(c), pc[c] \in {"down", "fallback"},
           NEW stage, pc' = [pc EXCEPT ![c] = stage],
           \/ stage \in {"verify", "fallback", "reverify", "remove"} /\ kind[c] = "tls_service"
           \/ stage = "quiet" /\ kind[c] = "vllm_service"
           \/ stage \in {"verify", "leave"} /\ kind[c] = "tls_smoke"
           \/ stage = "compare" /\ kind[c] = "vllm_smoke"
           \/ stage = "report" /\ kind[c] = "integration",
           UNCHANGED <<kind, at, before, handlers, exit, files, primary, protected,
                       restored>>,
           DOMAIN cleanup' = Runs, \A d \in Runs : d # c => cleanup'[d] = cleanup[d],
           stage \notin {"verify", "fallback", "reverify"}
              => Clean(c)' \/ cleanup'[c] # "none"
    PROVE  Alone(c) /\ Good(c)'
  <1>1. /\ pc'[c] = stage /\ DOMAIN pc' = Runs
        /\ \A d \in Runs : d # c => pc'[d] = pc[d]
    BY Mine DEF Arrays
  <1>2. Alone(c)
    BY <1>1, Mine DEF Alone, Arrays, Same, Shrinks, On, files
  <1>3. Placed(c)' /\ exit'[c] # "ok"
    <2>1. stage \in Stages[kind[c]]
      BY DEF Stages
    <2>2. exit[c] # "ok" /\ kind[c] \in Kinds
      BY Mine DEF Placed
    <2>. QED  BY <1>1, <2>1, <2>2 DEF Placed
  <1>4. Resources(c)'
    BY <1>1, Mine DEF Resources, Shrinks, On
  <1>5. Unlabelled(c)'
    BY <1>1, Mine DEF Unlabelled
  <1>6. Private(c)'
    BY <1>1, Mine DEF Private, Services, files
  <1>. QED  BY <1>2, <1>3, <1>4, <1>5, <1>6 DEF Good

LEMMA DownMoves ==
    ASSUME IInv, NEW c \in Runs, Down(c)
    PROVE  Alone(c) /\ Good(c)'
  <1>1. PICK oneOff \in SUBSET (docker \cap Named(c, {"certificates"})) :
            docker' = (docker \ Project(c)) \cup oneOff
    BY DEF Down
  <1>2. oneOff \subseteq docker /\ \A x \in oneOff : x = <<c, "certificates">>
    BY <1>1 DEF Named
  <1>3. pc[c] = "down" /\ serving' = serving \ {c}
    BY DEF Down
  <1>4. Shrinks(c)
    <2>1. \A x \in Project(c) : x[1] = c /\ x # <<c, "probe">>
      BY ProjectIsItsOwn
    <2>. QED  BY <1>1, <1>2, <1>3, <2>1 DEF Shrinks
  <1>5. kind[c] \notin {"tls_service", "tls_smoke"} => Clean(c)'
    <2>1. On(c, "certificates") => kind[c] \in {"tls_service", "tls_smoke"}
      BY Mine DEF Resources
    <2>. QED  BY <1>1, <1>2, <2>1, ProjectFacts DEF Clean, On
  <1>6. /\ pc' = [pc EXCEPT ![c] = IF kind[c] = "tls_service" THEN "verify"
                                   ELSE After(c, "down")]
        /\ UNCHANGED <<kind, at, before, handlers, exit, files, primary, protected,
                       restored, cleanup>>
    BY DEF Down, GoTo, Untouched, errors
  <1> DEFINE stage == IF kind[c] = "tls_service" THEN "verify" ELSE After(c, "down")
  <1>7. \/ stage = "verify" /\ kind[c] = "tls_service"
        \/ stage = "quiet" /\ kind[c] = "vllm_service"
        \/ stage = "verify" /\ kind[c] = "tls_smoke"
        \/ stage = "compare" /\ kind[c] = "vllm_smoke"
        \/ stage = "report" /\ kind[c] = "integration"
    BY <1>3, Routes
  <1>8. pc' = [pc EXCEPT ![c] = stage]
    BY <1>6
  <1>9. DOMAIN cleanup' = Runs /\ \A d \in Runs : d # c => cleanup'[d] = cleanup[d]
    BY <1>6, Mine DEF Arrays
  <1> HIDE DEF stage
  <1>10. stage \notin {"verify", "fallback", "reverify"} => Clean(c)'
    BY <1>5, <1>7
  <1>. QED  BY <1>3, <1>4, <1>6, <1>7, <1>8, <1>9, <1>10, RemovalMoves

\* An error that is recorded stays, or is the first one.
LEMMA RecordFacts ==
    ASSUME IInv, NEW c \in Runs, NEW error, error # "none", Record(c, error)
    PROVE  /\ DOMAIN cleanup' = Runs /\ cleanup'[c] # "none"
           /\ \A d \in Runs : d # c => cleanup'[d] = cleanup[d]
  BY Mine DEF Record, Keep, Arrays

LEMMA DownFailsMoves ==
    ASSUME IInv, NEW c \in Runs, DownFails(c)
    PROVE  Alone(c) /\ Good(c)'
  <1>1. /\ pc[c] = "down" /\ BreaksOff(c)
        /\ UNCHANGED <<kind, at, before, handlers, exit, files, primary, protected,
                       restored>>
    BY DEF DownFails, Untouched
  <1>2. Shrinks(c)
    BY <1>1, BreaksOffShrinks
  <1>3. CASE kind[c] = "tls_service"
    <2>1. pc' = [pc EXCEPT ![c] = "fallback"] /\ cleanup' = cleanup
      BY <1>3 DEF DownFails, GoTo
    <2>2. DOMAIN cleanup' = Runs /\ \A d \in Runs : d # c => cleanup'[d] = cleanup[d]
      BY <2>1, Mine DEF Arrays
    <2>. QED  BY <1>1, <1>2, <1>3, <2>1, <2>2, RemovalMoves
  <1>4. CASE kind[c] # "tls_service"
    <2>1. /\ pc' = [pc EXCEPT ![c] = After(c, "down")]
          /\ Record(c, CleanupError(c))
      BY <1>4 DEF DownFails, GoTo
    <2>2. /\ DOMAIN cleanup' = Runs /\ cleanup'[c] # "none"
          /\ \A d \in Runs : d # c => cleanup'[d] = cleanup[d]
      BY <2>1, RecordFacts DEF CleanupError
    <2> DEFINE stage == After(c, "down")
    <2>3. \/ stage = "quiet" /\ kind[c] = "vllm_service"
          \/ stage = "verify" /\ kind[c] = "tls_smoke"
          \/ stage = "compare" /\ kind[c] = "vllm_smoke"
          \/ stage = "report" /\ kind[c] = "integration"
      BY <1>1, <1>4, Routes
    <2>4. pc' = [pc EXCEPT ![c] = stage]
      BY <2>1
    <2> HIDE DEF stage
    <2>. QED  BY <1>1, <1>2, <2>2, <2>3, <2>4, RemovalMoves
  <1>. QED  BY <1>3, <1>4

LEMMA FallbackMoves ==
    ASSUME IInv, NEW c \in Runs, Fallback(c)
    PROVE  Alone(c) /\ Good(c)'
  <1>1. /\ pc[c] = "fallback" /\ pc' = [pc EXCEPT ![c] = "reverify"]
        /\ docker' = docker \ Project(c) /\ serving' = serving \ {c}
        /\ UNCHANGED <<kind, at, before, handlers, exit, files, primary, protected,
                       restored, cleanup>>
    BY DEF Fallback, GoTo, Untouched, errors
  <1>2. Shrinks(c)
    <2>1. \A x \in Project(c) : x[1] = c /\ x # <<c, "probe">>
      BY ProjectIsItsOwn
    <2>. QED  BY <1>1, <2>1 DEF Shrinks
  <1>3. kind[c] = "tls_service"
    BY <1>1, Routes
  <1>4. DOMAIN cleanup' = Runs /\ \A d \in Runs : d # c => cleanup'[d] = cleanup[d]
    BY <1>1, Mine DEF Arrays
  <1>. QED  BY <1>1, <1>2, <1>3, <1>4, RemovalMoves

LEMMA FallbackFailsMoves ==
    ASSUME IInv, NEW c \in Runs, FallbackFails(c)
    PROVE  Alone(c) /\ Good(c)'
  <1>1. /\ pc[c] = "fallback" /\ pc' = [pc EXCEPT ![c] = "remove"]
        /\ BreaksOff(c) /\ Record(c, "E_CLEANUP")
        /\ UNCHANGED <<kind, at, before, handlers, exit, files, primary, protected,
                       restored>>
    BY DEF FallbackFails, GoTo, Untouched
  <1>2. Shrinks(c)
    BY <1>1, BreaksOffShrinks
  <1>3. kind[c] = "tls_service"
    BY <1>1, Routes
  <1>4. /\ DOMAIN cleanup' = Runs /\ cleanup'[c] # "none"
        /\ \A d \in Runs : d # c => cleanup'[d] = cleanup[d]
    BY <1>1, RecordFacts
  <1>. QED  BY <1>1, <1>2, <1>3, <1>4, RemovalMoves

LEMMA InterruptFinaliserMoves ==
    ASSUME IInv, NEW c \in Runs, InterruptFinaliser(c)
    PROVE  Alone(c) /\ Good(c)'
  <1>1. /\ kind[c] \notin Services /\ pc[c] \in {"logs", "down", "verify", "compare", "leave"}
        /\ Record(c, "interrupted")
        /\ UNCHANGED <<kind, at, before, handlers, exit, files, primary, protected,
                       restored>>
    BY DEF InterruptFinaliser, Untouched
  <1>2. /\ DOMAIN cleanup' = Runs /\ cleanup'[c] # "none"
        /\ \A d \in Runs : d # c => cleanup'[d] = cleanup[d]
    BY <1>1, RecordFacts
  <1>3. CASE pc[c] = "down"
    <2> DEFINE stage == IF kind[c] = "tls_smoke" THEN "leave" ELSE After(c, "down")
    <2>1. BreaksOff(c) /\ pc' = [pc EXCEPT ![c] = stage]
      BY <1>3 DEF InterruptFinaliser, GoTo
    <2>2. Shrinks(c)
      BY <2>1, BreaksOffShrinks
    <2>3. \/ stage = "leave" /\ kind[c] = "tls_smoke"
          \/ stage = "compare" /\ kind[c] = "vllm_smoke"
          \/ stage = "report" /\ kind[c] = "integration"
      BY <1>1, <1>3, Routes DEF Services
    <2> HIDE DEF stage
    <2>. QED  BY <1>1, <1>2, <1>3, <2>1, <2>2, <2>3, RemovalMoves
  <1>4. CASE pc[c] # "down"
    <2> DEFINE stage == After(c, pc[c])
    <2>1. docker' = docker /\ serving' = serving /\ pc' = [pc EXCEPT ![c] = stage]
      BY <1>4 DEF InterruptFinaliser, GoTo
    <2>2. \/ stage = "down" /\ pc[c] = "logs" /\ kind[c] = "integration"
          \/ stage = "leave" /\ kind[c] \in {"tls_smoke", "vllm_smoke"}
          \/ stage = "report" /\ kind[c] \in {"tls_smoke", "vllm_smoke"}
      BY <1>1, <1>4, Routes DEF Services
    <2>3. stage \in Stages[kind[c]]
      BY <2>2 DEF Stages
    <2> HIDE DEF stage
    <2>4. /\ pc'[c] = stage /\ DOMAIN pc' = Runs
          /\ \A d \in Runs : d # c => pc'[d] = pc[d]
      BY <2>1, Mine DEF Arrays
    <2>5. Alone(c)
      BY <1>1, <1>2, <2>1, <2>4, Mine DEF Alone, Arrays, Same, On, files
    <2>6. Placed(c)' /\ exit'[c] # "ok"
      BY <1>1, <2>2, <2>3, <2>4, Mine DEF Placed, Kinds
    <2>7. Resources(c)'
      BY <1>1, <1>2, <2>1, <2>2, <2>4, Mine DEF Resources, On
    <2>8. Unlabelled(c)'
      BY <1>1, <2>1, <2>2, <2>4, Mine DEF Unlabelled, On
    <2>9. Private(c)'
      BY <1>1, <1>2, <2>2, <2>4, Mine DEF Private, Services, files
    <2>. QED  BY <2>5, <2>6, <2>7, <2>8, <2>9 DEF Good
  <1>. QED  BY <1>3, <1>4

-----------------------------------------------------------------------------
(* The rest of the world *)

\* Something of the run goes away by itself, whatever the run is at.
LEMMA FadingMoves ==
    ASSUME IInv, NEW c \in Runs,
           UNCHANGED <<kind, pc, at, before, handlers, exit, files, errors>>,
           docker' \subseteq docker, docker \ docker' \subseteq {<<c, "probe">>},
           serving' \subseteq serving, serving \ serving' \subseteq {c}
    PROVE  Alone(c) /\ Good(c)'
  <1>1. \A name \in Labelled : On(c, name)' <=> On(c, name)
    BY DEF On, Labelled
  <1>2. (Clean(c)' <=> Clean(c)) /\ (On(c, "container")' <=> On(c, "container"))
    BY <1>1 DEF Clean, Labelled
  <1>3. Alone(c)
    BY Mine DEF Alone, Arrays, Same, On, files, errors
  <1>4. Placed(c)'
    BY Mine DEF Placed
  <1>5. Resources(c)'
    BY <1>1, <1>2, Mine DEF Resources, Labelled, errors
  <1>6. Unlabelled(c)'
    BY Mine DEF Unlabelled, On, errors
  <1>7. Private(c)'
    BY Mine DEF Private, files, errors
  <1>8. exit'[c] = "ok" => ~Leftover(c)'
    BY <1>2, Mine DEF Leftover, files
  <1>. QED  BY <1>3, <1>4, <1>5, <1>6, <1>7, <1>8 DEF Good

LEMMA ServiceDiesMoves ==
    ASSUME IInv, NEW c \in Runs, ServiceDies(c)
    PROVE  Alone(c) /\ Good(c)'
  BY FadingMoves DEF ServiceDies, Untouched

LEMMA ProbeEndsMoves ==
    ASSUME IInv, NEW c \in Runs, ProbeEnds(c)
    PROVE  Alone(c) /\ Good(c)'
  BY FadingMoves DEF ProbeEnds, Untouched

-----------------------------------------------------------------------------
(* The invariant *)

LEMMA InitGood ==
    Init => IInv
  <1> SUFFICES ASSUME Init  PROVE IInv
    OBVIOUS
  <1>1. kind \in [Runs -> Kinds \cup {"absent"}]
    BY PairingsAssumption DEF Init
  <1>2. Arrays
    BY <1>1 DEF Init, Arrays
  <1>3. ASSUME NEW c \in Runs  PROVE Good(c)
    <2>1. pc[c] = IF kind[c] = "absent" THEN "done" ELSE "steps"
      BY DEF Init
    <2>2. Placed(c) /\ exit[c] = "none"
      <3>1. kind[c] \in Kinds \cup {"absent"} /\ at[c] = 1 /\ exit[c] = "none"
        BY <1>1 DEF Init
      <3>2. kind[c] \in Kinds => 1 \in 1 .. Len(Program[kind[c]])
        BY ScriptSteps
      <3>. QED  BY <2>1, <3>1, <3>2 DEF Placed
    <2>3. Resources(c)
      BY <2>1 DEF Init, Resources, Clean, On
    <2>4. Unlabelled(c)
      BY <2>1 DEF Init, Unlabelled, On
    <2>5. Private(c)
      BY <2>1 DEF Init, Private
    <2>. QED  BY <2>2, <2>3, <2>4, <2>5 DEF Good
  <1>. QED  BY <1>2, <1>3 DEF IInv

LEMMA StartGood ==
    ASSUME IInv, NEW c \in Runs, Start(c)
    PROVE  IInv'
  <1>1. Alone(c) /\ Good(c)'
    <2>1. CASE Check(c) \/ NothingServes(c) \/ RunOneOff(c) \/ BecomesHealthy(c) \/ EndWait(c)
      BY <2>1, PassingMoves
    <2>2. CASE TakeSnapshot(c)
      BY <2>2, TakeSnapshotMoves
    <2>3. CASE PreflightOnly(c)
      BY <2>3, PreflightOnlyMoves
    <2>4. CASE InstallHandlers(c)
      BY <2>4, InstallHandlersMoves
    <2>5. CASE MakeTempdir(c)
      BY <2>5, MakeTempdirMoves
    <2>6. CASE Up(c)
      BY <2>6, UpMoves
    <2>7. CASE CreateHandoff(c)
      BY <2>7, CreateHandoffMoves
    <2>8. CASE StepFails(c)
      BY <2>8, StepFailsMoves
    <2>9. CASE EarlyFailure(c)
      BY <2>9, EarlyFailureMoves
    <2>10. CASE TempdirFails(c)
      BY <2>10, TempdirFailsMoves
    <2>. QED
      BY <2>1, <2>2, <2>3, <2>4, <2>5, <2>6, <2>7, <2>8, <2>9, <2>10 DEF Start
  <1>. QED  BY <1>1, OthersStayGood

LEMMA FinishGood ==
    ASSUME IInv, NEW c \in Runs, Finish(c)
    PROVE  IInv'
  <1>1. Alone(c) /\ Good(c)'
    <2>1. CASE Logs(c)
      BY <2>1, LogsMoves
    <2>2. CASE Down(c)
      BY <2>2, DownMoves
    <2>3. CASE DownFails(c)
      BY <2>3, DownFailsMoves
    <2>4. CASE FindsNothing(c)
      BY <2>4, FindsNothingMoves
    <2>5. CASE FindsResidue(c)
      BY <2>5, FindsResidueMoves
    <2>6. CASE Fallback(c)
      BY <2>6, FallbackMoves
    <2>7. CASE FallbackFails(c)
      BY <2>7, FallbackFailsMoves
    <2>8. CASE GpuQuiet(c)
      BY <2>8, GpuQuietMoves
    <2>9. CASE GpuStaysUsed(c)
      BY <2>9, GpuStaysUsedMoves
    <2>10. CASE RemoveHandoff(c)
      BY <2>10, RemoveHandoffMoves
    <2>11. CASE LeaveTempdir(c)
      BY <2>11, LeaveTempdirMoves
    <2>12. CASE LeaveTempdirFails(c)
      BY <2>12, LeaveTempdirFailsMoves
    <2>13. CASE Compare(c)
      BY <2>13, CompareMoves
    <2>14. CASE CompareFails(c)
      BY <2>14, CompareFailsMoves
    <2>15. CASE RestoreHandlers(c)
      BY <2>15, RestoreHandlersMoves
    <2>16. CASE Report(c)
      BY <2>16, ReportMoves
    <2>. QED
      BY <2>1, <2>2, <2>3, <2>4, <2>5, <2>6, <2>7, <2>8, <2>9, <2>10,
         <2>11, <2>12, <2>13, <2>14, <2>15, <2>16 DEF Finish
  <1>. QED  BY <1>1, OthersStayGood

LEMMA StepGood ==
    IInv /\ [Next]_vars => IInv'
  <1> SUFFICES ASSUME IInv, [Next]_vars  PROVE IInv'
    OBVIOUS
  <1>1. CASE UNCHANGED vars
    <2>1. Arrays'
      BY <1>1 DEF IInv, Arrays, vars
    <2>2. ASSUME NEW c \in Runs  PROVE Good(c)'
      <3>1. Good(c)
        BY DEF IInv
      <3>2. Placed(c)'
        BY <1>1, <3>1 DEF Good, Placed, vars
      <3>3. Resources(c)'
        BY <1>1, <3>1 DEF Good, Resources, Clean, On, vars
      <3>4. Unlabelled(c)'
        BY <1>1, <3>1 DEF Good, Unlabelled, On, vars
      <3>5. Private(c)'
        BY <1>1, <3>1 DEF Good, Private, vars
      <3>6. exit'[c] = "ok" => ~Leftover(c)'
        BY <1>1, <3>1 DEF Good, Leftover, Clean, On, vars
      <3>. QED  BY <3>2, <3>3, <3>4, <3>5, <3>6 DEF Good
    <2>. QED  BY <2>1, <2>2 DEF IInv
  <1>2. ASSUME NEW c \in Runs, Start(c)  PROVE IInv'
    BY <1>2, StartGood
  <1>3. ASSUME NEW c \in Runs, Finish(c)  PROVE IInv'
    BY <1>3, FinishGood
  <1>4. ASSUME NEW c \in Runs, InterruptFinaliser(c) \/ Kill(c) \/ ServiceDies(c) \/ ProbeEnds(c)
        PROVE  IInv'
    <2>1. Alone(c) /\ Good(c)'
      BY <1>4, InterruptFinaliserMoves, KillMoves, ServiceDiesMoves, ProbeEndsMoves
    <2>. QED  BY <2>1, OthersStayGood
  <1>. QED  BY <1>1, <1>2, <1>3, <1>4 DEF Next

\* Whatever the scripts, the order of their steps and the failures among them:
\* before a clean-up is due there is nothing to clean up, and from each finaliser
\* on what it should have removed is gone or an error of its own is kept.
THEOREM Inductive == Spec => []IInv
  <1>1. Init => IInv
    BY InitGood
  <1>2. IInv /\ [Next]_vars => IInv'
    BY StepGood
  <1>. QED  BY <1>1, <1>2, PTL DEF Spec

LEMMA NoticesEverything ==
    IInv => NothingLeftUnnoticed
  <1> SUFFICES ASSUME IInv  PROVE NothingLeftUnnoticed
    OBVIOUS
  <1>1. ASSUME NEW c \in Runs  PROVE Project(c) # {} => ~Clean(c)
    <2> SUFFICES ASSUME NEW x \in Project(c)  PROVE ~Clean(c)
      OBVIOUS
    <2>1. PICK name \in Labelled : x = <<c, name>>
      BY ProjectFacts
    <2>. QED  BY <2>1, ProjectFacts DEF Clean, On
  <1>2. SuccessLeavesNothing
    BY <1>1, Mine DEF SuccessLeavesNothing, Leftover
  <1>3. ASSUME NEW c \in Runs, pc[c] = "report"
        PROVE  /\ Project(c) # {} => cleanup[c] # "none"
               /\ (kind[c] = "tls_service" /\ docker \cap Named(c, {"probe"}) # {})
                     => protected[c] # "none"
    <2>1. Clean(c) \/ cleanup[c] # "none"
      BY <1>3, Mine DEF Resources
    <2>2. docker \cap Named(c, {"probe"}) # {} => On(c, "probe")
      BY DEF Named, On
    <2>3. kind[c] = "tls_service" => ~On(c, "probe") \/ protected[c] # "none"
      BY <1>3, Mine DEF Unlabelled
    <2>. QED  BY <1>1, <2>1, <2>2, <2>3
  <1>. QED  BY <1>2, <1>3 DEF NothingLeftUnnoticed

\* A run that reports success has left no resource, directory or handler of its
\* own, and one that comes to its report with something left of its project has
\* recorded an error: for every number of runs, every pairing of scripts on the
\* host, and every command that fails, is interrupted or dies half way.
THEOREM NothingEscapes == Spec => []NothingLeftUnnoticed
  <1>1. Spec => []IInv
    BY Inductive
  <1>2. IInv => NothingLeftUnnoticed
    BY NoticesEverything
  <1>. QED  BY <1>1, <1>2, PTL

=============================================================================
