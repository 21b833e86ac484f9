------------------------------ MODULE VectorStore ------------------------------
(* The PostgreSQL vector store of one tenant and knowledge base, and the commands *)
(* that use it: migration, provisioning, ingestion, retrieval, the prepared       *)
(* runtime, upserts and the synthetic end-to-end run with its clean-up.           *)
(*                                                                                *)
(* A command is a sequence of operations; each opens a connection, runs one       *)
(* READ COMMITTED transaction statement by statement and closes it. A statement   *)
(* sees what was committed when it starts, and waits for the locks of the other   *)
(* transactions. A connection may fail at any statement, and around COMMIT the    *)
(* client cannot tell whether its transaction took effect.                        *)
EXTENDS Naturals, Sequences, FiniteSets

CONSTANTS Clients, Ids, Texts, Profiles, NoProfile, NoRecord,
          Nobody,        \* no holder of the migration lock
          Keep,          \* a transaction that leaves the profile alone
          Jobs,          \* the commands of the clients: a set of [Clients -> Job]
          Stores,        \* what may be stored at first
          MaxAttempts,   \* times a client runs its command before it gives up
          MaxFaults      \* connections that fail in one behaviour

ASSUME BoundsAssumption == MaxAttempts \in Nat \ {0} /\ MaxFaults \in Nat

VARIABLES
    schema, profile, records,   \* what is committed
    migrating,   \* who holds the session lock of the migration
    txn,         \* the transaction of each session
    job,         \* the command of each client
    phase,       \* "main", "final" (its finally block), "rescue" (the same after
                 \* a failure), "done" or "failed"
    ops,         \* the operations it has yet to run; the first is under way
    step,        \* the statement it comes to
    seen,        \* the rows its get_records returned
    attempts, faults,
    answer       \* what the last operation returned or raised

store == <<schema, profile, records>>
control == <<job, phase, ops, step, attempts>>
vars == <<schema, profile, records, migrating, txn, job, phase, ops, step, seen,
          attempts, faults, answer>>

\* A client has a live session, and may leave one behind whose COMMIT is in doubt.
Sessions == Clients \X {"live", "orphan"}

Idle == [locks |-> {}, writes |-> <<>>, profile |-> Keep]

Begun(s) == txn[s] # Idle

-----------------------------------------------------------------------------
(* Operations and commands.                                                     *)
Op(kind, p, batch) == [kind |-> kind, profile |-> p, batch |-> batch]

Verify == Op("verify", NoProfile, <<>>)
Lookup(p) == Op("lookup", p, <<>>)
Register(p) == Op("register", p, <<>>)
Admit(p, batch) == Op("admit", p, batch)
Replace(p, batch) == Op("replace", p, batch)
Search(p) == Op("search", p, <<>>)
Clean == Op("clean", NoProfile, <<>>)

Job(main, final) == [main |-> main, final |-> final]

Migration == Job(<<Op("migrate", NoProfile, <<>>)>>, <<>>)
Provisioning(p) == Job(<<Verify, Register(p)>>, <<>>)
Ingestion(p, batch) == Job(<<Verify, Lookup(p), Admit(p, batch)>>, <<>>)
Retrieval(p) == Job(<<Verify, Lookup(p), Search(p)>>, <<>>)
\* Retrieval, then the prompt and the model, which touch no store.
Orchestration(p) == Job(<<Verify, Lookup(p), Search(p)>>, <<>>)
\* prepare() once, then one search for every run().
Runtime(p) == Job(<<Verify, Lookup(p), Search(p), Search(p)>>, <<>>)
Upsert(p, batch) == Job(<<Replace(p, batch)>>, <<>>)
EndToEnd(p, batch) ==
    Job(<<Clean>> \o Provisioning(p).main \o Ingestion(p, batch).main \o Orchestration(p).main,
        <<Clean>>)

\* The first statement of each operation.
FirstStep == [migrate |-> "lock", verify |-> "verify", lookup |-> "lookup",
              register |-> "scope", admit |-> "scope", replace |-> "scope",
              search |-> "bound", clean |-> "delete"]

\* What a command may ask of the store, and what the store may hold.
Batches == UNION {[S -> Texts] : S \in SUBSET Ids}
Writing == {"register", "admit", "replace"}
Configured == Writing \cup {"lookup", "search"}
Operations == {o \in [kind : DOMAIN FirstStep, profile : Profiles \cup {NoProfile},
                      batch : Batches] : o.kind \in Configured => o.profile \in Profiles}
Commands == [main : Seq(Operations) \ {<<>>}, final : Seq(Operations)]
Content == [text : Texts, under : Profiles, by : Clients]
Asked(command) == {command.main[i] : i \in DOMAIN command.main}
                  \cup {command.final[i] : i \in DOMAIN command.final}
Rows == Content \cup {NoRecord}

\* The commands are commands, and what is stored at first was stored by some.
ASSUME ProfilesAssumption == Profiles # {}
ASSUME NamesAssumption == /\ NoProfile \notin Profiles
                          /\ Keep \notin Profiles \cup {NoProfile}
                          /\ NoRecord \notin Content
ASSUME JobsAssumption == Jobs \subseteq [Clients -> Commands]
ASSUME StoresAssumption ==
    \A s \in Stores :
        /\ s[1] \in BOOLEAN /\ s[2] \in Profiles \cup {NoProfile} /\ s[3] \in [Ids -> Rows]
        /\ \A id \in Ids : s[3][id] # NoRecord => s[3][id].under = s[2]
        /\ ~s[1] => s[2] = NoProfile

\* A command has one text for a record, also when it is run again on the same input.
ASSUME InputAssumption ==
    \A j \in Jobs, c \in Clients : \A o \in Asked(j[c]) : \A id \in DOMAIN o.batch :
        /\ \A other \in Asked(j[c]) : id \in DOMAIN other.batch => other.batch[id] = o.batch[id]
        /\ \A s \in Stores : s[3][id] # NoRecord /\ s[3][id].by = c => s[3][id].text = o.batch[id]

Current(c) == Head(ops[c])
At(c, kind, s) == ops[c] # <<>> /\ Current(c).kind = kind /\ step[c] = s

\* What the client offers to store, embedded under its own profile.
Offered(c) == [id \in DOMAIN Current(c).batch |->
                  [text |-> Current(c).batch[id], under |-> Current(c).profile, by |-> c]]

\* Text, embedding and metadata agree.
RowsAreEqual(stored, candidate) == /\ stored.text = candidate.text
                                   /\ stored.under = candidate.under

\* What the client read of its batch: the identifiers that are not stored, and
\* those that are stored with something else.
NewIds(c) == {id \in DOMAIN seen[c] : seen[c][id] = NoRecord}

\* Mutant: whatever is there already is a conflict.
AnyStored(c) == DOMAIN seen[c] \ NewIds(c)

Conflicting(c) == {id \in DOMAIN seen[c] \ NewIds(c) : ~RowsAreEqual(seen[c][id], Offered(c)[id])}

-----------------------------------------------------------------------------
(* Locks. A session waits for those that hold what its next statement needs.    *)
Others(c) == Sessions \ {<<c, "live">>}

\* FOR UPDATE, DELETE and the foreign key need the profile's row, if there is one.
RowHolders(c) == {s \in Others(c) : profile # NoProfile /\ "row" \in txn[s].locks}

Writers(c, S) == {s \in Others(c) : DOMAIN txn[s].writes \cap S # {}}

Stored == {id \in Ids : records[id] # NoRecord}

Blockers(c) ==
    IF ops[c] = <<>> THEN {}
    ELSE CASE step[c] = "scope" -> {s \in Others(c) : "scope" \in txn[s].locks}
           [] step[c] \in {"profile", "unprofile"} -> RowHolders(c)
           [] step[c] = "put" -> IF Conflicting(c) # {} THEN {} ELSE Writers(c, NewIds(c))
           [] step[c] = "replace" -> Writers(c, DOMAIN Current(c).batch)
           [] step[c] = "delete" -> Writers(c, Stored)
           [] OTHER -> {}

Live(c) == txn[<<c, "live">>]
Update(c, t) == txn' = [txn EXCEPT ![<<c, "live">>] = t]
Locking(c, l) == Update(c, [Live(c) EXCEPT !.locks = @ \cup {l}])
Goto(c, s) == step' = [step EXCEPT ![c] = s]

-----------------------------------------------------------------------------
(* How a command goes on.                                                       *)
Start(c, todo) == /\ ops' = [ops EXCEPT ![c] = todo]
                  /\ step' = [step EXCEPT ![c] = IF todo = <<>> THEN "end"
                                                 ELSE FirstStep[Head(todo).kind]]

Forget(c) == seen' = [seen EXCEPT ![c] = <<>>]

\* The command failed for good, or its operator runs it once more.
Rerun(c) ==
    LET again == attempts[c] < MaxAttempts
    IN /\ attempts' = [attempts EXCEPT ![c] = IF again THEN @ + 1 ELSE @]
       /\ phase' = [phase EXCEPT ![c] = IF again THEN "main" ELSE "failed"]
       /\ Start(c, IF again THEN job[c].main ELSE <<>>)
       /\ UNCHANGED job

\* The operation under way returned: the next one, the finally block, or the end.
GoOn(c) ==
    IF Tail(ops[c]) # <<>>
    THEN Start(c, Tail(ops[c])) /\ UNCHANGED <<job, phase, attempts>>
    ELSE IF phase[c] = "main" /\ job[c].final # <<>>
    THEN /\ phase' = [phase EXCEPT ![c] = "final"]
         /\ Start(c, job[c].final)
         /\ UNCHANGED <<job, attempts>>
    ELSE IF phase[c] = "rescue" THEN Rerun(c)
    ELSE /\ phase' = [phase EXCEPT ![c] = "done"]
         /\ Start(c, <<>>)
         /\ UNCHANGED <<job, attempts>>

\* It raised: the finally block, if there is one that has not run yet.
GiveUp(c) ==
    IF phase[c] = "main" /\ job[c].final # <<>>
    THEN /\ phase' = [phase EXCEPT ![c] = "rescue"]
         /\ Start(c, job[c].final)
         /\ UNCHANGED <<job, attempts>>
    ELSE Rerun(c)

Returns(c, value) == /\ GoOn(c)
                     /\ answer' = [answer EXCEPT ![c] = value]
                     /\ Forget(c)

\* Mutant: the transaction is left open.
RaisesHolding(c, error) == /\ GiveUp(c)
                           /\ answer' = [answer EXCEPT ![c] = <<error>>]
                           /\ Forget(c)
                           /\ UNCHANGED <<store, txn, migrating, faults>>

\* The transaction is rolled back, the connection closed and the error raised.
Raises(c, error) == /\ GiveUp(c)
                    /\ Update(c, Idle)
                    /\ answer' = [answer EXCEPT ![c] = <<error>>]
                    /\ migrating' = IF migrating = c THEN Nobody ELSE migrating
                    /\ Forget(c)
                    /\ UNCHANGED <<store, faults>>

Statement(c) == UNCHANGED <<store, migrating, job, phase, ops, attempts, faults, answer>>

-----------------------------------------------------------------------------
(* Migration: the lock belongs to the session and outlives the rollback.        *)
InspectLockedState(c) ==
    /\ At(c, "migrate", "lock") /\ migrating = Nobody
    /\ migrating' = c
    /\ Goto(c, IF schema THEN "check" ELSE "apply")
    /\ UNCHANGED <<store, txn, job, phase, ops, seen, attempts, faults, answer>>

LockTimeout(c) == /\ At(c, "migrate", "lock") /\ migrating # Nobody
                  /\ Raises(c, "error")

\* The script creates a schema that must not exist yet.
ApplyMigration(c) ==
    /\ At(c, "migrate", "apply")
    /\ IF schema THEN Raises(c, "error")
       ELSE /\ schema' = TRUE
            /\ Goto(c, "check")
            /\ UNCHANGED <<profile, records, migrating, txn, job, phase, ops, seen,
                           attempts, faults, answer>>

\* The checker uses a second connection; closing the first releases the lock.
FinishMigration(c) ==
    /\ At(c, "migrate", "check") /\ schema
    /\ Returns(c, <<"migrated">>)
    /\ migrating' = Nobody
    /\ UNCHANGED <<store, txn, faults>>

\* The readiness check every deployment command begins with.
VerifyReadiness(c) ==
    /\ At(c, "verify", "verify")
    /\ IF schema THEN Returns(c, <<"ready">>) /\ UNCHANGED <<store, migrating, txn, faults>>
       ELSE Raises(c, "error")

\* The registered profile must be the one the command is configured with. Without
\* the schema every statement on a table fails.
Refused == IF schema THEN "unregistered" ELSE "error"

LookupProfile(c) ==
    /\ At(c, "lookup", "lookup")
    /\ IF schema /\ profile = Current(c).profile
       THEN /\ Returns(c, <<"confirmed", profile>>)
            /\ UNCHANGED <<store, migrating, txn, faults>>
       ELSE Raises(c, Refused)

-----------------------------------------------------------------------------
(* The transactions. Writers take the scope's advisory lock first, then that of *)
(* the profile's row.                                                           *)
AfterProfile(c) == CASE Current(c).kind = "register" -> "insert"
                     [] Current(c).kind = "admit" -> "records"
                     [] OTHER -> "replace"

AcquireScopeLock(c) ==
    /\ ops[c] # <<>> /\ step[c] = "scope" /\ Blockers(c) = {}
    /\ Locking(c, "scope")
    /\ Goto(c, "profile")
    /\ Statement(c) /\ UNCHANGED seen

\* The registered profile is the operation's; a registration also takes an empty scope.
Accepts(c) == schema /\ \/ profile = Current(c).profile
                        \/ profile = NoProfile /\ Current(c).kind = "register"

\* Mutant: the profile is read without FOR UPDATE.
ReadProfileUnlocked(c) ==
    /\ ops[c] # <<>> /\ step[c] = "profile"
    /\ IF Accepts(c)
       THEN Goto(c, AfterProfile(c)) /\ Statement(c) /\ UNCHANGED <<txn, seen>>
       ELSE Raises(c, Refused)

\* Mutant: any registered profile will do.
ReadAnyProfile(c) ==
    /\ ops[c] # <<>> /\ step[c] = "profile" /\ Blockers(c) = {}
    /\ IF schema /\ (profile # NoProfile \/ Current(c).kind = "register")
       THEN Locking(c, "row") /\ Goto(c, AfterProfile(c)) /\ Statement(c) /\ UNCHANGED seen
       ELSE Raises(c, Refused)

ReadProfileForUpdate(c) ==
    /\ ops[c] # <<>> /\ step[c] = "profile" /\ Blockers(c) = {}
    /\ IF Accepts(c)
       THEN Locking(c, "row") /\ Goto(c, AfterProfile(c)) /\ Statement(c) /\ UNCHANGED seen
       ELSE Raises(c, Refused)

\* A profile is inserted once; an identical one is returned as it is.
InsertProfile(c) ==
    /\ At(c, "register", "insert")
    /\ IF profile = NoProfile THEN Update(c, [Live(c) EXCEPT !.profile = Current(c).profile])
       ELSE UNCHANGED txn
    /\ Goto(c, "commit")
    /\ Statement(c) /\ UNCHANGED seen

GetRecords(c) ==
    /\ At(c, "admit", "records")
    /\ seen' = [seen EXCEPT ![c] = [id \in DOMAIN Current(c).batch |-> records[id]]]
    /\ Goto(c, "put")
    /\ Statement(c) /\ UNCHANGED txn

\* Compare the batch with what was read and insert what is new. The primary key
\* and the foreign key hold when the rows go in.
InsertRecords(c) ==
    /\ At(c, "admit", "put") /\ Blockers(c) = {}
    /\ IF Conflicting(c) # {} THEN Raises(c, "conflict")
       ELSE IF NewIds(c) # {} /\ (profile = NoProfile \/ NewIds(c) \cap Stored # {})
       THEN Raises(c, "error")
       ELSE /\ Update(c, [Live(c) EXCEPT !.writes = [id \in NewIds(c) |-> Offered(c)[id]]])
            /\ Goto(c, "commit")
            /\ Statement(c) /\ UNCHANGED seen

ReplaceRecord(c) ==
    /\ At(c, "replace", "replace") /\ Blockers(c) = {}
    /\ Update(c, [Live(c) EXCEPT !.writes = Offered(c)])
    /\ Goto(c, "commit")
    /\ Statement(c) /\ UNCHANGED seen

\* A search checks the profile in one statement and reads the rows in the next.
CheckBoundProfile(c) ==
    /\ At(c, "search", "bound")
    /\ IF schema /\ profile = Current(c).profile
       THEN Goto(c, "search") /\ Statement(c) /\ UNCHANGED <<txn, seen>>
       ELSE Raises(c, Refused)

\* The score, its bound and top_k choose among the rows of the scope.
Hits(ids) == {<<id, records[id]>> : id \in ids}

SearchCosine(c) ==
    /\ At(c, "search", "search")
    /\ \E ids \in SUBSET Stored : answer' = [answer EXCEPT ![c] = <<"hits", Hits(ids)>>]
    /\ Goto(c, "commit")
    /\ UNCHANGED <<store, migrating, txn, job, phase, ops, seen, attempts, faults>>

\* The clean-up of the synthetic scope takes no advisory lock.
DeleteRecords(c) ==
    /\ At(c, "clean", "delete") /\ Blockers(c) = {}
    /\ IF schema
       THEN /\ Update(c, [Live(c) EXCEPT !.writes = [id \in Stored |-> NoRecord]])
            /\ Goto(c, "unprofile")
            /\ Statement(c) /\ UNCHANGED seen
       ELSE Raises(c, "error")

\* A record that appeared meanwhile still refers to the profile. A clean-up that
\* finds no profile has nothing to commit: its answer is of this instant.
DeleteProfile(c) ==
    /\ At(c, "clean", "unprofile") /\ Blockers(c) = {}
    /\ IF profile = NoProfile
       THEN /\ answer' = [answer EXCEPT ![c] = <<"cleared">>]
            /\ Goto(c, "commit")
            /\ UNCHANGED <<store, migrating, txn, job, phase, ops, seen, attempts, faults>>
       ELSE IF Stored \subseteq DOMAIN Live(c).writes
       THEN /\ Update(c, [Live(c) EXCEPT !.profile = NoProfile, !.locks = @ \cup {"row"}])
            /\ Goto(c, "commit")
            /\ Statement(c) /\ UNCHANGED seen
       ELSE Raises(c, "error")

-----------------------------------------------------------------------------
(* COMMIT, and what may happen to it.                                           *)
Apply(t) ==
    /\ records' = [id \in Ids |-> IF id \in DOMAIN t.writes THEN t.writes[id] ELSE records[id]]
    /\ profile' = IF t.profile = Keep THEN profile ELSE t.profile
    /\ UNCHANGED schema

Result(c) ==
    CASE Current(c).kind = "register" -> <<"registered", Current(c).profile>>
      [] Current(c).kind = "admit" -> <<"stored", NewIds(c), DOMAIN seen[c] \ NewIds(c)>>
      [] Current(c).kind = "replace" -> <<"replaced">>
      [] Current(c).kind = "clean" -> <<"cleared">>
      [] OTHER -> answer[c]

Committing(c) == ops[c] # <<>> /\ step[c] = "commit"

Commit(c) ==
    /\ Committing(c)
    /\ Apply(Live(c))
    /\ Returns(c, Result(c))
    /\ Update(c, Idle)
    /\ UNCHANGED <<migrating, faults>>

\* COMMIT took effect, but its answer was lost or the connection failed to close.
CommitUnanswered(c) ==
    /\ Committing(c) /\ faults < MaxFaults
    /\ Apply(Live(c))
    /\ GiveUp(c)
    /\ answer' = [answer EXCEPT ![c] = <<"error">>]
    /\ Update(c, Idle) /\ Forget(c)
    /\ faults' = faults + 1
    /\ UNCHANGED migrating

\* The client has given up while the server still works on the COMMIT.
CommitInDoubt(c) ==
    /\ Committing(c) /\ faults < MaxFaults
    /\ ~Begun(<<c, "orphan">>) /\ Begun(<<c, "live">>)
    /\ txn' = [txn EXCEPT ![<<c, "live">>] = Idle, ![<<c, "orphan">>] = Live(c)]
    /\ GiveUp(c)
    /\ answer' = [answer EXCEPT ![c] = <<"error">>]
    /\ Forget(c)
    /\ faults' = faults + 1
    /\ UNCHANGED <<store, migrating>>

\* The server commits or aborts a transaction whose client is gone.
Resolve(c) ==
    LET s == <<c, "orphan">>
    IN /\ Begun(s)
       /\ Apply(txn[s]) \/ UNCHANGED store
       /\ txn' = [txn EXCEPT ![s] = Idle]
       /\ UNCHANGED <<migrating, control, seen, faults, answer>>

\* Connecting, a statement or, in the end-to-end run, the deadline fails.
Fail(c) ==
    /\ ops[c] # <<>> /\ faults < MaxFaults
    /\ GiveUp(c)
    /\ Update(c, Idle) /\ Forget(c)
    /\ answer' = [answer EXCEPT ![c] = <<"error">>]
    /\ migrating' = IF migrating = c THEN Nobody ELSE migrating
    /\ faults' = faults + 1
    /\ UNCHANGED store

\* Two sessions wait for each other: the server aborts one of them.
BreakDeadlock(c) ==
    /\ \E d \in Clients : <<d, "live">> \in Blockers(c) /\ <<c, "live">> \in Blockers(d)
    /\ Raises(c, "error")

-----------------------------------------------------------------------------
Init ==
    /\ job \in Jobs
    /\ \E s \in Stores : schema = s[1] /\ profile = s[2] /\ records = s[3]
    /\ migrating = Nobody
    /\ txn = [s \in Sessions |-> Idle]
    /\ phase = [c \in Clients |-> "main"]
    /\ ops = [c \in Clients |-> job[c].main]
    /\ step = [c \in Clients |-> FirstStep[Head(job[c].main).kind]]
    /\ seen = [c \in Clients |-> <<>>]
    /\ attempts = [c \in Clients |-> 1]
    /\ faults = 0
    /\ answer = [c \in Clients |-> <<"none">>]

Statements(c) ==
    \/ InspectLockedState(c) \/ ApplyMigration(c) \/ FinishMigration(c)
    \/ VerifyReadiness(c) \/ LookupProfile(c)
    \/ AcquireScopeLock(c) \/ ReadProfileForUpdate(c) \/ InsertProfile(c)
    \/ GetRecords(c) \/ InsertRecords(c) \/ ReplaceRecord(c)
    \/ CheckBoundProfile(c) \/ SearchCosine(c)
    \/ DeleteRecords(c) \/ DeleteProfile(c)
    \/ Commit(c)

Faults(c) == LockTimeout(c) \/ CommitUnanswered(c) \/ CommitInDoubt(c) \/ Fail(c)

Next == \E c \in Clients : Statements(c) \/ Faults(c) \/ Resolve(c) \/ BreakDeadlock(c)

\* Clients are processes that keep running, and the server ends what it holds:
\* it decides commits in doubt and looks for deadlocks.
Fairness == \A c \in Clients : /\ WF_vars(Statements(c))
                               /\ WF_vars(Resolve(c))
                               /\ WF_vars(BreakDeadlock(c))

Spec == Init /\ [][Next]_vars /\ Fairness

-----------------------------------------------------------------------------
(* Properties.                                                                  *)

\* Every stored record was embedded under the registered profile: neither a batch
\* that was in flight when the scope was cleared and provisioned anew, nor one
\* whose COMMIT came late, leaves vectors of another model behind.
\* ProfileBoundPostgreSQLVectorStore.admit_batch, upsert; _cleanup_synthetic_scope.
RecordsMatchProfile == \A id \in Stored : records[id].under = profile

\* Each operation takes effect at one instant, whole and on the state of that
\* instant, and answers what is true of it, whatever the other commands are doing
\* and wherever a connection fails. ProfileBoundPostgreSQLVectorStore,
\* PostgreSQLEmbeddingProfileRepository, PsycopgPostgreSQLVectorTransactionRunner.
Ledger == INSTANCE VectorLedger

IsLedger == Ledger!Spec

\* A batch in conflict met a record somebody else stored: a client that repeats
\* its own batch after a COMMIT it knows nothing about is told it is unchanged.
\* ProfileBoundPostgreSQLVectorStore.admit_batch, run_in_transaction.
ConflictIsForeign ==
    [][\A c \in Clients :
          answer'[c] = <<"conflict">> /\ answer[c] # <<"conflict">> =>
              \E id \in DOMAIN seen[c] : seen[c][id] # NoRecord /\ seen[c][id].by # c]_vars

\* Every command ends, although writers and the clean-up take their locks in
\* different orders and a session may be left behind holding some.
EveryCommandEnds == \A c \in Clients : <>(phase[c] \in {"done", "failed"})
=============================================================================
