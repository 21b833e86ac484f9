--------------------------- MODULE VectorStoreProofs ---------------------------
(* Proofs about VectorStore: whatever commands run against a scope, and wherever *)
(* connections fail, the stored records are those of the registered profile, and *)
(* the store is the ledger of VectorLedger. Both rest on the two locks: the      *)
(* advisory lock of the scope excludes writers, and the lock of the profile's    *)
(* row excludes a writer and the clean-up.                                       *)
EXTENDS VectorStore, TLAPS

Writes == UNION {[S -> Rows] : S \in SUBSET Ids}
Transactions == [locks : SUBSET {"scope", "row"}, writes : Writes,
                 profile : Profiles \cup {NoProfile, Keep}]

TypeOK ==
    /\ profile \in Profiles \cup {NoProfile}
    /\ records \in [Ids -> Rows]
    /\ txn \in [Sessions -> Transactions]
    /\ job \in [Clients -> Commands]
    /\ ops \in [Clients -> Seq(Operations)]
    /\ DOMAIN step = Clients /\ DOMAIN seen = Clients /\ DOMAIN phase = Clients

\* Each lock has one holder.
Exclusive ==
    \A s, t \in Sessions : \A l \in {"scope", "row"} :
        l \in txn[s].locks /\ l \in txn[t].locks => s = t

\* What an open transaction will do when it commits: it adds records under the
\* registered profile, or registers one where there is none, or removes profile
\* and records together, and it holds the locks that keep this so.
Puts(t) == {id \in DOMAIN t.writes : t.writes[id] # NoRecord}

Harmless(t) ==
    /\ Puts(t) # {} => /\ {"scope", "row"} \subseteq t.locks
                       /\ t.profile = Keep
                       /\ profile # NoProfile
                       /\ \A id \in Puts(t) : t.writes[id].under = profile
    /\ t.profile \in Profiles => "scope" \in t.locks /\ profile = NoProfile
    /\ t.profile = NoProfile => "row" \in t.locks /\ Stored \subseteq DOMAIN t.writes
    /\ profile = NoProfile /\ "row" \in t.locks => "scope" \in t.locks

\* How far a client has come with the operation under way.
Underway(c) ==
    LET t == txn[<<c, "live">>]
    IN  /\ step[c] \notin {"commit", "unprofile"} => DOMAIN t.writes = {} /\ t.profile = Keep
        /\ step[c] = "unprofile" => Puts(t) = {} /\ t.profile = Keep
        /\ step[c] \in {"scope", "profile"} => Current(c).kind \in Writing
        /\ step[c] = "profile" => "scope" \in t.locks
        /\ step[c] \in {"insert", "records", "put", "replace"} => {"scope", "row"} \subseteq t.locks
        /\ step[c] = "insert" => profile \in {NoProfile, Current(c).profile}
        /\ step[c] \in {"records", "put", "replace"} => profile = Current(c).profile
        /\ step[c] = "put" => DOMAIN seen[c] = DOMAIN Current(c).batch

Matching == /\ RecordsMatchProfile
            /\ profile = NoProfile => Stored = {}

IInv == /\ TypeOK
        /\ Exclusive
        /\ \A s \in Sessions : Harmless(txn[s])
        /\ \A c \in Clients : Underway(c)
        /\ Matching

-----------------------------------------------------------------------------
(* Types *)

LEMMA EmptyWrites == <<>> \in Writes /\ DOMAIN <<>> = {}
<1>1. <<>> \in [{} -> Rows]
  OBVIOUS
<1> QED
  BY <1>1 DEF Writes

LEMMA IdleIsTyped == Idle \in Transactions /\ Puts(Idle) = {}
  BY EmptyWrites DEF Idle, Transactions, Puts

LEMMA SessionsAre == /\ \A c \in Clients : <<c, "live">> \in Sessions /\ <<c, "orphan">> \in Sessions
                     /\ \A c, d \in Clients : c # d => <<c, "live">> # <<d, "live">>
                     /\ \A c, d \in Clients : <<c, "live">> # <<d, "orphan">>
  BY DEF Sessions

LEMMA WritesAre == ASSUME NEW S \in SUBSET Ids, NEW f, f \in [S -> Rows]
                   PROVE  f \in Writes
  BY DEF Writes

-----------------------------------------------------------------------------
(* How a command goes on *)

\* At the first statement of an operation, or at the end of the command.
Fresh(c) == \/ step[c] = "end"
            \/ ops[c] # <<>> /\ step[c] = FirstStep[Current(c).kind]

\* What a step of one client leaves alone of another.
Untouched(d) == UNCHANGED <<ops[d], step[d], seen[d]>>

LEMMA StartsFresh ==
    ASSUME TypeOK, NEW c \in Clients, NEW todo \in Seq(Operations), Start(c, todo)
    PROVE  /\ ops' \in [Clients -> Seq(Operations)] /\ DOMAIN step' = Clients
           /\ \A d \in Clients \ {c} : ops'[d] = ops[d] /\ step'[d] = step[d]
           /\ Fresh(c)'
<1>1. /\ ops' = [ops EXCEPT ![c] = todo]
      /\ step' = [step EXCEPT ![c] = IF todo = <<>> THEN "end"
                                     ELSE FirstStep[Head(todo).kind]]
  BY DEF Start
<1>2. ops'[c] = todo /\ step'[c] = IF todo = <<>> THEN "end" ELSE FirstStep[Head(todo).kind]
  BY <1>1 DEF TypeOK
<1>3. Fresh(c)'
  BY <1>2 DEF Fresh, Current
<1> QED
  BY <1>1, <1>3 DEF TypeOK

LEMMA GoesOn ==
    ASSUME TypeOK, NEW c \in Clients, ops[c] # <<>>, GoOn(c) \/ GiveUp(c)
    PROVE  /\ ops' \in [Clients -> Seq(Operations)] /\ DOMAIN step' = Clients
           /\ \A d \in Clients \ {c} : ops'[d] = ops[d] /\ step'[d] = step[d]
           /\ Fresh(c)'
           /\ job' = job /\ DOMAIN phase' = Clients
<1>1. /\ Tail(ops[c]) \in Seq(Operations)
      /\ job[c].main \in Seq(Operations) /\ job[c].final \in Seq(Operations)
      /\ <<>> \in Seq(Operations)
  BY DEF TypeOK, Commands
<1>2. ASSUME Rerun(c)
      PROVE  /\ \E todo \in Seq(Operations) : Start(c, todo)
             /\ job' = job /\ DOMAIN phase' = Clients
  BY <1>1, <1>2 DEF Rerun, TypeOK
<1>3. /\ \E todo \in Seq(Operations) : Start(c, todo)
      /\ job' = job /\ DOMAIN phase' = Clients
  <2>1. CASE GoOn(c)
    BY <2>1, <1>1, <1>2 DEF GoOn, TypeOK
  <2>2. CASE GiveUp(c)
    BY <2>2, <1>1, <1>2 DEF GiveUp, TypeOK
  <2> QED
    BY <2>1, <2>2
<1> QED
  BY <1>3, StartsFresh

\* A client at a fresh start has no obligations but an empty transaction.
LEMMA FreshIsUnderway ==
    ASSUME NEW c \in Clients, ops' \in [Clients -> Seq(Operations)], Fresh(c)',
           DOMAIN txn'[<<c, "live">>].writes = {}, txn'[<<c, "live">>].profile = Keep
    PROVE  Underway(c)'
<1>1. CASE step'[c] = "end"
  BY <1>1 DEF Underway
<1>2. CASE ops'[c] # <<>> /\ step'[c] = FirstStep[Current(c)'.kind]
  <2>1. Current(c)' \in Operations
    BY <1>2 DEF Current
  <2>2. Current(c)'.kind \in DOMAIN FirstStep
    BY <2>1 DEF Operations
  <2>3. step'[c] \in {"lock", "verify", "lookup", "scope", "bound", "delete"}
    BY <1>2, <2>2 DEF FirstStep
  <2>4. step'[c] = "scope" => Current(c)'.kind \in Writing
    BY <1>2, <2>2 DEF FirstStep, Writing
  <2> QED
    BY <2>3, <2>4 DEF Underway
<1> QED
  BY <1>1, <1>2 DEF Fresh

-----------------------------------------------------------------------------
(* Steps within a transaction *)

\* A step of c that commits nothing and takes only locks nobody else holds.
LEMMA LocalStep ==
    ASSUME IInv, NEW c \in Clients, UNCHANGED <<profile, records>>, TypeOK',
           \A s \in Others(c) : txn'[s] = txn[s],
           \A l \in txn'[<<c, "live">>].locks :
               \/ l \in txn[<<c, "live">>].locks
               \/ \A s \in Others(c) : l \notin txn[s].locks,
           Harmless(txn[<<c, "live">>])',
           \A d \in Clients \ {c} : Untouched(d),
           Underway(c)'
    PROVE  IInv'
<1>1. Exclusive'
  <2> SUFFICES ASSUME NEW s \in Sessions, NEW t \in Sessions, NEW l \in {"scope", "row"},
                      l \in txn'[s].locks, l \in txn'[t].locks
               PROVE  s = t
    BY DEF Exclusive
  <2> QED
    BY DEF IInv, Exclusive, Others
<1>2. \A s \in Sessions : Harmless(txn[s])'
  <2> SUFFICES ASSUME NEW s \in Others(c) PROVE Harmless(txn[s])'
    BY DEF Others
  <2>1. Harmless(txn[s])
    BY DEF IInv, Others
  <2>2. txn'[s] = txn[s] /\ Stored' = Stored
    BY DEF Stored
  <2> QED
    BY <2>1, <2>2 DEF Harmless, Puts
<1>3. \A d \in Clients : Underway(d)'
  <2> SUFFICES ASSUME NEW d \in Clients, d # c PROVE Underway(d)'
    OBVIOUS
  <2>1. Underway(d) /\ Untouched(d)
    BY DEF IInv
  <2>2. txn'[<<d, "live">>] = txn[<<d, "live">>]
    BY SessionsAre DEF Others
  <2> QED
    BY <2>1, <2>2 DEF Underway, Untouched, Puts, Current
<1>4. Matching'
  BY DEF IInv, Matching, RecordsMatchProfile, Stored
<1> QED
  BY <1>1, <1>2, <1>3, <1>4 DEF IInv

\* The operation under way ends without a commit: its transaction is over, or
\* never wrote anything.
LEMMA OperationEnds ==
    ASSUME IInv, NEW c \in Clients, ops[c] # <<>>, GoOn(c) \/ GiveUp(c), Forget(c),
           UNCHANGED <<profile, records>>,
           \/ Update(c, Idle)
           \/ UNCHANGED txn /\ step[c] \notin {"commit", "unprofile"}
    PROVE  IInv'
<1>1. /\ ops' \in [Clients -> Seq(Operations)] /\ DOMAIN step' = Clients
      /\ \A d \in Clients \ {c} : ops'[d] = ops[d] /\ step'[d] = step[d]
      /\ Fresh(c)'
      /\ job' = job /\ DOMAIN phase' = Clients
  BY GoesOn DEF IInv
<1>2. DOMAIN seen' = Clients /\ \A d \in Clients \ {c} : seen'[d] = seen[d]
  BY DEF Forget, IInv, TypeOK
<1>3. /\ txn' \in [Sessions -> Transactions]
      /\ \A s \in Others(c) : txn'[s] = txn[s]
      /\ \/ txn'[<<c, "live">>] = Idle
         \/ UNCHANGED txn /\ step[c] \notin {"commit", "unprofile"}
  <2>1. txn \in [Sessions -> Transactions] /\ <<c, "live">> \in Sessions
    BY SessionsAre DEF IInv, TypeOK
  <2>2. CASE Update(c, Idle)
    <3>1. txn' \in [Sessions -> Transactions] /\ txn'[<<c, "live">>] = Idle
      BY <2>1, <2>2, IdleIsTyped DEF Update
    <3>2. \A s \in Others(c) : txn'[s] = txn[s]
      BY <2>1, <2>2 DEF Update, Others
    <3> QED
      BY <3>1, <3>2
  <2>3. CASE UNCHANGED txn /\ step[c] \notin {"commit", "unprofile"}
    BY <2>1, <2>3 DEF Others
  <2> QED
    BY <2>2, <2>3
<1>4. DOMAIN txn'[<<c, "live">>].writes = {} /\ txn'[<<c, "live">>].profile = Keep
  BY <1>3, EmptyWrites DEF IInv, Underway, Idle
<1>5. TypeOK'
  BY <1>1, <1>2, <1>3 DEF IInv, TypeOK
<1>6. Underway(c)'
  BY <1>1, <1>4, FreshIsUnderway
<1>7. txn'[<<c, "live">>].locks \subseteq txn[<<c, "live">>].locks
  BY <1>3 DEF Idle
<1>8. Harmless(txn[<<c, "live">>])'
  <2>1. Harmless(txn[<<c, "live">>])
    BY SessionsAre DEF IInv
  <2>2. Puts(txn'[<<c, "live">>]) = {}
    BY <1>4 DEF Puts
  <2> QED
    BY <1>3, <1>4, <2>1, <2>2, NamesAssumption DEF Harmless, Idle
<1> QED
  BY <1>1, <1>2, <1>3, <1>5, <1>6, <1>7, <1>8, LocalStep DEF Untouched

\* The next statement of the operation, which commits nothing.
LEMMA NextStatement ==
    ASSUME IInv, NEW c \in Clients, NEW s, Goto(c, s),
           UNCHANGED <<profile, records, job, phase, ops>>,
           DOMAIN seen' = Clients, \A d \in Clients \ {c} : seen'[d] = seen[d],
           txn' \in [Sessions -> Transactions],
           \A t \in Others(c) : txn'[t] = txn[t],
           \A l \in txn'[<<c, "live">>].locks :
               \/ l \in txn[<<c, "live">>].locks
               \/ \A t \in Others(c) : l \notin txn[t].locks,
           Harmless(txn[<<c, "live">>])',
           Underway(c)'
    PROVE  IInv'
<1>1. DOMAIN step' = Clients /\ \A d \in Clients \ {c} : step'[d] = step[d]
  BY DEF IInv, TypeOK, Goto
<1>2. TypeOK'
  BY <1>1 DEF IInv, TypeOK
<1> QED
  BY <1>1, <1>2, LocalStep DEF Untouched

\* Of the transaction only locks may have changed.
LEMMA StillHarmless ==
    ASSUME NEW c \in Clients, Harmless(txn[<<c, "live">>]),
           UNCHANGED <<profile, records>>,
           LET t == txn[<<c, "live">>]
               u == txn'[<<c, "live">>]
           IN  /\ t.locks \subseteq u.locks
               /\ u.writes = t.writes /\ u.profile = t.profile
               /\ profile = NoProfile /\ "row" \in u.locks => "scope" \in u.locks
    PROVE  Harmless(txn[<<c, "live">>])'
  BY DEF Harmless, Puts, Stored

\* What a free lock means.
LEMMA FreeScope ==
    ASSUME NEW c \in Clients, ops[c] # <<>>, step[c] = "scope", Blockers(c) = {}
    PROVE  \A s \in Others(c) : "scope" \notin txn[s].locks
  BY DEF Blockers

LEMMA FreeRow ==
    ASSUME NEW c \in Clients, ops[c] # <<>>, step[c] \in {"profile", "unprofile"},
           Blockers(c) = {}
    PROVE  profile # NoProfile => \A s \in Others(c) : "row" \notin txn[s].locks
  BY DEF Blockers, RowHolders

LEMMA RaisingEnds ==
    ASSUME IInv, NEW c \in Clients, ops[c] # <<>>, NEW e, Raises(c, e)
    PROVE  IInv'
  BY OperationEnds DEF Raises, store

\* An answer without a transaction.
LEMMA ReturningEnds ==
    ASSUME IInv, NEW c \in Clients, ops[c] # <<>>, NEW v, Returns(c, v),
           UNCHANGED <<profile, records, txn>>, step[c] \notin {"commit", "unprofile"}
    PROVE  IInv'
  BY OperationEnds DEF Returns

\* A statement that neither writes nor locks and is not one of a writer's.
LEMMA PlainStatement ==
    ASSUME IInv, NEW c \in Clients, ops[c] # <<>>,
           NEW s \in {"apply", "check", "search", "commit"}, Goto(c, s),
           UNCHANGED <<profile, records, txn, job, phase, ops, seen>>,
           step[c] \notin {"commit", "unprofile"}
    PROVE  IInv'
<1>1. step'[c] = s
  BY DEF Goto, IInv, TypeOK
<1>2. Underway(c)'
  BY <1>1 DEF IInv, Underway
<1>3. Harmless(txn[<<c, "live">>])'
  BY SessionsAre, StillHarmless DEF IInv, Harmless
<1> QED
  BY <1>2, <1>3, NextStatement DEF IInv, TypeOK

LEMMA MigrationSteps ==
    ASSUME IInv, NEW c \in Clients,
           \/ InspectLockedState(c) \/ LockTimeout(c) \/ ApplyMigration(c)
           \/ FinishMigration(c) \/ VerifyReadiness(c) \/ LookupProfile(c)
    PROVE  IInv'
<1>1. CASE InspectLockedState(c)
  BY <1>1, PlainStatement DEF InspectLockedState, At, store
<1>2. CASE LockTimeout(c)
  BY <1>2, RaisingEnds DEF LockTimeout, At
<1>3. CASE ApplyMigration(c)
  <2>1. CASE schema
    BY <1>3, <2>1, RaisingEnds DEF ApplyMigration, At
  <2>2. CASE ~schema
    BY <1>3, <2>2, PlainStatement DEF ApplyMigration, At
  <2> QED
    BY <2>1, <2>2
<1>4. CASE FinishMigration(c)
  BY <1>4, ReturningEnds DEF FinishMigration, At, store
<1>5. CASE VerifyReadiness(c)
  <2>1. CASE schema
    BY <1>5, <2>1, ReturningEnds DEF VerifyReadiness, At, store
  <2>2. CASE ~schema
    BY <1>5, <2>2, RaisingEnds DEF VerifyReadiness, At
  <2> QED
    BY <2>1, <2>2
<1>6. CASE LookupProfile(c)
  <2>1. CASE schema /\ profile = Current(c).profile
    BY <1>6, <2>1, ReturningEnds DEF LookupProfile, At, store
  <2>2. CASE ~(schema /\ profile = Current(c).profile)
    BY <1>6, <2>2, RaisingEnds DEF LookupProfile, At
  <2> QED
    BY <2>1, <2>2
<1> QED
  BY <1>1, <1>2, <1>3, <1>4, <1>5, <1>6

LEMMA SearchSteps ==
    ASSUME IInv, NEW c \in Clients, CheckBoundProfile(c) \/ SearchCosine(c)
    PROVE  IInv'
<1>1. CASE CheckBoundProfile(c)
  <2>1. CASE schema /\ profile = Current(c).profile
    BY <1>1, <2>1, PlainStatement DEF CheckBoundProfile, At, Statement, store
  <2>2. CASE ~(schema /\ profile = Current(c).profile)
    BY <1>1, <2>2, RaisingEnds DEF CheckBoundProfile, At
  <2> QED
    BY <2>1, <2>2
<1>2. CASE SearchCosine(c)
  BY <1>2, PlainStatement DEF SearchCosine, At, store
<1> QED
  BY <1>1, <1>2

-----------------------------------------------------------------------------
(* The statements of a writer *)

\* A step that takes a lock, when the transaction may.
LEMMA Locks ==
    ASSUME IInv, NEW c \in Clients, NEW l \in {"scope", "row"}, Locking(c, l)
    PROVE  /\ txn' \in [Sessions -> Transactions]
           /\ \A s \in Others(c) : txn'[s] = txn[s]
           /\ txn'[<<c, "live">>] = [txn[<<c, "live">>] EXCEPT !.locks = @ \cup {l}]
           /\ txn'[<<c, "live">>].locks = txn[<<c, "live">>].locks \cup {l}
           /\ txn'[<<c, "live">>].writes = txn[<<c, "live">>].writes
           /\ txn'[<<c, "live">>].profile = txn[<<c, "live">>].profile
<1>1. <<c, "live">> \in Sessions /\ txn \in [Sessions -> Transactions]
  BY SessionsAre DEF IInv, TypeOK
<1>2. txn' = [txn EXCEPT ![<<c, "live">>] = [txn[<<c, "live">>] EXCEPT !.locks = @ \cup {l}]]
  BY DEF Locking, Update, Live
<1>3. [txn[<<c, "live">>] EXCEPT !.locks = @ \cup {l}] \in Transactions
  BY <1>1 DEF Transactions
<1>4. txn'[<<c, "live">>] = [txn[<<c, "live">>] EXCEPT !.locks = @ \cup {l}]
  BY <1>1, <1>2
<1>5. txn' \in [Sessions -> Transactions] /\ \A s \in Others(c) : txn'[s] = txn[s]
  BY <1>1, <1>2, <1>3 DEF Others
<1>6. txn[<<c, "live">>] \in Transactions
  BY <1>1
<1> QED
  BY <1>4, <1>5, <1>6 DEF Transactions

LEMMA AcquireStep ==
    ASSUME IInv, NEW c \in Clients, AcquireScopeLock(c)
    PROVE  IInv'
<1>1. /\ ops[c] # <<>> /\ step[c] = "scope" /\ Blockers(c) = {}
      /\ Locking(c, "scope") /\ Goto(c, "profile")
      /\ UNCHANGED <<profile, records, job, phase, ops, seen>>
  BY DEF AcquireScopeLock, Statement, store
<1>2. step'[c] = "profile"
  BY <1>1 DEF Goto, IInv, TypeOK
<1>3. /\ Harmless(txn[<<c, "live">>]) /\ Underway(c)
  BY SessionsAre DEF IInv
<1>4. Harmless(txn[<<c, "live">>])'
  BY <1>1, <1>3, Locks, StillHarmless DEF Harmless
<1>5. Underway(c)'
  BY <1>1, <1>2, <1>3, Locks DEF Underway, Current
<1>6. \A s \in Others(c) : "scope" \notin txn[s].locks
  BY <1>1, FreeScope
<1>7. \A l \in txn'[<<c, "live">>].locks :
          \/ l \in txn[<<c, "live">>].locks
          \/ \A s \in Others(c) : l \notin txn[s].locks
  BY <1>1, <1>6, Locks
<1>8. txn' \in [Sessions -> Transactions] /\ \A s \in Others(c) : txn'[s] = txn[s]
  BY <1>1, Locks
<1>9. DOMAIN seen' = Clients /\ \A d \in Clients \ {c} : seen'[d] = seen[d]
  BY <1>1 DEF IInv, TypeOK
<1> QED
  BY <1>1, <1>4, <1>5, <1>7, <1>8, <1>9, NextStatement

\* The row's lock is free when a writer that holds the scope reads the profile:
\* where there is no profile, whoever holds it holds the scope as well.
LEMMA RowIsFree ==
    ASSUME IInv, NEW c \in Clients, ops[c] # <<>>, step[c] = "profile", Blockers(c) = {}
    PROVE  \A s \in Others(c) : "row" \notin txn[s].locks
<1>1. "scope" \in txn[<<c, "live">>].locks /\ <<c, "live">> \in Sessions
  BY SessionsAre DEF IInv, Underway
<1>2. CASE profile = NoProfile
  BY <1>1, <1>2 DEF IInv, Harmless, Exclusive, Others
<1>3. CASE profile # NoProfile
  BY <1>3, FreeRow
<1> QED
  BY <1>2, <1>3

LEMMA AfterProfileIs ==
    ASSUME NEW c \in Clients, Current(c).kind \in Writing
    PROVE  /\ Current(c).kind = "register" => AfterProfile(c) = "insert"
           /\ Current(c).kind = "admit" => AfterProfile(c) = "records"
           /\ Current(c).kind = "replace" => AfterProfile(c) = "replace"
  BY DEF AfterProfile, Writing

LEMMA ReadProfileStep ==
    ASSUME IInv, NEW c \in Clients, ReadProfileForUpdate(c)
    PROVE  IInv'
<1>1. ops[c] # <<>> /\ step[c] = "profile" /\ Blockers(c) = {}
  BY DEF ReadProfileForUpdate
<1>2. CASE ~Accepts(c)
  BY <1>1, <1>2, RaisingEnds DEF ReadProfileForUpdate
<1>3. CASE Accepts(c)
  <2>1. /\ Locking(c, "row") /\ Goto(c, AfterProfile(c))
        /\ UNCHANGED <<profile, records, job, phase, ops, seen>>
    BY <1>3 DEF ReadProfileForUpdate, Statement, store
  <2>2. /\ Harmless(txn[<<c, "live">>]) /\ Underway(c)
    BY SessionsAre DEF IInv
  <2>3. Harmless(txn[<<c, "live">>])'
    <3>1. "scope" \in txn[<<c, "live">>].locks
      BY <1>1, <2>2 DEF Underway
    <3> QED
      BY <2>1, <2>2, <3>1, Locks, StillHarmless
  <2>4. Underway(c)'
    <3>1. Current(c).kind \in {"register", "admit", "replace"} /\ Current(c)' = Current(c)
      BY <1>1, <2>1, <2>2 DEF Underway, Writing, Current
    <3>2. step'[c] = AfterProfile(c)
      BY <2>1 DEF Goto, IInv, TypeOK
    <3>3. /\ {"scope", "row"} \subseteq txn'[<<c, "live">>].locks
          /\ DOMAIN txn'[<<c, "live">>].writes = {} /\ txn'[<<c, "live">>].profile = Keep
      BY ZenonT(60), <1>1, <2>1, <2>2, Locks DEF Underway
    <3>4. \/ step'[c] = "insert" /\ profile' \in {NoProfile, Current(c)'.profile}
          \/ step'[c] \in {"records", "replace"} /\ profile' = Current(c)'.profile
      <4>1. CASE Current(c).kind = "register"
        BY <4>1, <1>3, <2>1, <3>1, <3>2, AfterProfileIs DEF Writing, Accepts
      <4>2. CASE Current(c).kind \in {"admit", "replace"}
        BY <4>2, <1>3, <2>1, <3>1, <3>2, AfterProfileIs DEF Writing, Accepts
      <4> QED
        BY <3>1, <4>1, <4>2
    <3> QED
      BY <3>3, <3>4 DEF Underway
  <2>5. \A l \in txn'[<<c, "live">>].locks :
            \/ l \in txn[<<c, "live">>].locks
            \/ \A s \in Others(c) : l \notin txn[s].locks
    <3>1. txn'[<<c, "live">>].locks = txn[<<c, "live">>].locks \cup {"row"}
      BY <2>1, Locks
    <3>2. \A s \in Others(c) : "row" \notin txn[s].locks
      BY <1>1, RowIsFree
    <3> QED
      BY <3>1, <3>2
  <2>6. txn' \in [Sessions -> Transactions] /\ \A s \in Others(c) : txn'[s] = txn[s]
    BY <2>1, Locks
  <2>7. DOMAIN seen' = Clients /\ \A d \in Clients \ {c} : seen'[d] = seen[d]
    BY <2>1 DEF IInv, TypeOK
  <2> QED
    BY <2>1, <2>3, <2>4, <2>5, <2>6, <2>7, NextStatement
<1> QED
  BY <1>2, <1>3

\* A statement that writes, under the locks the transaction has already.
LEMMA WritesAlone ==
    ASSUME IInv, NEW c \in Clients, NEW t \in Transactions, Update(c, t),
           t.locks = txn[<<c, "live">>].locks
    PROVE  /\ txn' \in [Sessions -> Transactions]
           /\ \A s \in Others(c) : txn'[s] = txn[s]
           /\ txn'[<<c, "live">>] = t
           /\ txn'[<<c, "live">>].locks = txn[<<c, "live">>].locks
<1>1. <<c, "live">> \in Sessions /\ txn \in [Sessions -> Transactions]
  BY SessionsAre DEF IInv, TypeOK
<1>2. txn' = [txn EXCEPT ![<<c, "live">>] = t]
  BY DEF Update
<1> QED
  BY <1>1, <1>2 DEF Others

\* A writer's next statement: what has to be shown of its transaction.
LEMMA WriterStatement ==
    ASSUME IInv, NEW c \in Clients, NEW s, Goto(c, s),
           UNCHANGED <<profile, records, job, phase, ops>>,
           DOMAIN seen' = Clients, \A d \in Clients \ {c} : seen'[d] = seen[d],
           NEW t \in Transactions, t.locks = txn[<<c, "live">>].locks,
           \/ Update(c, t)
           \/ UNCHANGED txn /\ t = txn[<<c, "live">>],
           Harmless(txn[<<c, "live">>])',
           Underway(c)'
    PROVE  IInv'
<1>1. CASE Update(c, t)
  BY <1>1, WritesAlone, NextStatement
<1>2. CASE UNCHANGED txn /\ t = txn[<<c, "live">>]
  BY <1>2, NextStatement DEF IInv, TypeOK
<1> QED
  BY <1>1, <1>2

LEMMA InsertProfileStep ==
    ASSUME IInv, NEW c \in Clients, InsertProfile(c)
    PROVE  IInv'
<1>1. /\ ops[c] # <<>> /\ step[c] = "insert" /\ Goto(c, "commit")
      /\ Current(c).kind = "register"
      /\ UNCHANGED <<profile, records, job, phase, ops, seen>>
  BY DEF InsertProfile, Statement, store, At
<1>2. Underway(c)'
  BY <1>1 DEF Underway, Goto, IInv, TypeOK
<1>3. /\ DOMAIN seen' = Clients /\ \A d \in Clients \ {c} : seen'[d] = seen[d]
  BY <1>1 DEF IInv, TypeOK
<1>4. /\ txn[<<c, "live">>] \in Transactions /\ Harmless(txn[<<c, "live">>]) /\ Underway(c)
  BY SessionsAre DEF IInv, TypeOK
<1>5. CASE profile = NoProfile
  <2> DEFINE t == [txn[<<c, "live">>] EXCEPT !.profile = Current(c).profile]
  <2>1. Update(c, t)
    BY <1>1, <1>5 DEF InsertProfile, Live
  <2>2. Current(c) \in Operations
    BY <1>1 DEF IInv, TypeOK, Current
  <2>3. Current(c).profile \in Profiles
    BY <1>1, <2>2 DEF Operations, Configured, Writing
  <2>4. /\ t \in Transactions /\ t.locks = txn[<<c, "live">>].locks
        /\ t.writes = txn[<<c, "live">>].writes /\ t.profile = Current(c).profile
    BY <1>4, <2>3 DEF Transactions
  <2>5. txn'[<<c, "live">>] = t
    BY <2>1, <2>4, WritesAlone
  <2>6. DOMAIN t.writes = {} /\ {"scope", "row"} \subseteq t.locks
    BY <1>1, <1>4, <2>4 DEF Underway
  <2>7. Harmless(txn[<<c, "live">>])'
    BY <1>1, <1>5, <2>3, <2>4, <2>5, <2>6, NamesAssumption DEF Harmless, Puts
  <2> HIDE DEF t
  <2> QED
    BY <1>1, <1>2, <1>3, <2>1, <2>4, <2>7, WriterStatement
<1>6. CASE profile # NoProfile
  <2>1. UNCHANGED txn
    BY <1>6 DEF InsertProfile
  <2>2. Harmless(txn[<<c, "live">>])'
    BY <1>1, <1>4, <2>1, StillHarmless DEF Harmless
  <2> QED
    BY <1>1, <1>2, <1>3, <1>4, <2>1, <2>2, WriterStatement
<1> QED
  BY <1>5, <1>6

LEMMA GetRecordsStep ==
    ASSUME IInv, NEW c \in Clients, GetRecords(c)
    PROVE  IInv'
<1>1. /\ ops[c] # <<>> /\ step[c] = "records" /\ Goto(c, "put")
      /\ seen' = [seen EXCEPT ![c] = [id \in DOMAIN Current(c).batch |-> records[id]]]
      /\ UNCHANGED <<profile, records, job, phase, ops, txn>>
  BY DEF GetRecords, Statement, store, At
<1>2. /\ DOMAIN seen' = Clients /\ \A d \in Clients \ {c} : seen'[d] = seen[d]
      /\ DOMAIN seen'[c] = DOMAIN Current(c).batch
  BY <1>1 DEF IInv, TypeOK
<1>3. /\ txn[<<c, "live">>] \in Transactions /\ Harmless(txn[<<c, "live">>]) /\ Underway(c)
  BY SessionsAre DEF IInv, TypeOK
<1>4. step'[c] = "put" /\ Current(c)' = Current(c)
  BY <1>1 DEF Goto, IInv, TypeOK, Current
<1>5. Underway(c)'
  BY <1>1, <1>2, <1>3, <1>4 DEF Underway
<1>6. Harmless(txn[<<c, "live">>])'
  BY <1>1, <1>3, StillHarmless DEF Harmless
<1> QED
  BY <1>1, <1>2, <1>3, <1>5, <1>6, WriterStatement

\* What a client offers is embedded under the profile of its operation.
LEMMA OfferedIs ==
    ASSUME TypeOK, NEW c \in Clients, ops[c] # <<>>, Current(c).kind \in Writing
    PROVE  /\ DOMAIN Current(c).batch \in SUBSET Ids
           /\ Current(c).profile \in Profiles
           /\ Offered(c) \in [DOMAIN Current(c).batch -> Content]
           /\ \A id \in DOMAIN Current(c).batch :
                 Offered(c)[id].under = Current(c).profile
<1>1. Current(c) \in Operations
  BY DEF TypeOK, Current
<1>2. Current(c).profile \in Profiles /\ Current(c).batch \in Batches
  BY <1>1 DEF Operations, Configured
<1>3. PICK S \in SUBSET Ids : Current(c).batch \in [S -> Texts]
  BY <1>2 DEF Batches
<1>4. DOMAIN Current(c).batch = S /\ \A id \in S : Current(c).batch[id] \in Texts
  BY <1>3
<1>5. Offered(c) = [id \in S |-> [text |-> Current(c).batch[id],
                                  under |-> Current(c).profile, by |-> c]]
  BY <1>4 DEF Offered
<1>6. \A id \in S : [text |-> Current(c).batch[id],
                     under |-> Current(c).profile, by |-> c] \in Content
  BY <1>2, <1>4 DEF Content
<1> QED
  BY <1>2, <1>4, <1>5, <1>6

\* A transaction that writes rows it may write.
LEMMA WriteStep ==
    ASSUME IInv, NEW c \in Clients, ops[c] # <<>>, step[c] \in {"put", "replace"},
           Current(c).kind \in Writing, Goto(c, "commit"),
           UNCHANGED <<profile, records, job, phase, ops, seen>>,
           NEW S \in SUBSET DOMAIN Current(c).batch,
           NEW w, w = [id \in S |-> Offered(c)[id]],
           Update(c, [Live(c) EXCEPT !.writes = w])
    PROVE  IInv'
<1>1. /\ txn[<<c, "live">>] \in Transactions /\ Harmless(txn[<<c, "live">>]) /\ Underway(c)
      /\ TypeOK
  BY SessionsAre DEF IInv, TypeOK
<1>2. /\ DOMAIN Current(c).batch \in SUBSET Ids /\ Current(c).profile \in Profiles
      /\ Offered(c) \in [DOMAIN Current(c).batch -> Content]
      /\ \A id \in DOMAIN Current(c).batch : Offered(c)[id].under = Current(c).profile
  BY <1>1, OfferedIs
<1>3. w \in [S -> Rows] /\ S \in SUBSET Ids /\ DOMAIN w = S
  BY <1>2 DEF Rows
<1>4. w \in Writes
  BY <1>3, WritesAre
<1> DEFINE t == [txn[<<c, "live">>] EXCEPT !.writes = w]
<1>5. /\ t \in Transactions /\ t.locks = txn[<<c, "live">>].locks
      /\ t.writes = w /\ t.profile = txn[<<c, "live">>].profile
  BY <1>1, <1>4 DEF Transactions
<1>6. Update(c, t)
  BY DEF Live
<1>7. txn'[<<c, "live">>] = t
  BY <1>5, <1>6, WritesAlone
<1>8. /\ {"scope", "row"} \subseteq t.locks /\ t.profile = Keep
      /\ profile = Current(c).profile
  BY <1>1, <1>5 DEF Underway
<1>9. \A id \in DOMAIN w : w[id].under = profile
  BY <1>2, <1>3, <1>8
<1>10. Harmless(txn[<<c, "live">>])'
  <2>1. /\ txn'[<<c, "live">>].locks = t.locks /\ txn'[<<c, "live">>].writes = w
        /\ txn'[<<c, "live">>].profile = Keep /\ profile' = profile /\ profile \in Profiles
    BY <1>2, <1>5, <1>7, <1>8
  <2> QED
    BY <1>8, <1>9, <2>1, NamesAssumption DEF Harmless, Puts
<1>11. Underway(c)'
  BY DEF Underway, Goto, IInv, TypeOK
<1>12. /\ DOMAIN seen' = Clients /\ \A d \in Clients \ {c} : seen'[d] = seen[d]
  BY <1>1 DEF TypeOK
<1> HIDE DEF t
<1> QED
  BY <1>5, <1>6, <1>10, <1>11, <1>12, WriterStatement

LEMMA InsertRecordsStep ==
    ASSUME IInv, NEW c \in Clients, InsertRecords(c)
    PROVE  IInv'
<1>1. ops[c] # <<>> /\ step[c] = "put" /\ Current(c).kind = "admit"
  BY DEF InsertRecords, At
<1>2. CASE \E e \in {"conflict", "error"} : Raises(c, e)
  BY <1>1, <1>2, RaisingEnds
<1>3. CASE ~\E e \in {"conflict", "error"} : Raises(c, e)
  <2>1. /\ Update(c, [Live(c) EXCEPT !.writes = [id \in NewIds(c) |-> Offered(c)[id]]])
        /\ Goto(c, "commit")
        /\ UNCHANGED <<profile, records, job, phase, ops, seen>>
    BY <1>3 DEF InsertRecords, Statement, store
  <2>2. NewIds(c) \in SUBSET DOMAIN Current(c).batch
    BY <1>1 DEF IInv, Underway, NewIds
  <2> QED
    BY <1>1, <2>1, <2>2, WriteStep DEF Writing
<1> QED
  BY <1>2, <1>3

LEMMA ReplaceRecordStep ==
    ASSUME IInv, NEW c \in Clients, ReplaceRecord(c)
    PROVE  IInv'
<1>1. /\ ops[c] # <<>> /\ step[c] = "replace" /\ Current(c).kind = "replace"
      /\ Update(c, [Live(c) EXCEPT !.writes = Offered(c)])
      /\ Goto(c, "commit")
      /\ UNCHANGED <<profile, records, job, phase, ops, seen>>
  BY DEF ReplaceRecord, At, Statement, store
<1>2. Offered(c) = [id \in DOMAIN Current(c).batch |-> Offered(c)[id]]
  BY DEF Offered
<1> QED
  BY <1>1, <1>2, WriteStep DEF Writing

-----------------------------------------------------------------------------
(* The statements of the clean-up *)

LEMMA DeleteRecordsStep ==
    ASSUME IInv, NEW c \in Clients, DeleteRecords(c)
    PROVE  IInv'
<1>1. ops[c] # <<>> /\ step[c] = "delete"
  BY DEF DeleteRecords, At
<1>2. CASE ~schema
  BY <1>1, <1>2, RaisingEnds DEF DeleteRecords
<1>3. CASE schema
  <2> DEFINE w == [id \in Stored |-> NoRecord]
  <2> DEFINE t == [txn[<<c, "live">>] EXCEPT !.writes = w]
  <2>1. /\ Update(c, t) /\ Goto(c, "unprofile")
        /\ UNCHANGED <<profile, records, job, phase, ops, seen>>
    BY <1>3 DEF DeleteRecords, Statement, store, Live
  <2>2. /\ txn[<<c, "live">>] \in Transactions /\ Harmless(txn[<<c, "live">>]) /\ Underway(c)
    BY SessionsAre DEF IInv, TypeOK
  <2>3. w \in Writes
    BY WritesAre DEF Stored, Rows
  <2>4. /\ t \in Transactions /\ t.locks = txn[<<c, "live">>].locks
        /\ t.writes = w /\ t.profile = Keep
    BY <1>1, <2>2, <2>3 DEF Transactions, Underway
  <2>5. txn'[<<c, "live">>] = t
    BY <2>1, <2>4, WritesAlone
  <2>6. Puts(txn'[<<c, "live">>]) = {} /\ txn'[<<c, "live">>].profile = Keep
    BY <2>4, <2>5 DEF Puts
  <2>7. Harmless(txn[<<c, "live">>])'
    BY <2>1, <2>2, <2>4, <2>5, <2>6, NamesAssumption DEF Harmless, Puts
  <2>8. Underway(c)'
    <3>1. step'[c] = "unprofile"
      BY <2>1 DEF Goto, IInv, TypeOK
    <3> QED
      BY <2>6, <3>1 DEF Underway, Puts
  <2>9. /\ DOMAIN seen' = Clients /\ \A d \in Clients \ {c} : seen'[d] = seen[d]
    BY <2>1 DEF IInv, TypeOK
  <2> HIDE DEF t
  <2> QED
    BY <2>1, <2>4, <2>7, <2>8, <2>9, WriterStatement
<1> QED
  BY <1>2, <1>3

LEMMA DeleteProfileStep ==
    ASSUME IInv, NEW c \in Clients, DeleteProfile(c)
    PROVE  IInv'
<1>1. ops[c] # <<>> /\ step[c] = "unprofile" /\ Blockers(c) = {}
  BY DEF DeleteProfile, At
<1>2. /\ txn[<<c, "live">>] \in Transactions /\ Harmless(txn[<<c, "live">>]) /\ Underway(c)
      /\ <<c, "live">> \in Sessions /\ txn \in [Sessions -> Transactions]
  BY SessionsAre DEF IInv, TypeOK
<1>3. CASE profile = NoProfile
  <2>1. UNCHANGED <<profile, records, txn, job, phase, ops, seen>> /\ Goto(c, "commit")
    BY <1>3 DEF DeleteProfile, store
  <2>2. Underway(c)'
    BY <2>1 DEF Underway, Goto, IInv, TypeOK
  <2>3. Harmless(txn[<<c, "live">>])'
    BY <1>2, <2>1, StillHarmless DEF Harmless
  <2> QED
    BY <2>1, <2>2, <2>3, NextStatement DEF IInv, TypeOK
<1>4. CASE profile # NoProfile /\ Stored \subseteq DOMAIN Live(c).writes
  <2> DEFINE t == [txn[<<c, "live">>] EXCEPT !.profile = NoProfile, !.locks = @ \cup {"row"}]
  <2>1. /\ txn' = [txn EXCEPT ![<<c, "live">>] = t] /\ Goto(c, "commit")
        /\ UNCHANGED <<profile, records, job, phase, ops, seen>>
    BY <1>4 DEF DeleteProfile, Statement, store, Live, Update
  <2>2. /\ t \in Transactions /\ t.locks = txn[<<c, "live">>].locks \cup {"row"}
        /\ t.writes = txn[<<c, "live">>].writes /\ t.profile = NoProfile
    BY <1>2 DEF Transactions
  <2>3. /\ txn' \in [Sessions -> Transactions] /\ txn'[<<c, "live">>] = t
        /\ \A s \in Others(c) : txn'[s] = txn[s]
    BY <1>2, <2>1, <2>2 DEF Others
  <2>4. Puts(t) = {} /\ Stored \subseteq DOMAIN t.writes
    BY <1>1, <1>2, <1>4, <2>2 DEF Underway, Puts, Live
  <2>5. Harmless(txn[<<c, "live">>])'
    <3>1. Stored' = Stored /\ profile' = profile
      BY <2>1 DEF Stored
    <3>2. Puts(txn'[<<c, "live">>]) = {}
      BY <2>3, <2>4
    <3> QED
      BY <1>4, <2>2, <2>3, <2>4, <3>1, <3>2, NamesAssumption DEF Harmless, Puts
  <2>6. Underway(c)'
    BY <2>1 DEF Underway, Goto, IInv, TypeOK
  <2>7. \A l \in txn'[<<c, "live">>].locks :
            \/ l \in txn[<<c, "live">>].locks
            \/ \A s \in Others(c) : l \notin txn[s].locks
    <3>1. \A s \in Others(c) : "row" \notin txn[s].locks
      BY <1>1, <1>4, FreeRow
    <3> QED
      BY <2>2, <2>3, <3>1
  <2>8. /\ DOMAIN seen' = Clients /\ \A d \in Clients \ {c} : seen'[d] = seen[d]
    BY <2>1 DEF IInv, TypeOK
  <2> QED
    BY <2>1, <2>3, <2>5, <2>6, <2>7, <2>8, NextStatement
<1>5. CASE profile # NoProfile /\ ~(Stored \subseteq DOMAIN Live(c).writes)
  BY <1>1, <1>5, RaisingEnds DEF DeleteProfile
<1> QED
  BY <1>3, <1>4, <1>5

-----------------------------------------------------------------------------
(* The end of a transaction *)

\* A session ends and what it did takes effect: the locks it held make sure that
\* nobody relied on what it changes.
LEMMA AppliesSafely ==
    ASSUME IInv, NEW s \in Sessions, Apply(txn[s]), txn' = [txn EXCEPT ![s] = Idle]
    PROVE  /\ profile' \in Profiles \cup {NoProfile} /\ records' \in [Ids -> Rows]
           /\ txn' \in [Sessions -> Transactions] /\ Exclusive'
           /\ \A t \in Sessions : Harmless(txn[t])'
           /\ Matching'
           /\ \A d \in Clients : <<d, "live">> # s /\ Untouched(d) => Underway(d)'
<1> DEFINE t == txn[s]
<1>1. /\ t \in Transactions /\ Harmless(t) /\ Matching /\ Exclusive
      /\ t.profile \in Profiles \cup {NoProfile, Keep}
      /\ \A id \in DOMAIN t.writes : id \in Ids /\ t.writes[id] \in Rows
  <2>1. t \in Transactions /\ Harmless(t) /\ Matching /\ Exclusive
    BY DEF IInv, TypeOK
  <2>2. t.profile \in Profiles \cup {NoProfile, Keep} /\ t.writes \in Writes
    BY <2>1 DEF Transactions
  <2>3. PICK S \in SUBSET Ids : t.writes \in [S -> Rows]
    BY <2>2 DEF Writes
  <2> QED
    BY <2>1, <2>2, <2>3
<1>2. /\ records' = [id \in Ids |-> IF id \in DOMAIN t.writes THEN t.writes[id] ELSE records[id]]
      /\ profile' = IF t.profile = Keep THEN profile ELSE t.profile
  BY DEF Apply
<1>3. profile' \in Profiles \cup {NoProfile} /\ records' \in [Ids -> Rows]
  BY <1>1, <1>2 DEF IInv, TypeOK
<1>4. /\ txn' \in [Sessions -> Transactions]
      /\ txn'[s] = Idle /\ \A u \in Sessions \ {s} : txn'[u] = txn[u]
  BY IdleIsTyped DEF IInv, TypeOK
<1>5. Exclusive'
  BY <1>1, <1>4 DEF Exclusive, Idle
\* What the session did is one of three things.
<1>6. \/ t.profile = Keep /\ Puts(t) # {} /\ {"scope", "row"} \subseteq t.locks
      \/ t.profile = Keep /\ Puts(t) = {}
      \/ t.profile \in Profiles /\ Puts(t) = {} /\ "scope" \in t.locks /\ profile = NoProfile
      \/ t.profile = NoProfile /\ Puts(t) = {} /\ "row" \in t.locks /\ Stored \subseteq DOMAIN t.writes
  BY <1>1, NamesAssumption DEF Harmless
<1>7. Stored' \subseteq Stored \cup Puts(t)
  BY <1>2 DEF Stored, Puts
<1>8. Matching'
  <2>1. CASE t.profile = Keep /\ Puts(t) # {}
    <3>1. profile' = profile /\ profile # NoProfile /\ \A id \in Puts(t) : t.writes[id].under = profile
      BY <1>1, <1>2, <2>1 DEF Harmless
    <3> QED
      BY <1>1, <1>2, <3>1 DEF Matching, RecordsMatchProfile, Stored, Puts
  <2>2. CASE t.profile = Keep /\ Puts(t) = {}
    <3>1. profile' = profile /\ Stored' \subseteq Stored
      BY <1>2, <1>7, <2>2
    <3>2. \A id \in Stored' : records'[id] = records[id]
      BY <1>2, <2>2 DEF Stored, Puts
    <3> QED
      BY <1>1, <3>1, <3>2 DEF Matching, RecordsMatchProfile
  <2>3. CASE t.profile \in Profiles
    <3>1. profile = NoProfile /\ Stored' = {}
      BY <1>1, <1>6, <1>7, <2>3, NamesAssumption DEF Matching
    <3> QED
      BY <3>1 DEF Matching, RecordsMatchProfile
  <2>4. CASE t.profile = NoProfile
    <3>1. Stored \subseteq DOMAIN t.writes /\ Puts(t) = {}
      BY <1>6, <2>4, NamesAssumption
    <3>2. Stored' = {}
      BY <1>2, <3>1 DEF Stored, Puts
    <3> QED
      BY <3>2 DEF Matching, RecordsMatchProfile
  <2> QED
    BY <1>6, <2>1, <2>2, <2>3, <2>4
\* Whoever holds the row's lock beside it: the profile stays, and no record comes.
<1>9. \A u \in Sessions \ {s} :
          "row" \in txn[u].locks =>
              \/ profile' = profile /\ Stored' \subseteq Stored
              \/ profile = NoProfile /\ "scope" \in t.locks /\ profile' # NoProfile
  BY <1>1, <1>2, <1>6, <1>7, NamesAssumption DEF Exclusive
<1>10. \A u \in Sessions \ {s} : "scope" \in txn[u].locks => profile' = profile \/ profile' = NoProfile
  BY <1>1, <1>2, <1>6, NamesAssumption DEF Exclusive
<1> HIDE DEF t
<1>11. ASSUME NEW u \in Sessions PROVE Harmless(txn[u])'
  <2>1. CASE u = s
    BY <2>1, <1>4, EmptyWrites, NamesAssumption DEF Harmless, Idle, Puts
  <2>2. CASE u # s
    <3>1. Harmless(txn[u]) /\ txn'[u] = txn[u]
      BY <1>4, <2>2 DEF IInv
    <3> DEFINE v == txn[u]
    <3>2. "row" \in v.locks => profile' = profile /\ Stored' \subseteq Stored
      BY <1>1, <1>9, <2>2, <3>1 DEF Harmless, Exclusive, t
    <3>3. v.profile \in Profiles => profile' = NoProfile
      BY <1>10, <2>2, <3>1 DEF Harmless
    <3>4. profile' = NoProfile /\ "row" \in v.locks => "scope" \in v.locks
      BY <3>1, <3>2 DEF Harmless
    <3> QED
      BY <3>1, <3>2, <3>3, <3>4 DEF Harmless, Puts
  <2> QED
    BY <2>1, <2>2
<1>12. ASSUME NEW d \in Clients, <<d, "live">> # s, Untouched(d) PROVE Underway(d)'
  <2>1. Underway(d) /\ txn'[<<d, "live">>] = txn[<<d, "live">>] /\ <<d, "live">> \in Sessions \ {s}
    BY <1>4, <1>12, SessionsAre DEF IInv
  <2>2. "row" \in txn[<<d, "live">>].locks /\ "scope" \in txn[<<d, "live">>].locks => profile' = profile
    BY <1>1, <1>9, <1>10, <2>1 DEF Exclusive, t
  <2> QED
    BY <1>12, <2>1, <2>2 DEF Underway, Untouched, Puts, Current
<1> QED
  BY <1>3, <1>4, <1>5, <1>8, <1>11, <1>12

\* The command of c goes on after its session ended.
LEMMA CommandGoesOn ==
    ASSUME IInv, NEW c \in Clients, ops[c] # <<>>, GoOn(c) \/ GiveUp(c), Forget(c),
           txn'[<<c, "live">>] = Idle
    PROVE  /\ ops' \in [Clients -> Seq(Operations)] /\ DOMAIN step' = Clients
           /\ DOMAIN seen' = Clients /\ DOMAIN phase' = Clients /\ job' = job
           /\ \A d \in Clients \ {c} : Untouched(d)
           /\ Underway(c)'
<1>1. /\ ops' \in [Clients -> Seq(Operations)] /\ DOMAIN step' = Clients
      /\ \A d \in Clients \ {c} : ops'[d] = ops[d] /\ step'[d] = step[d]
      /\ Fresh(c)'
      /\ job' = job /\ DOMAIN phase' = Clients
  BY GoesOn DEF IInv
<1>2. DOMAIN seen' = Clients /\ \A d \in Clients \ {c} : seen'[d] = seen[d]
  BY DEF Forget, IInv, TypeOK
<1>3. Underway(c)'
  BY <1>1, EmptyWrites, FreshIsUnderway DEF Idle
<1> QED
  BY <1>1, <1>2, <1>3 DEF Untouched

LEMMA CommitSteps ==
    ASSUME IInv, NEW c \in Clients, Commit(c) \/ CommitUnanswered(c)
    PROVE  IInv'
<1>1. /\ ops[c] # <<>> /\ Apply(txn[<<c, "live">>]) /\ Forget(c)
      /\ GoOn(c) \/ GiveUp(c)
      /\ txn' = [txn EXCEPT ![<<c, "live">>] = Idle]
  BY DEF Commit, CommitUnanswered, Committing, Returns, Update, Live
<1>2. <<c, "live">> \in Sessions /\ txn'[<<c, "live">>] = Idle
  BY <1>1, SessionsAre DEF IInv, TypeOK
<1>3. /\ profile' \in Profiles \cup {NoProfile} /\ records' \in [Ids -> Rows]
      /\ txn' \in [Sessions -> Transactions] /\ Exclusive'
      /\ \A t \in Sessions : Harmless(txn[t])'
      /\ Matching'
      /\ \A d \in Clients : <<d, "live">> # <<c, "live">> /\ Untouched(d) => Underway(d)'
  BY <1>1, <1>2, AppliesSafely
<1>4. /\ ops' \in [Clients -> Seq(Operations)] /\ DOMAIN step' = Clients
      /\ DOMAIN seen' = Clients /\ DOMAIN phase' = Clients /\ job' = job
      /\ \A d \in Clients \ {c} : Untouched(d)
      /\ Underway(c)'
  BY <1>1, <1>2, CommandGoesOn
<1>5. TypeOK'
  BY <1>3, <1>4 DEF IInv, TypeOK
<1>6. \A d \in Clients : Underway(d)'
  BY <1>3, <1>4, SessionsAre
<1> QED
  BY <1>3, <1>5, <1>6 DEF IInv

LEMMA ResolveStep ==
    ASSUME IInv, NEW c \in Clients, Resolve(c)
    PROVE  IInv'
<1> DEFINE s == <<c, "orphan">>
<1>1. /\ s \in Sessions /\ \A d \in Clients : <<d, "live">> # s
      /\ txn' = [txn EXCEPT ![s] = Idle]
      /\ (Apply(txn[s]) \/ UNCHANGED store)
      /\ UNCHANGED <<job, phase, ops, step, seen>>
  BY SessionsAre DEF Resolve, control
<1> HIDE DEF s
<1>2. \A d \in Clients : Untouched(d)
  BY <1>1 DEF Untouched
<1>3. CASE Apply(txn[s])
  <2>1. /\ profile' \in Profiles \cup {NoProfile} /\ records' \in [Ids -> Rows]
        /\ txn' \in [Sessions -> Transactions] /\ Exclusive'
        /\ \A t \in Sessions : Harmless(txn[t])'
        /\ Matching'
        /\ \A d \in Clients : Underway(d)'
    BY <1>1, <1>2, <1>3, AppliesSafely
  <2>2. TypeOK'
    BY <1>1, <2>1 DEF IInv, TypeOK
  <2> QED
    BY <2>1, <2>2 DEF IInv
<1>4. CASE UNCHANGED store
  <2>1. UNCHANGED <<profile, records>> /\ Stored' = Stored
    BY <1>4 DEF store, Stored
  <2>2. /\ txn' \in [Sessions -> Transactions]
        /\ txn'[s] = Idle /\ \A u \in Sessions \ {s} : txn'[u] = txn[u]
    BY <1>1, IdleIsTyped DEF IInv, TypeOK
  <2>3. TypeOK'
    BY <1>1, <2>1, <2>2 DEF IInv, TypeOK
  <2>4. Exclusive'
    BY <2>2 DEF IInv, Exclusive, Idle
  <2>5. ASSUME NEW u \in Sessions PROVE Harmless(txn[u])'
    <3>1. CASE u = s
      BY <3>1, <2>2, EmptyWrites, NamesAssumption DEF Harmless, Idle, Puts
    <3>2. CASE u # s
      BY <3>2, <2>1, <2>2 DEF IInv, Harmless, Puts
    <3> QED
      BY <3>1, <3>2
  <2>6. ASSUME NEW d \in Clients PROVE Underway(d)'
    <3>1. Underway(d) /\ txn'[<<d, "live">>] = txn[<<d, "live">>]
      BY <1>1, <2>2, SessionsAre DEF IInv
    <3> QED
      BY <1>1, <2>1, <3>1 DEF Underway, Puts, Current
  <2>7. Matching'
    BY <2>1 DEF IInv, Matching, RecordsMatchProfile
  <2> QED
    BY <2>3, <2>4, <2>5, <2>6, <2>7 DEF IInv
<1> QED
  BY <1>1, <1>3, <1>4

\* The transaction changes hands: from the client to the server alone.
LEMMA CommitInDoubtStep ==
    ASSUME IInv, NEW c \in Clients, CommitInDoubt(c)
    PROVE  IInv'
<1> DEFINE s == <<c, "live">>
           o == <<c, "orphan">>
<1>1. /\ ops[c] # <<>> /\ Forget(c) /\ GiveUp(c) /\ txn[o] = Idle
      /\ txn' = [txn EXCEPT ![s] = Idle, ![o] = txn[s]]
      /\ UNCHANGED <<profile, records>> /\ Stored' = Stored
  BY DEF CommitInDoubt, Committing, Begun, Live, store, Stored
<1>2. /\ s \in Sessions /\ o \in Sessions /\ s # o
      /\ \A d \in Clients \ {c} : <<d, "live">> \in Sessions \ {s, o}
  BY SessionsAre
<1> HIDE DEF s, o
<1>3. /\ txn' \in [Sessions -> Transactions] /\ txn'[s] = Idle /\ txn'[o] = txn[s]
      /\ \A u \in Sessions \ {s, o} : txn'[u] = txn[u]
  BY <1>1, <1>2, IdleIsTyped DEF IInv, TypeOK
<1>4. /\ ops' \in [Clients -> Seq(Operations)] /\ DOMAIN step' = Clients
      /\ DOMAIN seen' = Clients /\ DOMAIN phase' = Clients /\ job' = job
      /\ \A d \in Clients \ {c} : Untouched(d)
      /\ Underway(c)'
  BY <1>1, <1>3, CommandGoesOn DEF s
<1>5. TypeOK'
  BY <1>1, <1>3, <1>4 DEF IInv, TypeOK
<1>6. Exclusive'
  BY <1>1, <1>2, <1>3 DEF IInv, Exclusive, Idle
<1>7. ASSUME NEW u \in Sessions PROVE Harmless(txn[u])'
  <2>1. CASE u = s
    BY <2>1, <1>3, EmptyWrites, NamesAssumption DEF Harmless, Idle, Puts
  <2>2. CASE u # s
    <3>1. PICK v \in Sessions : txn'[u] = txn[v]
      BY <1>2, <1>3, <2>2
    <3> QED
      BY <1>1, <3>1 DEF IInv, Harmless, Puts
  <2> QED
    BY <2>1, <2>2
<1>8. ASSUME NEW d \in Clients PROVE Underway(d)'
  <2> SUFFICES ASSUME d # c PROVE Underway(d)'
    BY <1>4
  <2>1. Underway(d) /\ Untouched(d) /\ txn'[<<d, "live">>] = txn[<<d, "live">>]
    BY <1>2, <1>3, <1>4 DEF IInv
  <2> QED
    BY <1>1, <2>1 DEF Underway, Untouched, Puts, Current
<1>9. Matching'
  BY <1>1 DEF IInv, Matching, RecordsMatchProfile
<1> QED
  BY <1>5, <1>6, <1>7, <1>8, <1>9 DEF IInv

\* A client that has nothing to do waits for nobody.
LEMMA NothingBlocksTheIdle ==
    ASSUME NEW c \in Clients, ops[c] = <<>>
    PROVE  Blockers(c) = {}
  BY Zenon DEF Blockers

LEMMA FailSteps ==
    ASSUME IInv, NEW c \in Clients, Fail(c) \/ BreakDeadlock(c)
    PROVE  IInv'
<1>1. CASE Fail(c)
  BY <1>1, OperationEnds DEF Fail, store
<1>2. CASE BreakDeadlock(c)
  <2>1. Raises(c, "error")
    BY <1>2 DEF BreakDeadlock
  <2>2. ops[c] # <<>>
    BY <1>2, NothingBlocksTheIdle, Zenon DEF BreakDeadlock
  <2> QED
    BY <2>1, <2>2, RaisingEnds
<1> QED
  BY <1>1, <1>2

-----------------------------------------------------------------------------
(* The invariant *)

LEMMA InitHolds == Init => IInv
<1> SUFFICES ASSUME Init PROVE IInv
  OBVIOUS
<1>1. PICK s \in Stores : profile = s[2] /\ records = s[3]
  BY DEF Init
<1>2. /\ s[2] \in Profiles \cup {NoProfile} /\ s[3] \in [Ids -> Rows]
      /\ \A id \in Ids : s[3][id] # NoRecord => s[3][id].under = s[2]
  BY StoresAssumption
<1>3. /\ job \in [Clients -> Commands] /\ txn = [u \in Sessions |-> Idle]
      /\ DOMAIN phase = Clients /\ DOMAIN seen = Clients
      /\ ops = [c \in Clients |-> job[c].main]
      /\ step = [c \in Clients |-> FirstStep[Head(job[c].main).kind]]
  BY JobsAssumption DEF Init
<1>4. \A c \in Clients : job[c].main \in Seq(Operations) /\ job[c].main # <<>>
  BY <1>3 DEF Commands
<1>5. TypeOK
  BY <1>1, <1>2, <1>3, <1>4, IdleIsTyped DEF TypeOK
<1>6. Exclusive
  BY <1>3 DEF Exclusive, Idle
<1>7. \A u \in Sessions : Harmless(txn[u])
  BY <1>3, EmptyWrites, NamesAssumption DEF Harmless, Idle, Puts
<1>8. ASSUME NEW c \in Clients PROVE Underway(c)
  <2>1. txn[<<c, "live">>] = Idle
    BY <1>3, SessionsAre
  <2>2. Current(c) \in Operations /\ step[c] = FirstStep[Current(c).kind]
    BY <1>3, <1>4 DEF Current
  <2>3. Current(c).kind \in DOMAIN FirstStep
    BY <2>2 DEF Operations
  <2>4. step[c] \in {"lock", "verify", "lookup", "scope", "bound", "delete"}
    BY <2>2, <2>3 DEF FirstStep
  <2>5. step[c] = "scope" => Current(c).kind \in Writing
    BY <2>2, <2>3 DEF FirstStep, Writing
  <2> QED
    BY <2>1, <2>4, <2>5, EmptyWrites DEF Underway, Idle
<1>9. Matching
  <2>1. RecordsMatchProfile
    BY <1>1, <1>2 DEF RecordsMatchProfile, Stored
  <2>2. \A id \in Stored : records[id].under \in Profiles
    BY <1>1, <1>2 DEF Stored, Rows, Content
  <2> QED
    BY <2>1, <2>2, NamesAssumption DEF Matching, RecordsMatchProfile
<1> QED
  BY <1>5, <1>6, <1>7, <1>8, <1>9 DEF IInv

LEMMA StepKeeps == IInv /\ [Next]_vars => IInv'
<1> SUFFICES ASSUME IInv, [Next]_vars PROVE IInv'
  OBVIOUS
<1>1. CASE UNCHANGED vars
  BY <1>1 DEF IInv, TypeOK, Exclusive, Harmless, Underway, Matching, RecordsMatchProfile,
     Puts, Stored, Current, vars
<1>2. ASSUME NEW c \in Clients, Statements(c) PROVE IInv'
  BY <1>2, MigrationSteps, SearchSteps, AcquireStep, ReadProfileStep, InsertProfileStep,
     GetRecordsStep, InsertRecordsStep, ReplaceRecordStep, DeleteRecordsStep,
     DeleteProfileStep, CommitSteps DEF Statements
<1>3. ASSUME NEW c \in Clients, Faults(c) PROVE IInv'
  BY <1>3, MigrationSteps, CommitSteps, CommitInDoubtStep, FailSteps DEF Faults
<1> QED
  BY <1>1, <1>2, <1>3, ResolveStep, FailSteps DEF Next

LEMMA AlwaysIInv == Spec => []IInv
  BY InitHolds, StepKeeps, PTL DEF Spec

\* Whatever commands run against a scope, however often, and wherever their
\* connections fail: the stored records were embedded under the registered
\* profile (admit_batch, upsert, register, _cleanup_synthetic_scope).
THEOREM RecordsAreOfTheProfile == Spec => []RecordsMatchProfile
<1>1. IInv => RecordsMatchProfile
  BY DEF IInv, Matching
<1> QED
  BY <1>1, AlwaysIInv, PTL

\* The two locks of a scope have one holder each (AcquireScopeLock and
\* get_profile with for_update, against the clean-up that takes only the second).
THEOREM LocksAreExclusive == Spec => []Exclusive
<1>1. IInv => Exclusive
  BY DEF IInv
<1> QED
  BY <1>1, AlwaysIInv, PTL

-----------------------------------------------------------------------------
(* The ledger. Each open transaction is one operation of the ledger that has   *)
(* yet to take effect, and its client's answer will be true when it does.      *)

\* Sessions write different rows.
Apart == \A s, t \in Sessions : s # t => DOMAIN txn[s].writes \cap DOMAIN txn[t].writes = {}

\* A transaction stores rows of its own client, or registers, or removes.
OneEffect(s) ==
    LET t == txn[s]
    IN  /\ Puts(t) # {} => \A id \in DOMAIN t.writes : /\ t.writes[id] # NoRecord
                                                       /\ t.writes[id].by = s[1]
        /\ t.profile # Keep => schema
        /\ t.profile \in Profiles => DOMAIN t.writes = {}

\* What a transaction removes without the profile is not there any more.
Settled(t) == t.profile = Keep /\ Puts(t) = {} => DOMAIN t.writes \cap Stored = {}

\* What GetRecords returned is still true.
SeenIsStored(c) == /\ DOMAIN seen[c] = DOMAIN Current(c).batch
                   /\ \A id \in DOMAIN seen[c] : seen[c][id] = records[id]

\* A transaction about to commit is the one its operation promises.
Ready(c) ==
    LET t == txn[<<c, "live">>]
        op == Current(c)
    IN  /\ schema
        /\ Settled(t)
        /\ op.kind \in Writing \cup {"search", "clean"}
        /\ op.kind \in Writing => {"scope", "row"} \subseteq t.locks
        /\ op.kind = "register" => /\ profile \in {NoProfile, op.profile}
                                   /\ DOMAIN t.writes = {}
                                   /\ t.profile = IF profile = NoProfile THEN op.profile ELSE Keep
        /\ op.kind \in {"admit", "replace"} => profile = op.profile /\ t.profile = Keep
        /\ op.kind = "admit" => /\ SeenIsStored(c) /\ Conflicting(c) = {}
                                /\ t.writes = [id \in NewIds(c) |-> Offered(c)[id]]
        /\ op.kind = "replace" => t.writes = Offered(c)
        /\ op.kind = "search" => DOMAIN t.writes = {} /\ t.profile = Keep
        /\ op.kind = "clean" => \/ t.profile = NoProfile
                                \/ t.profile = Keep /\ Puts(t) = {} /\ answer[c] = <<"cleared">>

Knows(c) == /\ step[c] \in {"insert", "records", "put", "replace", "unprofile", "search"} => schema
            /\ step[c] = "put" => SeenIsStored(c)
            /\ step[c] = "commit" => Ready(c)

JInv == /\ IInv
        /\ schema \in BOOLEAN /\ answer = [c \in Clients |-> answer[c]]
        /\ Apart
        /\ \A s \in Sessions : OneEffect(s)
        /\ \A c \in Clients : Settled(txn[<<c, "orphan">>]) /\ Knows(c)

-----------------------------------------------------------------------------
(* What one step leaves true of the sessions and clients it does not touch *)

LEMMA Facts ==
    ASSUME JInv, NEW c \in Clients
    PROVE  /\ IInv /\ TypeOK /\ Matching /\ Underway(c) /\ Knows(c) /\ Apart
           /\ txn \in [Sessions -> Transactions]
           /\ <<c, "live">> \in Sessions /\ <<c, "orphan">> \in Sessions
           /\ txn[<<c, "live">>] \in Transactions /\ Harmless(txn[<<c, "live">>])
           /\ OneEffect(<<c, "live">>) /\ OneEffect(<<c, "orphan">>)
           /\ Settled(txn[<<c, "orphan">>])
  BY SessionsAre DEF JInv, IInv, TypeOK

LEMMA ReadyStays ==
    ASSUME NEW d, Ready(d), Untouched(d), answer'[d] = answer[d], schema' = TRUE,
           txn'[<<d, "live">>] = txn[<<d, "live">>], Settled(txn[<<d, "live">>])',
           Current(d).kind \in Writing => profile' = profile,
           Current(d).kind = "admit" => \A id \in DOMAIN seen[d] : records'[id] = records[id]
    PROVE  Ready(d)'
<1>1. /\ Current(d)' = Current(d) /\ seen'[d] = seen[d] /\ Offered(d)' = Offered(d)
  BY DEF Untouched, Current, Offered
<1>2. NewIds(d)' = NewIds(d) /\ Conflicting(d)' = Conflicting(d)
  BY <1>1 DEF NewIds, Conflicting
<1>3. SeenIsStored(d) /\ (\A id \in DOMAIN seen[d] : records'[id] = records[id])
         => SeenIsStored(d)'
  BY <1>1 DEF SeenIsStored
<1>4. Current(d).kind \in {"register", "admit", "replace"} => profile' = profile
  BY DEF Writing
<1> QED
  BY <1>1, <1>2, <1>3, <1>4 DEF Ready, Puts

LEMMA KnowsStays ==
    ASSUME NEW d, Knows(d), Untouched(d), answer'[d] = answer[d], schema => schema' = TRUE,
           txn'[<<d, "live">>] = txn[<<d, "live">>],
           step[d] = "commit" => Settled(txn[<<d, "live">>])',
           step[d] = "commit" /\ Current(d).kind \in Writing => profile' = profile,
           step[d] = "put" \/ (step[d] = "commit" /\ Current(d).kind = "admit")
              => \A id \in DOMAIN seen[d] : records'[id] = records[id]
    PROVE  Knows(d)'
<1>1. step'[d] = step[d] /\ Current(d)' = Current(d) /\ seen'[d] = seen[d]
  BY DEF Untouched, Current
<1>2. step[d] = "put" => SeenIsStored(d)'
  <2> SUFFICES ASSUME step[d] = "put" PROVE SeenIsStored(d)'
    OBVIOUS
  <2>1. SeenIsStored(d) /\ \A id \in DOMAIN seen[d] : records'[id] = records[id]
    BY DEF Knows
  <2> QED
    BY <1>1, <2>1 DEF SeenIsStored
<1>3. step[d] = "commit" => Ready(d)'
  <2> SUFFICES ASSUME step[d] = "commit" PROVE Ready(d)'
    OBVIOUS
  <2>1. Ready(d) /\ schema
    BY DEF Knows, Ready
  <2> QED
    BY <2>1, ReadyStays
<1> QED
  BY <1>1, <1>2, <1>3 DEF Knows

\* A step of c that commits nothing.
LEMMA Steady ==
    ASSUME JInv, IInv', NEW c \in Clients, UNCHANGED <<profile, records>>,
           schema' \in BOOLEAN, schema => schema' = TRUE,
           \A s \in Others(c) : txn'[s] = txn[s],
           \A d \in Clients \ {c} : Untouched(d) /\ answer'[d] = answer[d],
           answer' = [d \in Clients |-> answer'[d]],
           \A s \in Others(c) :
               DOMAIN txn'[<<c, "live">>].writes \cap DOMAIN txn[s].writes = {},
           OneEffect(<<c, "live">>)', Knows(c)'
    PROVE  JInv'
<1>1. Apart'
  <2> SUFFICES ASSUME NEW s \in Sessions, NEW t \in Sessions, s # t
               PROVE  DOMAIN txn'[s].writes \cap DOMAIN txn'[t].writes = {}
    BY DEF Apart
  <2> QED
    BY DEF JInv, Apart, Others
<1>2. \A s \in Sessions : OneEffect(s)'
  <2> SUFFICES ASSUME NEW s \in Others(c) PROVE OneEffect(s)'
    BY DEF Others
  <2>1. OneEffect(s) /\ txn'[s] = txn[s]
    BY DEF JInv, Others
  <2> QED
    BY <2>1 DEF OneEffect, Puts
<1>3. Stored' = Stored
  BY DEF Stored
<1>4. ASSUME NEW d \in Clients PROVE Settled(txn[<<d, "orphan">>])'
  <2>1. txn'[<<d, "orphan">>] = txn[<<d, "orphan">>]
    BY SessionsAre DEF Others
  <2> QED
    BY <1>3, <2>1 DEF JInv, Settled, Puts
<1>5. ASSUME NEW d \in Clients PROVE Knows(d)'
  <2> SUFFICES ASSUME d # c PROVE Knows(d)'
    OBVIOUS
  <2>1. /\ Knows(d) /\ Untouched(d) /\ answer'[d] = answer[d]
        /\ txn'[<<d, "live">>] = txn[<<d, "live">>]
    BY SessionsAre DEF JInv, Others
  <2>2. step[d] = "commit" => Settled(txn[<<d, "live">>])'
    BY <1>3, <2>1 DEF Knows, Ready, Settled, Puts
  <2> QED
    BY <2>1, <2>2, KnowsStays
<1> QED
  BY <1>1, <1>2, <1>4, <1>5 DEF JInv

\* At a fresh start there is nothing to know.
LEMMA FreshKnows ==
    ASSUME NEW c \in Clients, ops' \in [Clients -> Seq(Operations)], Fresh(c)'
    PROVE  Knows(c)'
<1>1. CASE step'[c] = "end"
  BY <1>1 DEF Knows
<1>2. CASE ops'[c] # <<>> /\ step'[c] = FirstStep[Current(c)'.kind]
  <2>1. Current(c)' \in Operations
    BY <1>2 DEF Current
  <2>2. Current(c)'.kind \in DOMAIN FirstStep
    BY <2>1 DEF Operations
  <2>3. step'[c] \in {"lock", "verify", "lookup", "scope", "bound", "delete"}
    BY <1>2, <2>2 DEF FirstStep
  <2> QED
    BY <2>3 DEF Knows
<1> QED
  BY <1>1, <1>2 DEF Fresh

\* What an answer leaves alone.
LEMMA AnswerIs ==
    ASSUME JInv, NEW c \in Clients, NEW a, answer' = [answer EXCEPT ![c] = a]
    PROVE  /\ \A d \in Clients \ {c} : answer'[d] = answer[d]
           /\ answer' = [d \in Clients |-> answer'[d]]
           /\ answer'[c] = a
<1>1. answer = [d \in Clients |-> answer[d]]
  BY DEF JInv
<1> QED
  BY <1>1

LEMMA IdleIs == DOMAIN Idle.writes = {} /\ Idle.profile = Keep /\ Puts(Idle) = {}
  BY EmptyWrites, IdleIsTyped DEF Idle

\* The operation under way ends without a commit.
LEMMA EndsFaithfully ==
    ASSUME JInv, IInv', NEW c \in Clients, ops[c] # <<>>, GoOn(c) \/ GiveUp(c), Forget(c),
           UNCHANGED <<schema, profile, records>>,
           NEW a, answer' = [answer EXCEPT ![c] = a],
           Update(c, Idle) \/ UNCHANGED txn
    PROVE  JInv'
<1>1. /\ ops' \in [Clients -> Seq(Operations)]
      /\ \A d \in Clients \ {c} : ops'[d] = ops[d] /\ step'[d] = step[d]
      /\ Fresh(c)'
  BY GoesOn DEF JInv, IInv
<1>2. \A d \in Clients \ {c} : seen'[d] = seen[d]
  BY DEF Forget, JInv, IInv, TypeOK
<1>3. \A d \in Clients \ {c} : Untouched(d)
  BY <1>1, <1>2 DEF Untouched
<1>4. /\ \A s \in Others(c) : txn'[s] = txn[s]
      /\ txn'[<<c, "live">>] \in {Idle, txn[<<c, "live">>]}
  BY Facts DEF Update, Others
<1>5. DOMAIN txn'[<<c, "live">>].writes \subseteq DOMAIN txn[<<c, "live">>].writes
  BY <1>4, IdleIs
<1>6. \A s \in Others(c) : DOMAIN txn[<<c, "live">>].writes \cap DOMAIN txn[s].writes = {}
  BY Facts DEF Apart, Others
<1>7. OneEffect(<<c, "live">>)'
  <2>1. OneEffect(<<c, "live">>)
    BY Facts
  <2> QED
    BY <1>4, <2>1, IdleIs, NamesAssumption DEF OneEffect, Puts
<1>8. Knows(c)'
  BY <1>1, FreshKnows
<1>9. schema' \in BOOLEAN /\ (schema => schema' = TRUE)
  BY DEF JInv
<1> QED
  BY <1>3, <1>4, <1>5, <1>6, <1>7, <1>8, <1>9, AnswerIs, Steady

-----------------------------------------------------------------------------
(* Statements, as the ledger sees them: nothing happens but an answer *)

\* A statement of c after which its transaction is t.
LEMMA StatementFaithful ==
    ASSUME JInv, IInv', NEW c \in Clients,
           UNCHANGED <<profile, records, ops>>,
           schema' \in BOOLEAN, schema => schema' = TRUE,
           NEW s, Goto(c, s),
           \A d \in Clients \ {c} : seen'[d] = seen[d] /\ answer'[d] = answer[d],
           answer' = [d \in Clients |-> answer'[d]],
           \A u \in Others(c) : txn'[u] = txn[u],
           \A u \in Others(c) :
               DOMAIN txn'[<<c, "live">>].writes \cap DOMAIN txn[u].writes = {},
           OneEffect(<<c, "live">>)', Knows(c)'
    PROVE  JInv'
<1>1. \A d \in Clients \ {c} : step'[d] = step[d]
  BY DEF Goto, JInv, IInv, TypeOK
<1>2. \A d \in Clients \ {c} : Untouched(d)
  BY <1>1 DEF Untouched
<1> QED
  BY <1>2, Steady

\* The transaction of c writes nothing new.
LEMMA SameWrites ==
    ASSUME JInv, NEW c \in Clients,
           schema => schema' = TRUE,
           txn'[<<c, "live">>].writes = txn[<<c, "live">>].writes,
           txn'[<<c, "live">>].profile = txn[<<c, "live">>].profile
    PROVE  /\ OneEffect(<<c, "live">>)'
           /\ \A u \in Others(c) :
                 DOMAIN txn'[<<c, "live">>].writes \cap DOMAIN txn[u].writes = {}
<1>1. OneEffect(<<c, "live">>) /\ Apart /\ <<c, "live">> \in Sessions
  BY Facts
<1>2. OneEffect(<<c, "live">>)'
  BY <1>1 DEF OneEffect, Puts
<1>3. \A u \in Others(c) : u \in Sessions /\ u # <<c, "live">>
  BY DEF Others
<1> QED
  BY <1>1, <1>2, <1>3 DEF Apart

\* A statement that neither writes nor answers, and after which little is known.
LEMMA QuietFaithful ==
    ASSUME JInv, IInv', NEW c \in Clients,
           UNCHANGED <<profile, records, ops, seen, answer, txn>>,
           schema' \in BOOLEAN, schema => schema' = TRUE,
           NEW s, Goto(c, s), Knows(c)'
    PROVE  JInv'
<1>1. /\ OneEffect(<<c, "live">>)'
      /\ \A u \in Others(c) :
            DOMAIN txn'[<<c, "live">>].writes \cap DOMAIN txn[u].writes = {}
  BY SameWrites
<1>2. answer' = [d \in Clients |-> answer'[d]]
  BY DEF JInv
<1> QED
  BY <1>1, <1>2, StatementFaithful

LEMMA GotoIs ==
    ASSUME JInv, NEW c \in Clients, NEW s, Goto(c, s)
    PROVE  step'[c] = s
  BY DEF JInv, IInv, TypeOK, Goto

LEMMA RaisesFaithfully ==
    ASSUME JInv, IInv', NEW c \in Clients, ops[c] # <<>>, NEW e, Raises(c, e)
    PROVE  JInv'
<1>1. /\ GoOn(c) \/ GiveUp(c)
      /\ Forget(c) /\ UNCHANGED <<schema, profile, records>>
      /\ answer' = [answer EXCEPT ![c] = <<e>>] /\ (Update(c, Idle) \/ UNCHANGED txn)
  BY DEF Raises, store
<1> QED
  BY <1>1, EndsFaithfully

LEMMA ReturnsFaithfully ==
    ASSUME JInv, IInv', NEW c \in Clients, ops[c] # <<>>, NEW v, Returns(c, v),
           UNCHANGED <<schema, profile, records, txn>>
    PROVE  JInv'
<1>1. /\ GoOn(c) \/ GiveUp(c)
      /\ Forget(c) /\ answer' = [answer EXCEPT ![c] = v]
      /\ (Update(c, Idle) \/ UNCHANGED txn)
  BY DEF Returns
<1> QED
  BY <1>1, EndsFaithfully

LEMMA MigrationFaithful ==
    ASSUME JInv, IInv', NEW c \in Clients,
           \/ InspectLockedState(c) \/ LockTimeout(c) \/ ApplyMigration(c)
           \/ FinishMigration(c) \/ VerifyReadiness(c) \/ LookupProfile(c)
    PROVE  JInv'
<1>1. CASE InspectLockedState(c)
  <2>1. /\ UNCHANGED <<schema, profile, records, ops, seen, answer, txn>>
        /\ Goto(c, IF schema THEN "check" ELSE "apply")
    BY <1>1 DEF InspectLockedState, store
  <2>2. Knows(c)'
    BY <2>1, GotoIs DEF Knows
  <2> QED
    BY <2>1, <2>2, QuietFaithful DEF JInv
<1>2. CASE LockTimeout(c)
  BY <1>2, RaisesFaithfully DEF LockTimeout, At
<1>3. CASE ApplyMigration(c)
  <2>1. CASE schema
    BY <1>3, <2>1, RaisesFaithfully DEF ApplyMigration, At
  <2>2. CASE ~schema
    <3>1. /\ UNCHANGED <<profile, records, ops, seen, answer, txn>> /\ schema' = TRUE
          /\ Goto(c, "check")
      BY <1>3, <2>2 DEF ApplyMigration
    <3>2. Knows(c)'
      BY <3>1, GotoIs DEF Knows
    <3> QED
      BY <3>1, <3>2, QuietFaithful
  <2> QED
    BY <2>1, <2>2
<1>4. CASE FinishMigration(c)
  BY <1>4, ReturnsFaithfully DEF FinishMigration, At, store
<1>5. CASE VerifyReadiness(c)
  <2>1. CASE schema
    BY <1>5, <2>1, ReturnsFaithfully DEF VerifyReadiness, At, store
  <2>2. CASE ~schema
    BY <1>5, <2>2, RaisesFaithfully DEF VerifyReadiness, At
  <2> QED
    BY <2>1, <2>2
<1>6. CASE LookupProfile(c)
  <2>1. CASE schema /\ profile = Current(c).profile
    BY <1>6, <2>1, ReturnsFaithfully DEF LookupProfile, At, store
  <2>2. CASE ~(schema /\ profile = Current(c).profile)
    BY <1>6, <2>2, RaisesFaithfully DEF LookupProfile, At
  <2> QED
    BY <2>1, <2>2
<1> QED
  BY <1>1, <1>2, <1>3, <1>4, <1>5, <1>6

LEMMA SearchFaithful ==
    ASSUME JInv, IInv', NEW c \in Clients, CheckBoundProfile(c) \/ SearchCosine(c)
    PROVE  JInv'
<1>1. CASE CheckBoundProfile(c)
  <2>1. CASE schema /\ profile = Current(c).profile
    <3>1. /\ UNCHANGED <<schema, profile, records, ops, seen, answer, txn>>
          /\ Goto(c, "search")
      BY <1>1, <2>1 DEF CheckBoundProfile, Statement, store
    <3>2. Knows(c)'
      BY <2>1, <3>1, GotoIs DEF Knows
    <3> QED
      BY <3>1, <3>2, QuietFaithful DEF JInv
  <2>2. CASE ~(schema /\ profile = Current(c).profile)
    BY <1>1, <2>2, RaisesFaithfully DEF CheckBoundProfile, At
  <2> QED
    BY <2>1, <2>2
<1>2. CASE SearchCosine(c)
  <2>1. /\ UNCHANGED <<schema, profile, records, ops, seen, txn>> /\ Goto(c, "commit")
        /\ \E a : answer' = [answer EXCEPT ![c] = a]
        /\ Current(c).kind = "search" /\ step[c] = "search"
    BY <1>2 DEF SearchCosine, At, store
  <2>2. Current(c)' = Current(c) /\ step'[c] = "commit"
    BY <2>1, GotoIs DEF Current
  <2>3. schema /\ DOMAIN txn[<<c, "live">>].writes = {} /\ txn[<<c, "live">>].profile = Keep
    BY <2>1, Facts DEF Knows, Underway
  <2>4. Ready(c)'
    BY <2>1, <2>2, <2>3 DEF Ready, Settled, Writing
  <2>5. Knows(c)'
    BY <2>2, <2>4 DEF Knows
  <2>6. /\ \A d \in Clients \ {c} : seen'[d] = seen[d] /\ answer'[d] = answer[d]
        /\ answer' = [d \in Clients |-> answer'[d]]
    BY <2>1, AnswerIs
  <2> QED
    BY <2>1, <2>5, <2>6, SameWrites, StatementFaithful DEF JInv
<1> QED
  BY <1>1, <1>2

-----------------------------------------------------------------------------
(* The statements of a writer *)

LEMMA LocksFaithfully ==
    ASSUME JInv, IInv', NEW c \in Clients, NEW l \in {"scope", "row"}, Locking(c, l),
           NEW s, Goto(c, s), UNCHANGED <<schema, profile, records, ops, seen, answer>>,
           s \in {"insert", "records", "replace"} => schema,
           s \in {"profile", "insert", "records", "replace"}
    PROVE  JInv'
<1>1. /\ \A u \in Others(c) : txn'[u] = txn[u]
      /\ txn'[<<c, "live">>].writes = txn[<<c, "live">>].writes
      /\ txn'[<<c, "live">>].profile = txn[<<c, "live">>].profile
  BY Locks DEF JInv
<1>2. Knows(c)'
  BY GotoIs DEF Knows
<1>3. answer' = [d \in Clients |-> answer'[d]]
  BY DEF JInv
<1> QED
  BY <1>1, <1>2, <1>3, SameWrites, StatementFaithful DEF JInv

LEMMA ScopeFaithful ==
    ASSUME JInv, IInv', NEW c \in Clients, AcquireScopeLock(c) \/ ReadProfileForUpdate(c)
    PROVE  JInv'
<1>1. CASE AcquireScopeLock(c)
  <2>1. /\ Locking(c, "scope") /\ Goto(c, "profile")
        /\ UNCHANGED <<schema, profile, records, ops, seen, answer>>
    BY <1>1 DEF AcquireScopeLock, Statement, store
  <2> QED
    BY <2>1, LocksFaithfully
<1>2. CASE ReadProfileForUpdate(c)
  <2>1. CASE ~Accepts(c)
    BY <1>2, <2>1, RaisesFaithfully DEF ReadProfileForUpdate
  <2>2. CASE Accepts(c)
    <3>1. /\ Locking(c, "row") /\ Goto(c, AfterProfile(c))
          /\ UNCHANGED <<schema, profile, records, ops, seen, answer>>
          /\ step[c] = "profile"
      BY <1>2, <2>2 DEF ReadProfileForUpdate, Statement, store
    <3>2. AfterProfile(c) \in {"insert", "records", "replace"}
      BY <3>1, Facts, AfterProfileIs DEF Underway, Writing
    <3> QED
      BY <2>2, <3>1, <3>2, LocksFaithfully DEF Accepts
  <2> QED
    BY <2>1, <2>2
<1> QED
  BY <1>1, <1>2

LEMMA InsertProfileFaithful ==
    ASSUME JInv, IInv', NEW c \in Clients, InsertProfile(c)
    PROVE  JInv'
<1>1. /\ step[c] = "insert" /\ Goto(c, "commit") /\ ops[c] # <<>>
      /\ Current(c).kind = "register"
      /\ UNCHANGED <<schema, profile, records, ops, seen, answer>>
  BY DEF InsertProfile, Statement, store, At
<1>2. Current(c)' = Current(c) /\ step'[c] = "commit"
  BY <1>1, GotoIs DEF Current
<1>3. /\ schema /\ {"scope", "row"} \subseteq txn[<<c, "live">>].locks
      /\ profile \in {NoProfile, Current(c).profile}
      /\ DOMAIN txn[<<c, "live">>].writes = {} /\ txn[<<c, "live">>].profile = Keep
  BY <1>1, Facts DEF Knows, Underway
<1>4. answer' = [d \in Clients |-> answer'[d]]
  BY <1>1 DEF JInv
<1> DEFINE live == txn'[<<c, "live">>]
<1>5. /\ \A u \in Others(c) : txn'[u] = txn[u]
      /\ live.locks = txn[<<c, "live">>].locks /\ DOMAIN live.writes = {}
      /\ live.profile = IF profile = NoProfile THEN Current(c).profile ELSE Keep
  <2>1. CASE profile = NoProfile
    <3>1. txn' = [txn EXCEPT ![<<c, "live">>] = [@ EXCEPT !.profile = Current(c).profile]]
      BY <2>1, Facts DEF InsertProfile, Update, Live
    <3> QED
      BY <1>3, <2>1, <3>1, Facts DEF Others, Transactions
  <2>2. CASE profile # NoProfile
    BY <1>3, <2>2 DEF InsertProfile
  <2> QED
    BY <2>1, <2>2
<1> HIDE DEF live
<1>6. OneEffect(<<c, "live">>)'
  BY <1>1, <1>3, <1>5 DEF OneEffect, live, Puts
<1>7. Ready(c)'
  BY <1>1, <1>2, <1>3, <1>5 DEF Ready, live, Settled, Writing
<1>8. Knows(c)'
  BY <1>2, <1>7 DEF Knows
<1>9. \A u \in Others(c) : DOMAIN txn'[<<c, "live">>].writes \cap DOMAIN txn[u].writes = {}
  BY <1>5 DEF live
<1> QED
  BY <1>1, <1>4, <1>5, <1>6, <1>8, <1>9, StatementFaithful DEF JInv

LEMMA GetRecordsFaithful ==
    ASSUME JInv, IInv', NEW c \in Clients, GetRecords(c)
    PROVE  JInv'
<1>1. /\ step[c] = "records" /\ Goto(c, "put")
      /\ seen' = [seen EXCEPT ![c] = [id \in DOMAIN Current(c).batch |-> records[id]]]
      /\ UNCHANGED <<schema, profile, records, ops, answer, txn>>
  BY DEF GetRecords, Statement, store, At
<1>2. Current(c)' = Current(c) /\ step'[c] = "put"
  BY <1>1, GotoIs DEF Current
<1>3. /\ seen'[c] = [id \in DOMAIN Current(c).batch |-> records[id]]
      /\ \A d \in Clients \ {c} : seen'[d] = seen[d]
  BY <1>1, Facts DEF TypeOK
<1>4. Knows(c)'
  BY <1>1, <1>2, <1>3, Facts DEF Knows, SeenIsStored
<1>5. answer' = [d \in Clients |-> answer'[d]]
  BY <1>1 DEF JInv
<1> QED
  BY <1>1, <1>3, <1>4, <1>5, SameWrites, StatementFaithful DEF JInv

\* The rows c writes are its own, and nobody else's transaction writes them.
LEMMA WritesFaithfully ==
    ASSUME JInv, IInv', NEW c \in Clients, ops[c] # <<>>, step[c] \in {"put", "replace"},
           Current(c).kind \in {"admit", "replace"}, Goto(c, "commit"),
           UNCHANGED <<schema, profile, records, ops, seen, answer>>,
           NEW S \in SUBSET DOMAIN Current(c).batch, Writers(c, S) = {},
           Update(c, [Live(c) EXCEPT !.writes = [id \in S |-> Offered(c)[id]]]),
           Current(c).kind = "admit" => SeenIsStored(c) /\ Conflicting(c) = {} /\ S = NewIds(c),
           Current(c).kind = "replace" => S = DOMAIN Current(c).batch
    PROVE  JInv'
<1> DEFINE w == [id \in S |-> Offered(c)[id]]
           live == txn'[<<c, "live">>]
<1>1. /\ {"scope", "row"} \subseteq txn[<<c, "live">>].locks /\ schema
      /\ profile = Current(c).profile
      /\ DOMAIN txn[<<c, "live">>].writes = {} /\ txn[<<c, "live">>].profile = Keep
  BY Facts DEF Knows, Underway
<1>2. /\ \A u \in Others(c) : txn'[u] = txn[u]
      /\ live.locks = txn[<<c, "live">>].locks /\ live.writes = w /\ live.profile = Keep
  <2>1. txn' = [txn EXCEPT ![<<c, "live">>] = [@ EXCEPT !.writes = w]]
    BY Facts DEF Update, Live
  <2> HIDE DEF w
  <2> QED
    BY <1>1, <2>1, Facts DEF Others, Transactions
<1>3. /\ DOMAIN Current(c).batch \in SUBSET Ids
      /\ Offered(c) \in [DOMAIN Current(c).batch -> Content]
      /\ \A id \in DOMAIN Current(c).batch : Offered(c)[id].by = c
  BY Facts, OfferedIs DEF Writing, Offered
<1>4. \A id \in S : w[id] # NoRecord /\ w[id].by = c
  BY <1>3, NamesAssumption
<1>5. DOMAIN w = S
  OBVIOUS
<1>6. Current(c)' = Current(c) /\ step'[c] = "commit" /\ Offered(c)' = Offered(c)
      /\ NewIds(c)' = NewIds(c) /\ Conflicting(c)' = Conflicting(c)
  BY GotoIs DEF Current, Offered, NewIds, Conflicting
<1>7. Current(c).kind = "replace" => w = Offered(c)
  BY <1>3
<1> HIDE DEF w, live
<1>8. OneEffect(<<c, "live">>)'
  BY <1>2, <1>4, <1>5, NamesAssumption DEF OneEffect, live, Puts
<1>9. Settled(txn[<<c, "live">>])'
  <2>1. Puts(live) = S
    BY <1>2, <1>4, <1>5 DEF Puts
  <2> QED
    BY <1>2, <1>5, <2>1 DEF Settled, live, Puts
<1>10. Ready(c)'
  <2>1. SeenIsStored(c) => SeenIsStored(c)'
    BY <1>6 DEF SeenIsStored
  <2>2. Current(c).kind = "admit" => w = [id \in NewIds(c) |-> Offered(c)[id]]
    BY DEF w
  <2> QED
    BY <1>1, <1>2, <1>6, <1>7, <1>9, <2>1, <2>2 DEF Ready, live, Writing, Puts
<1>11. Knows(c)'
  BY <1>6, <1>10 DEF Knows
<1>12. \A u \in Others(c) : DOMAIN txn'[<<c, "live">>].writes \cap DOMAIN txn[u].writes = {}
  BY <1>2, <1>5 DEF Writers, live
<1>13. answer' = [d \in Clients |-> answer'[d]]
  BY DEF JInv
<1> QED
  BY <1>2, <1>8, <1>11, <1>12, <1>13, StatementFaithful DEF JInv

LEMMA WriterFaithful ==
    ASSUME JInv, IInv', NEW c \in Clients, InsertRecords(c) \/ ReplaceRecord(c)
    PROVE  JInv'
<1>1. CASE InsertRecords(c)
  <2>1. /\ ops[c] # <<>> /\ step[c] = "put" /\ Current(c).kind = "admit"
        /\ Blockers(c) = {}
    BY <1>1 DEF InsertRecords, At
  <2>2. CASE \E e \in {"conflict", "error"} : Raises(c, e)
    BY <2>1, <2>2, RaisesFaithfully
  <2>3. CASE ~\E e \in {"conflict", "error"} : Raises(c, e)
    <3>1. /\ Update(c, [Live(c) EXCEPT !.writes = [id \in NewIds(c) |-> Offered(c)[id]]])
          /\ Goto(c, "commit") /\ Conflicting(c) = {}
          /\ UNCHANGED <<schema, profile, records, ops, seen, answer>>
      BY <1>1, <2>3 DEF InsertRecords, Statement, store
    <3>2. SeenIsStored(c)
      BY <2>1, Facts DEF Knows
    <3>3. NewIds(c) \in SUBSET DOMAIN Current(c).batch
      BY <3>2 DEF NewIds, SeenIsStored
    <3>4. Writers(c, NewIds(c)) = {}
      BY <2>1, <3>1 DEF Blockers
    <3> QED
      BY <2>1, <3>1, <3>2, <3>3, <3>4, WritesFaithfully
  <2> QED
    BY <2>2, <2>3
<1>2. CASE ReplaceRecord(c)
  <2>1. /\ ops[c] # <<>> /\ step[c] = "replace" /\ Current(c).kind = "replace"
        /\ Update(c, [Live(c) EXCEPT !.writes = Offered(c)])
        /\ Goto(c, "commit") /\ Blockers(c) = {}
        /\ UNCHANGED <<schema, profile, records, ops, seen, answer>>
    BY <1>2 DEF ReplaceRecord, At, Statement, store
  <2>2. Offered(c) = [id \in DOMAIN Current(c).batch |-> Offered(c)[id]]
    BY DEF Offered
  <2>3. ops[c] # <<>> /\ Writers(c, DOMAIN Current(c).batch) = {}
    BY <1>2, <2>1 DEF ReplaceRecord, At, Blockers
  <2> QED
    BY <2>1, <2>2, <2>3, WritesFaithfully
<1> QED
  BY <1>1, <1>2

-----------------------------------------------------------------------------
(* The statements of the clean-up *)

LEMMA DeleteRecordsFaithful ==
    ASSUME JInv, IInv', NEW c \in Clients, DeleteRecords(c)
    PROVE  JInv'
<1>1. ops[c] # <<>> /\ step[c] = "delete" /\ Blockers(c) = {}
  BY DEF DeleteRecords, At
<1>2. CASE ~schema
  BY <1>1, <1>2, RaisesFaithfully DEF DeleteRecords
<1>3. CASE schema
  <2> DEFINE w == [id \in Stored |-> NoRecord]
             live == txn'[<<c, "live">>]
  <2>1. /\ Update(c, [Live(c) EXCEPT !.writes = w]) /\ Goto(c, "unprofile")
        /\ UNCHANGED <<schema, profile, records, ops, seen, answer>>
    BY <1>3 DEF DeleteRecords, Statement, store
  <2>2. txn[<<c, "live">>].profile = Keep
    BY <1>1, Facts DEF Underway
  <2>3. DOMAIN w = Stored /\ \A id \in Stored : w[id] = NoRecord
    OBVIOUS
  <2> HIDE DEF w
  <2>4. /\ \A u \in Others(c) : txn'[u] = txn[u]
        /\ live.writes = w /\ live.profile = Keep
    <3>1. txn' = [txn EXCEPT ![<<c, "live">>] = [@ EXCEPT !.writes = w]]
      BY <2>1, Facts DEF Update, Live
    <3> QED
      BY <2>2, <3>1, Facts DEF Others, Transactions
  <2> HIDE DEF live
  <2>5. OneEffect(<<c, "live">>)'
    BY <2>3, <2>4, NamesAssumption DEF OneEffect, live, Puts
  <2>6. Knows(c)'
    BY <1>3, <2>1, GotoIs DEF Knows
  <2>7. \A u \in Others(c) : DOMAIN txn'[<<c, "live">>].writes \cap DOMAIN txn[u].writes = {}
    <3>1. Writers(c, Stored) = {}
      BY <1>1 DEF Blockers
    <3> QED
      BY <2>3, <2>4, <3>1 DEF Writers, live
  <2>8. answer' = [d \in Clients |-> answer'[d]]
    BY <2>1 DEF JInv
  <2> QED
    BY <2>1, <2>4, <2>5, <2>6, <2>7, <2>8, StatementFaithful DEF JInv
<1> QED
  BY <1>2, <1>3

LEMMA DeleteProfileFaithful ==
    ASSUME JInv, IInv', NEW c \in Clients, DeleteProfile(c)
    PROVE  JInv'
<1>1. ops[c] # <<>> /\ step[c] = "unprofile" /\ Current(c).kind = "clean"
  BY DEF DeleteProfile, At
<1>2. /\ schema /\ Puts(txn[<<c, "live">>]) = {} /\ txn[<<c, "live">>].profile = Keep
  BY <1>1, Facts DEF Knows, Underway
<1>3. CASE profile = NoProfile
  <2>1. /\ UNCHANGED <<schema, profile, records, ops, seen, txn>> /\ Goto(c, "commit")
        /\ answer' = [answer EXCEPT ![c] = <<"cleared">>]
    BY <1>3 DEF DeleteProfile, store
  <2>2. Current(c)' = Current(c) /\ step'[c] = "commit" /\ answer'[c] = <<"cleared">>
    BY <2>1, GotoIs, AnswerIs DEF Current
  <2>3. Stored' = {}
    BY <1>3, <2>1, Facts DEF Matching, Stored
  <2>4. Ready(c)'
    BY <1>1, <1>2, <2>1, <2>2, <2>3 DEF Ready, Settled, Writing, Puts
  <2>5. Knows(c)'
    BY <2>2, <2>4 DEF Knows
  <2>6. /\ \A d \in Clients \ {c} : seen'[d] = seen[d] /\ answer'[d] = answer[d]
        /\ answer' = [d \in Clients |-> answer'[d]]
    BY <2>1, AnswerIs
  <2> QED
    BY <2>1, <2>5, <2>6, SameWrites, StatementFaithful DEF JInv
<1>4. CASE profile # NoProfile /\ Stored \subseteq DOMAIN Live(c).writes
  <2> DEFINE live == txn'[<<c, "live">>]
             t == [txn[<<c, "live">>] EXCEPT !.profile = NoProfile, !.locks = @ \cup {"row"}]
  <2>1. /\ txn' = [txn EXCEPT ![<<c, "live">>] = t] /\ Goto(c, "commit")
        /\ UNCHANGED <<schema, profile, records, ops, seen, answer>>
    BY <1>4 DEF DeleteProfile, Statement, store, Live, Update
  <2>2. /\ \A u \in Others(c) : txn'[u] = txn[u]
        /\ live.writes = txn[<<c, "live">>].writes /\ live.profile = NoProfile
    <3>1. t.writes = txn[<<c, "live">>].writes /\ t.profile = NoProfile
      BY Facts DEF Transactions
    <3> HIDE DEF t
    <3> QED
      BY <2>1, <3>1, Facts DEF Others
  <2> HIDE DEF live, t
  <2>3. Current(c)' = Current(c) /\ step'[c] = "commit"
    BY <2>1, GotoIs DEF Current
  <2>4. Ready(c)'
    BY <1>1, <1>2, <2>1, <2>2, <2>3, NamesAssumption DEF Ready, live, Settled, Writing
  <2>5. Knows(c)'
    BY <2>3, <2>4 DEF Knows
  <2>6. OneEffect(<<c, "live">>)'
    BY <1>2, <2>1, <2>2, NamesAssumption DEF OneEffect, live, Puts
  <2>7. \A u \in Others(c) : DOMAIN txn'[<<c, "live">>].writes \cap DOMAIN txn[u].writes = {}
    BY <2>2, Facts DEF live, Apart, Others
  <2>8. answer' = [d \in Clients |-> answer'[d]]
    BY <2>1 DEF JInv
  <2> QED
    BY <2>1, <2>2, <2>5, <2>6, <2>7, <2>8, StatementFaithful DEF JInv
<1>5. CASE profile # NoProfile /\ ~(Stored \subseteq DOMAIN Live(c).writes)
  BY <1>1, <1>5, RaisesFaithfully DEF DeleteProfile
<1> QED
  BY <1>3, <1>4, <1>5

-----------------------------------------------------------------------------
(* What takes effect with a transaction *)

\* It stores rows of its client under the registered profile.
StoresRows(t, c) ==
    /\ t.profile = Keep /\ {"scope", "row"} \subseteq t.locks
    /\ profile \in Profiles
    /\ DOMAIN t.writes \in SUBSET Ids
    /\ t.writes \in [DOMAIN t.writes -> {d \in Content : d.under = profile /\ d.by = c}]

Registers(t) == /\ t.profile \in Profiles /\ "scope" \in t.locks
                /\ schema = TRUE /\ profile = NoProfile

Removes(t) == t.profile = NoProfile /\ "row" \in t.locks /\ schema = TRUE

LEMMA Effects ==
    ASSUME JInv, NEW s \in Sessions, Apply(txn[s]), Settled(txn[s])
    PROVE  /\ schema' = schema
           /\ \/ /\ txn[s].profile = Keep /\ Puts(txn[s]) = {}
                 /\ profile' = profile /\ records' = records
              \/ Registers(txn[s]) /\ profile' = txn[s].profile /\ records' = records
              \/ Removes(txn[s]) /\ profile' = NoProfile
                                 /\ records' = [id \in Ids |-> NoRecord]
              \/ /\ StoresRows(txn[s], s[1]) /\ profile' = profile
                 /\ records' = [id \in Ids |-> IF id \in DOMAIN txn[s].writes
                                               THEN txn[s].writes[id] ELSE records[id]]
<1> DEFINE t == txn[s]
<1>1. /\ t \in Transactions /\ Harmless(t) /\ OneEffect(s) /\ records \in [Ids -> Rows]
      /\ schema \in BOOLEAN /\ profile \in Profiles \cup {NoProfile}
  BY DEF JInv, IInv, TypeOK
<1>2. /\ records' = [id \in Ids |-> IF id \in DOMAIN t.writes THEN t.writes[id] ELSE records[id]]
      /\ profile' = IF t.profile = Keep THEN profile ELSE t.profile
      /\ schema' = schema
  BY DEF Apply
<1>3. t.profile \in Profiles \cup {NoProfile, Keep} /\ t.writes \in Writes
  BY <1>1 DEF Transactions
<1>4. PICK S \in SUBSET Ids : t.writes \in [S -> Rows]
  BY <1>3 DEF Writes
<1>5. CASE t.profile = Keep /\ Puts(t) = {}
  <2>1. DOMAIN t.writes \cap Stored = {} /\ \A id \in DOMAIN t.writes : t.writes[id] = NoRecord
    BY <1>5 DEF Settled, Puts
  <2>2. \A id \in Ids : (IF id \in DOMAIN t.writes THEN t.writes[id] ELSE records[id]) = records[id]
    BY <2>1 DEF Stored
  <2>3. records' = records
    BY <1>1, <1>2, <2>2
  <2> QED
    BY <1>2, <1>5, <2>3
<1>6. CASE t.profile = Keep /\ Puts(t) # {}
  <2>1. \A id \in DOMAIN t.writes : t.writes[id] # NoRecord /\ t.writes[id].by = s[1]
    BY <1>1, <1>6 DEF OneEffect
  <2>2. /\ {"scope", "row"} \subseteq t.locks /\ profile # NoProfile
        /\ \A id \in Puts(t) : t.writes[id].under = profile
    BY <1>1, <1>6 DEF Harmless
  <2>3. \A id \in S : t.writes[id] \in {d \in Content : d.under = profile /\ d.by = s[1]}
    BY <1>4, <2>1, <2>2 DEF Rows, Puts
  <2>4. DOMAIN t.writes = S /\ t.writes \in [S -> {d \in Content : d.under = profile /\ d.by = s[1]}]
    BY <1>4, <2>3
  <2> HIDE DEF t
  <2>5. StoresRows(t, s[1])
    BY <1>1, <1>6, <2>2, <2>4 DEF StoresRows
  <2> QED
    BY <1>2, <1>6, <2>5 DEF t
<1>7. CASE t.profile \in Profiles
  <2>1. t.profile # Keep /\ DOMAIN t.writes = {} /\ schema
    BY <1>1, <1>7, NamesAssumption DEF OneEffect
  <2>2. records' = records
    BY <1>1, <1>2, <2>1
  <2>3. Registers(t)
    BY <1>1, <1>7, <2>1 DEF Registers, Harmless
  <2> QED
    BY <1>2, <2>1, <2>2, <2>3
<1>8. CASE t.profile = NoProfile
  <2>1. t.profile # Keep /\ schema /\ "row" \in t.locks /\ Stored \subseteq DOMAIN t.writes
    BY <1>1, <1>8, NamesAssumption DEF OneEffect, Harmless
  <2>2. \A id \in DOMAIN t.writes : t.writes[id] = NoRecord
    BY <1>1, <2>1 DEF Harmless, Puts
  <2>3. \A id \in Ids : (IF id \in DOMAIN t.writes THEN t.writes[id] ELSE records[id]) = NoRecord
    BY <2>1, <2>2 DEF Stored
  <2>4. records' = [id \in Ids |-> NoRecord]
    BY <1>2, <2>3
  <2> QED
    BY <1>1, <1>2, <1>8, <2>1, <2>4 DEF Removes
<1> QED
  BY <1>3, <1>5, <1>6, <1>7, <1>8

\* Who is in the middle of a write relies on nothing that changes.
LEMMA AppliesFaithfully ==
    ASSUME JInv, IInv', NEW s \in Sessions, Apply(txn[s]), Settled(txn[s]),
           txn' = [txn EXCEPT ![s] = Idle]
    PROVE  /\ schema' = schema /\ Apart'
           /\ \A u \in Sessions : OneEffect(u)' /\ (Settled(txn[u]) => Settled(txn[u])')
           /\ \A d \in Clients : <<d, "live">> # s /\ Untouched(d) /\ answer'[d] = answer[d]
                                    => Knows(d)'
<1>1. /\ txn'[s] = Idle /\ \A u \in Sessions \ {s} : txn'[u] = txn[u]
      /\ schema' = schema /\ schema \in BOOLEAN
  BY Effects DEF JInv, IInv, TypeOK
<1>2. Apart'
  <2> SUFFICES ASSUME NEW u \in Sessions, NEW v \in Sessions, u # v
               PROVE  DOMAIN txn'[u].writes \cap DOMAIN txn'[v].writes = {}
    BY DEF Apart
  <2> QED
    BY <1>1, IdleIs DEF JInv, Apart
<1>3. ASSUME NEW u \in Sessions PROVE OneEffect(u)'
  <2>1. CASE u = s
    BY <1>1, <2>1, IdleIs, NamesAssumption DEF OneEffect
  <2>2. CASE u # s
    BY <1>1, <2>2 DEF JInv, OneEffect, Puts
  <2> QED
    BY <2>1, <2>2
<1>4. Stored' \subseteq Stored \cup DOMAIN txn[s].writes
  BY DEF Apply, Stored
<1>5. ASSUME NEW u \in Sessions, Settled(txn[u]) PROVE Settled(txn[u])'
  <2>1. CASE u = s
    BY <1>1, <2>1, IdleIs DEF Settled
  <2>2. CASE u # s
    <3>1. DOMAIN txn[u].writes \cap DOMAIN txn[s].writes = {}
      BY <2>2 DEF JInv, Apart
    <3> QED
      BY <1>1, <1>4, <1>5, <2>2, <3>1 DEF Settled, Puts
  <2> QED
    BY <2>1, <2>2
<1>6. ASSUME NEW d \in Clients, <<d, "live">> # s,
             {"scope", "row"} \subseteq txn[<<d, "live">>].locks
      PROVE  profile' = profile /\ records' = records
  <2>1. <<d, "live">> \in Sessions
    BY SessionsAre
  <2>2. "scope" \notin txn[s].locks /\ "row" \notin txn[s].locks
    BY <1>6, <2>1 DEF JInv, IInv, Exclusive
  <2> QED
    BY <2>2, Effects DEF Registers, Removes, StoresRows
<1>7. ASSUME NEW d \in Clients, <<d, "live">> # s, Untouched(d), answer'[d] = answer[d]
      PROVE  Knows(d)'
  <2>1. /\ Knows(d) /\ Underway(d) /\ <<d, "live">> \in Sessions
        /\ txn'[<<d, "live">>] = txn[<<d, "live">>]
    BY <1>1, <1>7, Facts
  <2>2. step[d] = "commit" => Settled(txn[<<d, "live">>])'
    BY <1>5, <2>1 DEF Knows, Ready
  <2>3. step[d] = "commit" /\ Current(d).kind \in Writing
            => {"scope", "row"} \subseteq txn[<<d, "live">>].locks
    BY <2>1 DEF Knows, Ready
  <2>4. step[d] = "put" => {"scope", "row"} \subseteq txn[<<d, "live">>].locks
    BY <2>1 DEF Underway
  <2>5. Current(d).kind = "admit" => Current(d).kind \in Writing
    BY DEF Writing
  <2>6. schema => schema' = TRUE
    BY <1>1
  <2>7. /\ step[d] = "commit" /\ Current(d).kind \in Writing => profile' = profile
        /\ step[d] = "put" \/ (step[d] = "commit" /\ Current(d).kind = "admit")
              => \A id \in DOMAIN seen[d] : records'[id] = records[id]
    BY <1>6, <1>7, <2>3, <2>4, <2>5
  <2> QED
    BY <1>7, <2>1, <2>2, <2>6, <2>7, KnowsStays
<1> QED
  BY <1>1, <1>2, <1>3, <1>5, <1>7

\* What c knows of its transaction when it commits.
LEMMA CommitIs ==
    ASSUME JInv, NEW c \in Clients, Commit(c) \/ CommitUnanswered(c)
    PROVE  /\ ops[c] # <<>> /\ step[c] = "commit" /\ Ready(c)
           /\ Apply(txn[<<c, "live">>]) /\ Settled(txn[<<c, "live">>])
           /\ txn' = [txn EXCEPT ![<<c, "live">>] = Idle]
           /\ Forget(c) /\ (GoOn(c) \/ GiveUp(c))
<1>1. /\ ops[c] # <<>> /\ step[c] = "commit" /\ Apply(txn[<<c, "live">>]) /\ Forget(c)
      /\ GoOn(c) \/ GiveUp(c)
      /\ txn' = [txn EXCEPT ![<<c, "live">>] = Idle]
  BY DEF Commit, CommitUnanswered, Committing, Returns, Update, Live
<1>2. Ready(c)
  BY <1>1, Facts DEF Knows
<1> QED
  BY <1>1, <1>2 DEF Ready

LEMMA CommitFaithful ==
    ASSUME JInv, IInv', NEW c \in Clients, Commit(c) \/ CommitUnanswered(c)
    PROVE  JInv'
<1> DEFINE s == <<c, "live">>
<1>1. /\ ops[c] # <<>> /\ Apply(txn[s]) /\ Settled(txn[s]) /\ s \in Sessions
      /\ txn' = [txn EXCEPT ![s] = Idle] /\ Forget(c) /\ (GoOn(c) \/ GiveUp(c))
  BY CommitIs, Facts
<1>2. /\ ops' \in [Clients -> Seq(Operations)]
      /\ \A d \in Clients \ {c} : ops'[d] = ops[d] /\ step'[d] = step[d]
      /\ Fresh(c)'
  BY <1>1, GoesOn DEF JInv, IInv
<1>3. \A d \in Clients \ {c} : Untouched(d)
  BY <1>1, <1>2, Facts DEF Forget, TypeOK, Untouched
<1>4. \E a : answer' = [answer EXCEPT ![c] = a]
  BY DEF Commit, CommitUnanswered, Returns
<1>5. /\ \A d \in Clients \ {c} : answer'[d] = answer[d]
      /\ answer' = [d \in Clients |-> answer'[d]]
  BY <1>4, AnswerIs
<1>6. /\ schema' = schema /\ Apart'
      /\ \A u \in Sessions : OneEffect(u)' /\ (Settled(txn[u]) => Settled(txn[u])')
      /\ \A d \in Clients : <<d, "live">> # s /\ Untouched(d) /\ answer'[d] = answer[d]
                               => Knows(d)'
  BY <1>1, AppliesFaithfully
<1>7. Knows(c)'
  BY <1>2, FreshKnows
<1>8. \A d \in Clients : Knows(d)'
  BY <1>3, <1>5, <1>6, <1>7, SessionsAre
<1>9. \A d \in Clients : Settled(txn[<<d, "orphan">>])'
  BY <1>6, Facts
<1> QED
  BY <1>5, <1>6, <1>8, <1>9 DEF JInv

LEMMA ResolveFaithful ==
    ASSUME JInv, IInv', NEW c \in Clients, Resolve(c)
    PROVE  JInv'
<1> DEFINE s == <<c, "orphan">>
<1>1. /\ s \in Sessions /\ Settled(txn[s]) /\ txn' = [txn EXCEPT ![s] = Idle]
      /\ (Apply(txn[s]) \/ UNCHANGED store)
      /\ answer' = answer /\ \A d \in Clients : Untouched(d)
      /\ \A d \in Clients : <<d, "live">> # s
  BY Facts, SessionsAre DEF Resolve, control, Untouched
<1> HIDE DEF s
<1>2. CASE Apply(txn[s])
  <2>1. /\ schema' = schema /\ Apart'
        /\ \A u \in Sessions : OneEffect(u)' /\ (Settled(txn[u]) => Settled(txn[u])')
        /\ \A d \in Clients : Knows(d)'
    BY <1>1, <1>2, AppliesFaithfully
  <2>2. \A d \in Clients : Settled(txn[<<d, "orphan">>])'
    BY <2>1, Facts
  <2> QED
    BY <1>1, <2>1, <2>2 DEF JInv
<1>3. CASE UNCHANGED store
  <2>1. UNCHANGED <<schema, profile, records>> /\ Stored' = Stored
    BY <1>3 DEF store, Stored
  <2>2. txn'[s] = Idle /\ \A u \in Sessions \ {s} : txn'[u] = txn[u]
    BY <1>1 DEF JInv, IInv, TypeOK
  <2>3. Apart'
    <3> SUFFICES ASSUME NEW u \in Sessions, NEW v \in Sessions, u # v
                 PROVE  DOMAIN txn'[u].writes \cap DOMAIN txn'[v].writes = {}
      BY DEF Apart
    <3> QED
      BY <2>2, IdleIs DEF JInv, Apart
  <2>4. ASSUME NEW u \in Sessions PROVE OneEffect(u)' /\ (Settled(txn[u]) => Settled(txn[u])')
    <3>1. CASE u = s
      BY <2>2, <3>1, IdleIs, NamesAssumption DEF OneEffect, Settled
    <3>2. CASE u # s
      BY <2>1, <2>2, <3>2 DEF JInv, OneEffect, Settled, Puts
    <3> QED
      BY <3>1, <3>2
  <2>5. ASSUME NEW d \in Clients PROVE Knows(d)'
    <3>1. /\ Knows(d) /\ txn'[<<d, "live">>] = txn[<<d, "live">>] /\ <<d, "live">> \in Sessions
      BY <1>1, <2>2, Facts
    <3>2. step[d] = "commit" => Settled(txn[<<d, "live">>])'
      BY <2>4, <3>1 DEF Knows, Ready
    <3>3. schema => schema' = TRUE
      BY <2>1 DEF JInv
    <3> QED
      BY <1>1, <2>1, <3>1, <3>2, <3>3, KnowsStays
  <2>6. \A d \in Clients : Settled(txn[<<d, "orphan">>])'
    BY <2>4, Facts
  <2> QED
    BY <1>1, <2>1, <2>3, <2>4, <2>5, <2>6 DEF JInv
<1> QED
  BY <1>1, <1>2, <1>3

LEMMA InDoubtFaithful ==
    ASSUME JInv, IInv', NEW c \in Clients, CommitInDoubt(c)
    PROVE  JInv'
<1> DEFINE s == <<c, "live">>
           o == <<c, "orphan">>
<1>1. /\ ops[c] # <<>> /\ step[c] = "commit" /\ Forget(c) /\ GiveUp(c) /\ txn[o] = Idle
      /\ txn' = [txn EXCEPT ![s] = Idle, ![o] = txn[s]]
      /\ UNCHANGED <<schema, profile, records>> /\ Stored' = Stored
      /\ answer' = [answer EXCEPT ![c] = <<"error">>]
  BY DEF CommitInDoubt, Committing, Begun, Live, store, Stored
<1>2. /\ s \in Sessions /\ o \in Sessions /\ s # o /\ s[1] = c /\ o[1] = c
      /\ \A d \in Clients \ {c} : /\ <<d, "live">> \in Sessions \ {s, o}
                                  /\ <<d, "orphan">> \in Sessions \ {s, o}
  BY SessionsAre
<1>3. Settled(txn[s]) /\ OneEffect(s)
  BY <1>1, Facts DEF Knows, Ready
<1>4. Knows(c)' /\ \A d \in Clients \ {c} : Untouched(d)
  <2>1. /\ ops' \in [Clients -> Seq(Operations)]
        /\ \A d \in Clients \ {c} : ops'[d] = ops[d] /\ step'[d] = step[d]
        /\ Fresh(c)'
    BY <1>1, GoesOn DEF JInv, IInv
  <2> QED
    BY <1>1, <2>1, FreshKnows, Facts DEF Forget, TypeOK, Untouched
<1>5. /\ txn'[s] = Idle /\ txn'[o] = txn[s]
      /\ \A u \in Sessions \ {s, o} : txn'[u] = txn[u]
  BY <1>1, <1>2 DEF JInv, IInv, TypeOK
<1>6. Settled(txn[o])'
  BY <1>1, <1>3, <1>5 DEF Settled, Puts
<1> HIDE DEF s, o
<1>7. Apart'
  <2> SUFFICES ASSUME NEW u \in Sessions, NEW v \in Sessions, u # v
               PROVE  DOMAIN txn'[u].writes \cap DOMAIN txn'[v].writes = {}
    BY DEF Apart
  <2> QED
    BY <1>2, <1>5, IdleIs DEF JInv, Apart
<1>8. ASSUME NEW u \in Sessions PROVE OneEffect(u)'
  <2>1. CASE u = s
    BY <1>5, <2>1, IdleIs, NamesAssumption DEF OneEffect
  <2>2. CASE u = o
    <3>1. schema' = schema /\ txn'[u] = txn[s] /\ u[1] = s[1]
      BY <1>1, <1>2, <1>5, <2>2
    <3> QED
      BY <1>3, <3>1 DEF OneEffect, Puts
  <2>3. CASE u \notin {s, o}
    <3>1. schema' = schema /\ txn'[u] = txn[u] /\ OneEffect(u)
      BY <1>1, <1>5, <2>3 DEF JInv
    <3> QED
      BY <3>1 DEF OneEffect, Puts
  <2> QED
    BY <2>1, <2>2, <2>3
<1>9. /\ \A d \in Clients \ {c} : answer'[d] = answer[d]
      /\ answer' = [d \in Clients |-> answer'[d]]
  BY <1>1, AnswerIs
<1>10. ASSUME NEW d \in Clients, d # c PROVE Knows(d)'
  <2>1. /\ Knows(d) /\ Untouched(d) /\ answer'[d] = answer[d]
        /\ txn'[<<d, "live">>] = txn[<<d, "live">>]
    BY <1>2, <1>4, <1>5, <1>9, <1>10, Facts
  <2>2. step[d] = "commit" => Settled(txn[<<d, "live">>])'
    BY <1>1, <2>1 DEF Knows, Ready, Settled, Puts
  <2>3. schema => schema' = TRUE
    BY <1>1 DEF JInv
  <2> QED
    BY <1>1, <2>1, <2>2, <2>3, KnowsStays
<1>11. ASSUME NEW d \in Clients PROVE Settled(txn[<<d, "orphan">>])'
  <2>1. CASE d = c
    BY <1>6, <2>1 DEF o
  <2>2. CASE d # c
    <3>1. /\ txn'[<<d, "orphan">>] = txn[<<d, "orphan">>] /\ Stored' = Stored
          /\ Settled(txn[<<d, "orphan">>])
      BY <1>1, <1>2, <1>5, <2>2, Facts
    <3> QED
      BY <3>1 DEF Settled, Puts
  <2> QED
    BY <2>1, <2>2
<1> QED
  BY <1>1, <1>4, <1>7, <1>8, <1>9, <1>10, <1>11 DEF JInv

LEMMA FailFaithful ==
    ASSUME JInv, IInv', NEW c \in Clients, Fail(c) \/ BreakDeadlock(c)
    PROVE  JInv'
<1>1. CASE Fail(c)
  <2>1. /\ ops[c] # <<>> /\ GiveUp(c) /\ Forget(c) /\ Update(c, Idle)
        /\ UNCHANGED <<schema, profile, records>>
        /\ answer' = [answer EXCEPT ![c] = <<"error">>]
    BY <1>1 DEF Fail, store
  <2> QED
    BY <2>1, EndsFaithfully
<1>2. CASE BreakDeadlock(c)
  <2>1. Raises(c, "error")
    BY <1>2 DEF BreakDeadlock
  <2>2. ops[c] # <<>>
    BY <1>2, NothingBlocksTheIdle, Zenon DEF BreakDeadlock
  <2> QED
    BY <2>1, <2>2, RaisesFaithfully
<1> QED
  BY <1>1, <1>2

LEMMA InitFaithful == Init => JInv
<1> SUFFICES ASSUME Init PROVE JInv
  OBVIOUS
<1>1. IInv
  BY InitHolds
<1>2. schema \in BOOLEAN
  BY StoresAssumption DEF Init
<1>3. answer = [c \in Clients |-> answer[c]]
  BY DEF Init
<1>4. \A s \in Sessions : txn[s] = Idle
  BY DEF Init
<1>5. Apart
  BY <1>4, IdleIs DEF Apart
<1>6. \A s \in Sessions : OneEffect(s) /\ Settled(txn[s])
  BY <1>4, IdleIs, NamesAssumption DEF OneEffect, Settled
<1>7. ASSUME NEW c \in Clients PROVE Knows(c)
  <2>1. /\ job[c] \in Commands /\ ops[c] = job[c].main
        /\ step[c] = FirstStep[Head(job[c].main).kind]
    BY JobsAssumption DEF Init
  <2>2. ops[c] \in Seq(Operations) /\ ops[c] # <<>>
    BY <2>1 DEF Commands
  <2>3. Head(ops[c]) \in Operations
    BY <2>2
  <2>4. Head(ops[c]).kind \in DOMAIN FirstStep
    BY <2>3 DEF Operations
  <2>5. step[c] \in {"lock", "verify", "lookup", "scope", "bound", "delete"}
    BY <2>1, <2>4 DEF FirstStep
  <2> QED
    BY <2>5 DEF Knows
<1> QED
  BY <1>1, <1>2, <1>3, <1>5, <1>6, <1>7, SessionsAre DEF JInv

LEMMA StepFaithful == JInv /\ [Next]_vars => JInv'
<1> SUFFICES ASSUME JInv, [Next]_vars PROVE JInv'
  OBVIOUS
<1>1. IInv'
  BY StepKeeps DEF JInv
<1>2. CASE UNCHANGED vars
  <2>1. UNCHANGED <<schema, profile, records, txn, answer>> /\ Stored' = Stored
    BY <1>2 DEF vars, Stored
  <2>2. Apart'
    BY <2>1 DEF JInv, Apart
  <2>3. \A s \in Sessions : OneEffect(s)'
    BY <2>1 DEF JInv, OneEffect, Puts
  <2>4. ASSUME NEW d \in Clients PROVE Settled(txn[<<d, "orphan">>])' /\ Knows(d)'
    <3>1. Settled(txn[<<d, "orphan">>])'
      BY <2>1, Facts DEF Settled, Puts
    <3>2. Knows(d) /\ Untouched(d)
      BY <1>2, Facts DEF Untouched, vars
    <3>3. step[d] = "commit" => Settled(txn[<<d, "live">>])'
      BY <2>1, <3>2 DEF Knows, Ready, Settled, Puts
    <3>4. schema => schema' = TRUE
      BY <2>1 DEF JInv
    <3> QED
      BY <2>1, <3>1, <3>2, <3>3, <3>4, KnowsStays
  <2> QED
    BY <1>1, <2>1, <2>2, <2>3, <2>4 DEF JInv
<1>3. ASSUME NEW c \in Clients, Statements(c) PROVE JInv'
  BY <1>1, <1>3, MigrationFaithful, SearchFaithful, ScopeFaithful, InsertProfileFaithful,
     GetRecordsFaithful, WriterFaithful, DeleteRecordsFaithful, DeleteProfileFaithful,
     CommitFaithful DEF Statements
<1>4. ASSUME NEW c \in Clients, Faults(c) PROVE JInv'
  BY <1>1, <1>4, MigrationFaithful, CommitFaithful, InDoubtFaithful, FailFaithful DEF Faults
<1> QED
  BY <1>1, <1>2, <1>3, <1>4, ResolveFaithful, FailFaithful DEF Next

LEMMA AlwaysJInv == Spec => []JInv
  BY InitFaithful, StepFaithful, PTL DEF Spec

-----------------------------------------------------------------------------
(* Every step is one of the ledger, or none *)

LEMMA NothingOffered == \A c, p : <<>> \in Ledger!Offers(c, p)
<1> SUFFICES ASSUME NEW c, NEW p PROVE <<>> \in Ledger!Offers(c, p)
  OBVIOUS
<1>1. <<>> \in [{} -> {d \in Content : d.under = p /\ d.by = c}]
  OBVIOUS
<1> QED
  BY <1>1 DEF Ledger!Offers, Ledger!Content, Content

LEMMA Informs ==
    ASSUME NEW c \in Clients, NEW p \in Profiles, NEW batch \in Ledger!Offers(c, p),
           NEW a \in Ledger!Answers(c, p, batch), answer' = [answer EXCEPT ![c] = a],
           UNCHANGED <<schema, profile, records>>
    PROVE  Ledger!Next
<1>1. Ledger!Inform(c, p, batch)
  BY DEF Ledger!Inform, Ledger!state
<1> QED
  BY <1>1 DEF Ledger!Next

\* Answers that depend on no profile of their client.
LEMMA TellsOfTheStore ==
    ASSUME NEW c \in Clients, NEW a, answer' = [answer EXCEPT ![c] = a],
           UNCHANGED <<schema, profile, records>>,
           \/ a = <<"error">>
           \/ schema /\ a \in {<<"migrated">>, <<"ready">>}
           \/ profile = NoProfile /\ a = <<"cleared">>
           \/ \E ids \in SUBSET Stored : a = <<"hits", Hits(ids)>>
    PROVE  Ledger!Next
<1>1. PICK p \in Profiles : TRUE
  BY ProfilesAssumption
<1>2. a \in Ledger!Answers(c, p, <<>>)
  <2>1. CASE a = <<"error">>
    BY <2>1 DEF Ledger!Answers
  <2>2. CASE schema /\ a \in {<<"migrated">>, <<"ready">>}
    BY <2>2 DEF Ledger!Answers
  <2>3. CASE profile = NoProfile /\ a = <<"cleared">>
    BY <2>3 DEF Ledger!Answers
  <2>4. CASE \E ids \in SUBSET Stored : a = <<"hits", Hits(ids)>>
    <3>1. PICK ids \in SUBSET Stored : a = <<"hits", Hits(ids)>>
      BY <2>4
    <3>2. Hits(ids) \in SUBSET {<<id, records[id]>> : id \in {i \in Ids : records[i] # NoRecord}}
      BY DEF Hits, Stored
    <3> QED
      BY <3>1, <3>2 DEF Ledger!Answers
  <2> QED
    BY <2>1, <2>2, <2>3, <2>4
<1> QED
  BY <1>2, Informs, NothingOffered

\* Answers about the registered profile and the client's.
LEMMA TellsOfTheProfile ==
    ASSUME NEW c \in Clients, NEW p \in Profiles, NEW a, answer' = [answer EXCEPT ![c] = a],
           UNCHANGED <<schema, profile, records>>,
           \/ profile = p /\ a = <<"confirmed", p>>
           \/ profile # p /\ a = <<"unregistered">>
    PROVE  Ledger!Next
<1>1. a \in Ledger!Answers(c, p, <<>>)
  BY DEF Ledger!Answers
<1> QED
  BY <1>1, Informs, NothingOffered

LEMMA CurrentIs ==
    ASSUME JInv, NEW c \in Clients, ops[c] # <<>>
    PROVE  /\ Current(c) \in Operations /\ Current(c).batch \in Batches
           /\ Current(c).kind \in Configured => Current(c).profile \in Profiles
<1>1. Current(c) \in Operations
  BY DEF JInv, IInv, TypeOK, Current
<1> QED
  BY <1>1 DEF Operations

\* What a client offers, the ledger calls an offer under its profile.
LEMMA OffersAre ==
    ASSUME JInv, NEW c \in Clients, ops[c] # <<>>, Current(c).kind \in Writing
    PROVE  /\ Offered(c) \in Ledger!Offers(c, Current(c).profile)
           /\ DOMAIN Offered(c) = DOMAIN Current(c).batch
           /\ Current(c).profile \in Profiles
<1> DEFINE S == DOMAIN Current(c).batch
           p == Current(c).profile
<1>1. /\ S \in SUBSET Ids /\ p \in Profiles /\ Offered(c) \in [S -> Content]
      /\ \A id \in S : Offered(c)[id].under = p
  BY OfferedIs, Facts
<1>2. \A id \in S : Offered(c)[id].by = c
  BY DEF Offered
<1>3. Offered(c) \in [S -> {d \in Content : d.under = p /\ d.by = c}]
  BY <1>1, <1>2
<1> QED
  BY <1>1, <1>3 DEF Ledger!Offers, Ledger!Content, Content

\* As long as what GetRecords returned is true, it tells what is new.
LEMMA SameNew ==
    ASSUME JInv, NEW c \in Clients, ops[c] # <<>>, Current(c).kind \in Writing, SeenIsStored(c)
    PROVE  /\ NewIds(c) = Ledger!New(Offered(c))
           /\ DOMAIN seen[c] = DOMAIN Offered(c)
<1>1. DOMAIN seen[c] = DOMAIN Offered(c)
  BY OffersAre DEF SeenIsStored
<1> QED
  BY <1>1 DEF SeenIsStored, NewIds, Ledger!New

LEMMA SameAnswer ==
    ASSUME JInv, NEW c \in Clients, answer' = answer
    PROVE  answer' = [answer EXCEPT ![c] = answer[c]]
<1>1. answer = [d \in Clients |-> answer[d]]
  BY DEF JInv
<1> QED
  BY <1>1

\* Whom the store refuses is refused for its profile.
LEMMA Refuses ==
    ASSUME JInv, NEW c \in Clients, ops[c] # <<>>, Current(c).kind \in Configured,
           schema => profile # Current(c).profile, Raises(c, Refused)
    PROVE  Ledger!Next
<1>1. /\ UNCHANGED <<schema, profile, records>> /\ Current(c).profile \in Profiles
      /\ answer' = [answer EXCEPT ![c] = <<Refused>>]
  BY CurrentIs DEF Raises, store
<1>2. CASE schema
  BY <1>1, <1>2, TellsOfTheProfile DEF Refused
<1>3. CASE ~schema
  BY <1>1, <1>3, TellsOfTheStore DEF Refused
<1> QED
  BY <1>2, <1>3

LEMMA Errs == ASSUME NEW c \in Clients, Raises(c, "error") PROVE Ledger!Next
  BY TellsOfTheStore DEF Raises, store

LEMMA StatementsAreOfTheLedger ==
    ASSUME JInv, NEW c \in Clients, Statements(c), ~Commit(c)
    PROVE  Ledger!Next \/ UNCHANGED Ledger!vars
<1>1. CASE InspectLockedState(c) \/ AcquireScopeLock(c) \/ InsertProfile(c) \/ GetRecords(c)
           \/ ReplaceRecord(c)
  BY <1>1 DEF InspectLockedState, AcquireScopeLock, InsertProfile, GetRecords, ReplaceRecord,
              Statement, store, Ledger!vars
<1>2. CASE ApplyMigration(c)
  <2>1. CASE schema
    BY <1>2, <2>1, Errs DEF ApplyMigration
  <2>2. CASE ~schema
    <3>1. schema' = TRUE /\ UNCHANGED <<profile, records, answer>>
      BY <1>2, <2>2 DEF ApplyMigration
    <3>2. answer' = [answer EXCEPT ![c] = answer[c]]
      BY <3>1, SameAnswer
    <3>3. Ledger!Migrate(c)
      BY <2>2, <3>1, <3>2 DEF Ledger!Migrate, Ledger!Tell
    <3> QED
      BY <3>3 DEF Ledger!Next
  <2> QED
    BY <2>1, <2>2
<1>3. CASE FinishMigration(c)
  BY <1>3, TellsOfTheStore DEF FinishMigration, Returns, store
<1>4. CASE VerifyReadiness(c)
  <2>1. CASE schema
    BY <1>4, <2>1, TellsOfTheStore DEF VerifyReadiness, Returns, store
  <2>2. CASE ~schema
    BY <1>4, <2>2, Errs DEF VerifyReadiness
  <2> QED
    BY <2>1, <2>2
<1>5. CASE LookupProfile(c)
  <2>1. ops[c] # <<>> /\ Current(c).kind \in Configured
    BY <1>5 DEF LookupProfile, At, Configured
  <2>2. CASE schema /\ profile = Current(c).profile
    <3>1. /\ answer' = [answer EXCEPT ![c] = <<"confirmed", profile>>]
          /\ UNCHANGED <<schema, profile, records>> /\ Current(c).profile \in Profiles
      BY <1>5, <2>1, <2>2, CurrentIs DEF LookupProfile, Returns, store
    <3> QED
      BY <2>2, <3>1, TellsOfTheProfile
  <2>3. CASE ~(schema /\ profile = Current(c).profile)
    BY <1>5, <2>1, <2>3, Refuses DEF LookupProfile
  <2> QED
    BY <2>2, <2>3
<1>6. CASE ReadProfileForUpdate(c)
  <2>1. CASE Accepts(c)
    BY <1>6, <2>1 DEF ReadProfileForUpdate, Statement, store, Ledger!vars
  <2>2. CASE ~Accepts(c)
    <3>1. ops[c] # <<>> /\ Current(c).kind \in Configured /\ Raises(c, Refused)
      BY <1>6, <2>2, Facts DEF ReadProfileForUpdate, Underway, Configured
    <3>2. schema => profile # Current(c).profile
      BY <2>2 DEF Accepts
    <3> QED
      BY <3>1, <3>2, Refuses
  <2> QED
    BY <2>1, <2>2
<1>7. CASE InsertRecords(c)
  <2>1. /\ ops[c] # <<>> /\ Current(c).kind \in Writing /\ SeenIsStored(c)
    BY <1>7, Facts DEF InsertRecords, At, Knows, Writing
  <2>2. CASE Raises(c, "conflict") /\ Conflicting(c) # {}
    <3>1. /\ UNCHANGED <<schema, profile, records>>
          /\ answer' = [answer EXCEPT ![c] = <<"conflict">>]
      BY <2>2 DEF Raises, store
    <3>2. /\ Offered(c) \in Ledger!Offers(c, Current(c).profile)
          /\ Current(c).profile \in Profiles
      BY <2>1, OffersAre
    <3>3. <<"conflict">> \in Ledger!Answers(c, Current(c).profile, Offered(c))
      <4>1. PICK id \in Conflicting(c) : TRUE
        BY <2>2
      <4>2. /\ id \in DOMAIN Offered(c) \ Ledger!New(Offered(c))
            /\ ~Ledger!Same(records[id], Offered(c)[id])
        BY <2>1, <4>1, SameNew DEF Conflicting, RowsAreEqual, Ledger!Same, SeenIsStored
      <4> QED
        BY <4>2 DEF Ledger!Answers
    <3> QED
      BY <3>1, <3>2, <3>3, Informs
  <2>3. CASE Raises(c, "error")
    BY <2>3, Errs
  <2>4. CASE Statement(c)
    BY <2>4 DEF Statement, store, Ledger!vars
  <2> QED
    BY <1>7, <2>2, <2>3, <2>4 DEF InsertRecords
<1>8. CASE CheckBoundProfile(c)
  <2>1. CASE schema /\ profile = Current(c).profile
    BY <1>8, <2>1 DEF CheckBoundProfile, Statement, store, Ledger!vars
  <2>2. CASE ~(schema /\ profile = Current(c).profile)
    <3>1. ops[c] # <<>> /\ Current(c).kind \in Configured /\ Raises(c, Refused)
      BY <1>8, <2>2 DEF CheckBoundProfile, At, Configured
    <3> QED
      BY <2>2, <3>1, Refuses
  <2> QED
    BY <2>1, <2>2
<1>9. CASE SearchCosine(c)
  <2>1. PICK ids \in SUBSET Stored : answer' = [answer EXCEPT ![c] = <<"hits", Hits(ids)>>]
    BY <1>9 DEF SearchCosine
  <2> QED
    BY <1>9, <2>1, TellsOfTheStore DEF SearchCosine, store
<1>10. CASE DeleteRecords(c)
  <2>1. CASE schema
    BY <1>10, <2>1 DEF DeleteRecords, Statement, store, Ledger!vars
  <2>2. CASE ~schema
    BY <1>10, <2>2, Errs DEF DeleteRecords
  <2> QED
    BY <2>1, <2>2
<1>11. CASE DeleteProfile(c)
  <2>1. CASE profile = NoProfile
    BY <1>11, <2>1, TellsOfTheStore DEF DeleteProfile, store
  <2>2. CASE Raises(c, "error")
    BY <2>2, Errs
  <2>3. CASE Statement(c)
    BY <2>3 DEF Statement, store, Ledger!vars
  <2> QED
    BY <1>11, <2>1, <2>2, <2>3 DEF DeleteProfile
<1> QED
  BY <1>1, <1>2, <1>3, <1>4, <1>5, <1>6, <1>7, <1>8, <1>9, <1>10, <1>11 DEF Statements

\* What takes effect without its answer.
LEMMA TakesEffect ==
    ASSUME JInv, NEW c \in Clients, NEW s \in Sessions, s[1] = c,
           Apply(txn[s]), Settled(txn[s]),
           NEW a \in {<<"error">>, answer[c]}, answer' = [answer EXCEPT ![c] = a]
    PROVE  Ledger!Next \/ UNCHANGED Ledger!vars
<1> DEFINE t == txn[s]
<1>1. CASE t.profile = Keep /\ Puts(t) = {} /\ UNCHANGED <<schema, profile, records>>
  <2>1. CASE a = <<"error">>
    BY <1>1, <2>1, TellsOfTheStore
  <2>2. CASE a = answer[c]
    <3>1. answer' = answer
      BY <2>2, AnswerIs DEF JInv
    <3> QED
      BY <1>1, <3>1 DEF Ledger!vars
  <2> QED
    BY <2>1, <2>2
<1>2. CASE Registers(t) /\ profile' = t.profile /\ UNCHANGED <<schema, records>>
  <2>1. Ledger!Register(c, t.profile)
    BY <1>2 DEF Registers, Ledger!Register, Ledger!Tell
  <2> QED
    BY <1>2, <2>1 DEF Registers, Ledger!Next
<1>3. CASE Removes(t) /\ profile' = NoProfile /\ records' = [id \in Ids |-> NoRecord]
           /\ schema' = schema
  <2>1. Ledger!Clear(c)
    BY <1>3 DEF Removes, Ledger!Clear, Ledger!Tell
  <2> QED
    BY <2>1 DEF Ledger!Next
<1>4. CASE /\ StoresRows(t, c) /\ UNCHANGED <<schema, profile>>
           /\ records' = [id \in Ids |-> IF id \in DOMAIN t.writes THEN t.writes[id]
                                         ELSE records[id]]
  <2>1. Ledger!Replace(c, profile, t.writes)
    BY <1>4 DEF Ledger!Replace, Ledger!Tell
  <2>2. profile \in Profiles /\ t.writes \in Ledger!Offers(c, profile)
    BY <1>4 DEF StoresRows, Ledger!Offers, Ledger!Content, Content
  <2> QED
    BY <2>1, <2>2 DEF Ledger!Next
<1> QED
  BY <1>1, <1>2, <1>3, <1>4, Effects

LEMMA CommitIsOfTheLedger ==
    ASSUME JInv, NEW c \in Clients, Commit(c)
    PROVE  Ledger!Next \/ UNCHANGED Ledger!vars
<1> DEFINE t == txn[<<c, "live">>]
           op == Current(c)
<1>1. /\ ops[c] # <<>> /\ Ready(c) /\ Apply(t) /\ schema
      /\ answer' = [answer EXCEPT ![c] = Result(c)]
  BY CommitIs DEF Commit, Returns, Ready
<1>2. /\ records' = [id \in Ids |-> IF id \in DOMAIN t.writes THEN t.writes[id] ELSE records[id]]
      /\ profile' = IF t.profile = Keep THEN profile ELSE t.profile
      /\ schema' = schema /\ records \in [Ids -> Rows]
  BY <1>1, Facts DEF Apply, TypeOK
<1>3. CASE op.kind = "register"
  <2>1. op.profile \in Profiles /\ op.profile # Keep
    BY <1>1, <1>3, CurrentIs, NamesAssumption DEF Configured, Writing
  <2>2. /\ profile \in {NoProfile, op.profile} /\ DOMAIN t.writes = {}
        /\ t.profile = IF profile = NoProfile THEN op.profile ELSE Keep
    BY <1>1, <1>3 DEF Ready
  <2>3. profile' = op.profile /\ records' = records
    BY <1>2, <2>1, <2>2
  <2>4. Ledger!Register(c, op.profile)
    BY <1>1, <1>2, <1>3, <2>2, <2>3 DEF Ledger!Register, Ledger!Tell, Result
  <2> QED
    BY <2>1, <2>4 DEF Ledger!Next
<1>4. CASE op.kind = "admit"
  <2>1. /\ SeenIsStored(c) /\ Conflicting(c) = {} /\ profile = op.profile /\ t.profile = Keep
        /\ t.writes = [id \in NewIds(c) |-> Offered(c)[id]]
    BY <1>1, <1>4 DEF Ready
  <2>2. /\ NewIds(c) = Ledger!New(Offered(c)) /\ DOMAIN seen[c] = DOMAIN Offered(c)
        /\ Offered(c) \in Ledger!Offers(c, op.profile) /\ op.profile \in Profiles
    BY <1>1, <1>4, <2>1, SameNew, OffersAre DEF Writing
  <2>3. \A id \in DOMAIN Offered(c) \ Ledger!New(Offered(c)) :
            Ledger!Same(records[id], Offered(c)[id])
    BY <2>1, <2>2 DEF Conflicting, RowsAreEqual, Ledger!Same, SeenIsStored
  <2>4. records' = [id \in Ids |-> IF id \in NewIds(c) THEN Offered(c)[id] ELSE records[id]]
    BY <1>2, <2>1
  <2>5. Result(c) = <<"stored", NewIds(c), DOMAIN seen[c] \ NewIds(c)>>
    BY <1>4 DEF Result
  <2>6. Ledger!Admit(c, op.profile, Offered(c))
    BY <1>1, <1>2, <2>1, <2>2, <2>3, <2>4, <2>5 DEF Ledger!Admit, Ledger!Tell
  <2> QED
    BY <2>2, <2>6 DEF Ledger!Next
<1>5. CASE op.kind = "replace"
  <2>1. profile = op.profile /\ t.profile = Keep /\ t.writes = Offered(c)
    BY <1>1, <1>5 DEF Ready
  <2>2. Offered(c) \in Ledger!Offers(c, op.profile) /\ op.profile \in Profiles
    BY <1>1, <1>5, OffersAre DEF Writing
  <2>3. Ledger!Replace(c, op.profile, Offered(c))
    BY <1>1, <1>2, <1>5, <2>1 DEF Ledger!Replace, Ledger!Tell, Result
  <2> QED
    BY <2>2, <2>3 DEF Ledger!Next
<1>6. CASE op.kind = "clean" /\ t.profile = NoProfile
  <2>1. profile' = NoProfile /\ records' = [id \in Ids |-> NoRecord]
    BY <1>1, <1>6, CommitIs, Effects, Facts, NamesAssumption DEF Registers, StoresRows
  <2>2. Result(c) = <<"cleared">>
    BY <1>6 DEF Result
  <2>3. Ledger!Clear(c)
    BY <1>1, <1>2, <2>1, <2>2 DEF Ledger!Clear, Ledger!Tell
  <2> QED
    BY <2>3 DEF Ledger!Next
<1>7. CASE /\ t.profile = Keep /\ Puts(t) = {} /\ Result(c) = answer[c]
  BY <1>1, <1>7, CommitIs, TakesEffect, Facts
<1>8. CASE op.kind = "search"
  <2>1. t.profile = Keep /\ DOMAIN t.writes = {} /\ Result(c) = answer[c]
    BY <1>1, <1>8 DEF Ready, Result
  <2>2. Puts(t) = {}
    BY <2>1 DEF Puts
  <2> QED
    BY <1>7, <2>1, <2>2
<1>9. CASE op.kind = "clean" /\ t.profile # NoProfile
  <2>1. t.profile = Keep /\ Puts(t) = {} /\ answer[c] = <<"cleared">>
    BY <1>1, <1>9 DEF Ready
  <2>2. Result(c) = <<"cleared">>
    BY <1>9 DEF Result
  <2> QED
    BY <1>7, <2>1, <2>2
<1> QED
  BY <1>1, <1>3, <1>4, <1>5, <1>6, <1>8, <1>9 DEF Ready, Writing

LEMMA FaultsAreOfTheLedger ==
    ASSUME JInv, NEW c \in Clients, Faults(c) \/ Resolve(c) \/ BreakDeadlock(c)
    PROVE  Ledger!Next \/ UNCHANGED Ledger!vars
<1>1. CASE LockTimeout(c) \/ BreakDeadlock(c)
  BY <1>1, Errs DEF LockTimeout, BreakDeadlock
<1>2. CASE CommitInDoubt(c) \/ Fail(c)
  BY <1>2, TellsOfTheStore DEF CommitInDoubt, Fail, store
<1>3. CASE CommitUnanswered(c)
  <2>1. answer' = [answer EXCEPT ![c] = <<"error">>]
    BY <1>3 DEF CommitUnanswered
  <2> QED
    BY <1>3, <2>1, CommitIs, TakesEffect, Facts
<1>4. CASE Resolve(c)
  <2> DEFINE s == <<c, "orphan">>
  <2>1. /\ s \in Sessions /\ s[1] = c /\ Settled(txn[s]) /\ answer' = answer
        /\ Apply(txn[s]) \/ UNCHANGED store
    BY <1>4, Facts DEF Resolve
  <2>2. CASE Apply(txn[s])
    <3>1. answer' = [answer EXCEPT ![c] = answer[c]]
      BY <2>1, SameAnswer
    <3> HIDE DEF s
    <3> QED
      BY <2>1, <2>2, <3>1, TakesEffect
  <2>3. CASE UNCHANGED store
    BY <2>1, <2>3 DEF store, Ledger!vars
  <2> QED
    BY <2>1, <2>2, <2>3
<1> QED
  BY <1>1, <1>2, <1>3, <1>4 DEF Faults

LEMMA InitIsOfTheLedger == Init => Ledger!Init
<1> SUFFICES ASSUME Init PROVE Ledger!Init
  OBVIOUS
<1>1. PICK s \in Stores : schema = s[1] /\ profile = s[2] /\ records = s[3]
  BY DEF Init
<1>2. s[1] \in BOOLEAN /\ s[2] \in Profiles \cup {NoProfile} /\ s[3] \in [Ids -> Rows]
  BY StoresAssumption
<1>3. answer = [c \in Clients |-> <<"none">>]
  BY DEF Init
<1>4. Rows = {NoRecord} \cup Ledger!Content
  BY DEF Rows, Content, Ledger!Content
<1> QED
  BY <1>1, <1>2, <1>3, <1>4 DEF Ledger!Init

LEMMA StepIsOfTheLedger == JInv /\ [Next]_vars => [Ledger!Next]_Ledger!vars
<1> SUFFICES ASSUME JInv, [Next]_vars PROVE Ledger!Next \/ UNCHANGED Ledger!vars
  OBVIOUS
<1>1. CASE UNCHANGED vars
  BY <1>1 DEF vars, Ledger!vars
<1>2. ASSUME NEW c \in Clients, Statements(c) PROVE Ledger!Next \/ UNCHANGED Ledger!vars
  BY <1>2, StatementsAreOfTheLedger, CommitIsOfTheLedger
<1>3. ASSUME NEW c \in Clients, Faults(c) \/ Resolve(c) \/ BreakDeadlock(c)
      PROVE  Ledger!Next \/ UNCHANGED Ledger!vars
  BY <1>3, FaultsAreOfTheLedger
<1> QED
  BY <1>1, <1>2, <1>3 DEF Next

\* The store is its ledger: each operation takes effect at one instant, whole and
\* on the state of that instant, and what a client is told is true, for any
\* commands, however their statements interleave and their connections fail.
THEOREM ImplementsTheLedger == Spec => IsLedger
<1>1. Init => Ledger!Init
  BY InitIsOfTheLedger
<1>2. JInv /\ [Next]_vars => [Ledger!Next]_Ledger!vars
  BY StepIsOfTheLedger
<1> QED
  BY <1>1, <1>2, AlwaysJInv, PTL DEF Spec, IsLedger, Ledger!Spec

-----------------------------------------------------------------------------
(* Conflicts. A row of a client is the one its command offers, wherever the row *)
(* is: stored, or in a transaction that may still commit.                       *)

AsOffered(id, row) ==
    row # NoRecord => \A o \in Asked(job[row.by]) : id \in DOMAIN o.batch => o.batch[id] = row.text

OfItsCommand ==
    /\ job \in Jobs
    /\ \A c \in Clients : \A i \in DOMAIN ops[c] : ops[c][i] \in Asked(job[c])
    /\ \A id \in Ids : AsOffered(id, records[id])
    /\ \A s \in Sessions : \A id \in DOMAIN txn[s].writes : AsOffered(id, txn[s].writes[id])

\* Where the rows of the next state come from: somewhere in this one, or from the
\* operation of c that is under way.
Written(id, row) == \E s \in Sessions : id \in DOMAIN txn[s].writes /\ row = txn[s].writes[id]

WritesOf(c) ==
    \A s \in Sessions : \A id \in DOMAIN txn'[s].writes :
        \/ Written(id, txn'[s].writes[id])
        \/ txn'[s].writes[id] = NoRecord
        \/ /\ ops[c] # <<>> /\ id \in DOMAIN Current(c).batch
           /\ txn'[s].writes[id] = Offered(c)[id]

Sources(c) ==
    /\ job' = job
    /\ ops' = ops \/ (ops[c] # <<>> /\ (GoOn(c) \/ GiveUp(c)))
    /\ \A id \in Ids : records'[id] = records[id] \/ Written(id, records'[id])
    /\ WritesOf(c)

LEMMA EndsOfItsCommand ==
    ASSUME TypeOK, OfItsCommand, NEW c \in Clients, ops[c] # <<>>, GoOn(c) \/ GiveUp(c)
    PROVE  \A d \in Clients : \A i \in DOMAIN ops'[d] : ops'[d][i] \in Asked(job[d])
<1>1. ops \in [Clients -> Seq(Operations)] /\ job[c] \in Commands
  BY DEF TypeOK
<1>2. \E todo \in {Tail(ops[c]), job[c].main, job[c].final, <<>>} :
         ops' = [ops EXCEPT ![c] = todo]
  BY DEF GoOn, GiveUp, Rerun, Start
<1>3. \A i \in DOMAIN Tail(ops[c]) : Tail(ops[c])[i] \in Asked(job[c])
  <2>1. ops[c] \in Seq(Operations)
    BY <1>1
  <2>2. \A i \in DOMAIN Tail(ops[c]) : i + 1 \in DOMAIN ops[c] /\ Tail(ops[c])[i] = ops[c][i+1]
    BY <2>1
  <2> QED
    BY <2>2 DEF OfItsCommand
<1>4. ASSUME NEW todo \in {Tail(ops[c]), job[c].main, job[c].final, <<>>}
      PROVE  \A i \in DOMAIN todo : todo[i] \in Asked(job[c])
  BY <1>3, <1>4 DEF Asked
<1> QED
  BY <1>1, <1>2, <1>4 DEF OfItsCommand

LEMMA SourcesKeep ==
    ASSUME TypeOK, OfItsCommand, NEW c \in Clients, Sources(c)
    PROVE  OfItsCommand'
<1>1. job' \in Jobs
  BY DEF Sources, OfItsCommand
<1>2. \A d \in Clients : \A i \in DOMAIN ops'[d] : ops'[d][i] \in Asked(job'[d])
  <2>1. CASE ops' = ops
    BY <2>1 DEF Sources, OfItsCommand
  <2>2. CASE ops[c] # <<>> /\ (GoOn(c) \/ GiveUp(c))
    BY <2>2, EndsOfItsCommand DEF Sources
  <2> QED
    BY <2>1, <2>2 DEF Sources
<1>3. job' = job
  BY DEF Sources
<1>4. \A id, row : Written(id, row) => AsOffered(id, row)
  BY DEF Written, OfItsCommand
<1>5. \A id \in Ids : AsOffered(id, records'[id])
  BY <1>4 DEF Sources, OfItsCommand
<1>6. ASSUME NEW id, ops[c] # <<>>, id \in DOMAIN Current(c).batch
      PROVE  AsOffered(id, Offered(c)[id])
  <2>1. Offered(c)[id].by = c /\ Offered(c)[id].text = Current(c).batch[id]
    BY <1>6 DEF Offered
  <2>2. Current(c) \in Asked(job[c])
    <3>1. 1 \in DOMAIN ops[c] /\ Current(c) = ops[c][1]
      BY <1>6 DEF Current, TypeOK
    <3> QED
      BY <3>1 DEF OfItsCommand
  <2>3. \A o \in Asked(job[c]) : id \in DOMAIN o.batch => o.batch[id] = Current(c).batch[id]
    BY <1>6, <2>2, InputAssumption DEF OfItsCommand
  <2> QED
    BY <2>1, <2>3 DEF AsOffered
<1>7. \A id : AsOffered(id, NoRecord)
  BY DEF AsOffered
<1>8. ASSUME NEW s \in Sessions, NEW id \in DOMAIN txn'[s].writes
      PROVE  AsOffered(id, txn'[s].writes[id])
  <2> DEFINE row == txn'[s].writes[id]
  <2>1. \/ Written(id, row) \/ row = NoRecord
        \/ ops[c] # <<>> /\ id \in DOMAIN Current(c).batch /\ row = Offered(c)[id]
    BY DEF Sources, WritesOf
  <2> HIDE DEF row
  <2>2. AsOffered(id, row)
    BY <1>4, <1>6, <1>7, <2>1
  <2> QED
    BY <2>2 DEF row
<1>9. (\A id \in Ids : AsOffered(id, records[id]))'
  BY <1>3, <1>5 DEF AsOffered
<1>10. (\A s \in Sessions : \A id \in DOMAIN txn[s].writes : AsOffered(id, txn[s].writes[id]))'
  BY <1>3, <1>8 DEF AsOffered
<1> QED
  BY <1>1, <1>2, <1>9, <1>10 DEF OfItsCommand

\* A transaction of c that takes the place of its live one.
LEMMA NewWrites ==
    ASSUME TypeOK, NEW c \in Clients, NEW t, Update(c, t),
           \A id \in DOMAIN t.writes :
               \/ Written(id, t.writes[id]) \/ t.writes[id] = NoRecord
               \/ /\ ops[c] # <<>> /\ id \in DOMAIN Current(c).batch
                  /\ t.writes[id] = Offered(c)[id]
    PROVE  WritesOf(c)
<1>1. ASSUME NEW s \in Sessions, NEW id \in DOMAIN txn'[s].writes, s # <<c, "live">>
      PROVE  Written(id, txn'[s].writes[id])
  BY <1>1 DEF Update, TypeOK, Written
<1>2. txn'[<<c, "live">>] = t
  BY SessionsAre DEF Update, TypeOK
<1> QED
  BY <1>1, <1>2 DEF WritesOf

LEMMA SameTransactions ==
    ASSUME UNCHANGED txn, NEW c
    PROVE  WritesOf(c)
  BY DEF WritesOf, Written

LEMMA IdleWritesNothing ==
    ASSUME TypeOK, NEW c \in Clients, Update(c, Idle)
    PROVE  WritesOf(c)
  BY IdleIs, NewWrites

LEMMA LiveWrites ==
    ASSUME TypeOK, NEW c \in Clients
    PROVE  /\ txn[<<c, "live">>] \in Transactions
           /\ \A id \in DOMAIN Live(c).writes : Written(id, Live(c).writes[id])
  BY SessionsAre DEF TypeOK, Live, Written

LEMMA GoesOnWithItsJob ==
    ASSUME NEW c, GoOn(c) \/ GiveUp(c)
    PROVE  job' = job
  BY DEF GoOn, GiveUp, Rerun

LEMMA RaisesSources ==
    ASSUME TypeOK, NEW c \in Clients, ops[c] # <<>>, NEW e, Raises(c, e)
    PROVE  Sources(c)
  BY IdleWritesNothing, GoesOnWithItsJob DEF Raises, store, Sources

LEMMA ReturnsSources ==
    ASSUME TypeOK, NEW c \in Clients, ops[c] # <<>>, NEW v, Returns(c, v),
           UNCHANGED <<records, txn>>
    PROVE  Sources(c)
  BY SameTransactions, GoesOnWithItsJob DEF Returns, Sources

LEMMA StatementSources ==
    ASSUME TypeOK, NEW c \in Clients, Underway(c), Statements(c), ~Commit(c)
    PROVE  Sources(c)
<1>1. ASSUME UNCHANGED <<job, ops, records>>, WritesOf(c)
      PROVE  Sources(c)
  BY <1>1 DEF Sources
<1>2. ASSUME UNCHANGED <<job, ops, records, txn>>
      PROVE  Sources(c)
  BY <1>1, <1>2, SameTransactions
<1>3. ASSUME UNCHANGED <<job, ops, records>>, NEW t, Update(c, t), t.writes = Live(c).writes
      PROVE  Sources(c)
  BY <1>1, <1>3, NewWrites, LiveWrites
<1>4. CASE InspectLockedState(c) \/ GetRecords(c) \/ SearchCosine(c)
  BY <1>2, <1>4 DEF InspectLockedState, GetRecords, SearchCosine, Statement, store
<1>5. CASE \/ ApplyMigration(c) \/ FinishMigration(c) \/ VerifyReadiness(c)
           \/ LookupProfile(c) \/ CheckBoundProfile(c)
  <2>1. /\ ops[c] # <<>>
        /\ \/ UNCHANGED <<job, ops, records, txn>>
           \/ \E e : Raises(c, e)
           \/ \E v : Returns(c, v) /\ UNCHANGED <<records, txn>>
    BY <1>5 DEF ApplyMigration, FinishMigration, VerifyReadiness, LookupProfile,
       CheckBoundProfile, Statement, store, At
  <2> QED
    BY <1>2, <2>1, RaisesSources, ReturnsSources
<1>6. CASE AcquireScopeLock(c) \/ ReadProfileForUpdate(c) \/ InsertProfile(c) \/ DeleteProfile(c)
  <2>1. /\ ops[c] # <<>>
        /\ \/ UNCHANGED <<job, ops, records, txn>>
           \/ \E e : Raises(c, e)
           \/ /\ UNCHANGED <<job, ops, records>>
              /\ \/ Locking(c, "scope") \/ Locking(c, "row")
                 \/ Update(c, [Live(c) EXCEPT !.profile = Current(c).profile])
                 \/ Update(c, [Live(c) EXCEPT !.profile = NoProfile, !.locks = @ \cup {"row"}])
    BY <1>6 DEF AcquireScopeLock, ReadProfileForUpdate, InsertProfile, DeleteProfile,
       Statement, store, At
  <2>2. /\ \A l : [Live(c) EXCEPT !.locks = @ \cup {l}].writes = Live(c).writes
        /\ \A p : [Live(c) EXCEPT !.profile = p].writes = Live(c).writes
        /\ \A p, l : [Live(c) EXCEPT !.profile = p, !.locks = @ \cup {l}].writes = Live(c).writes
    BY LiveWrites DEF Live, Transactions
  <2> QED
    BY <1>2, <1>3, <2>1, <2>2, RaisesSources DEF Locking
<1>7. ASSUME UNCHANGED <<job, ops, records>>, NEW w, Update(c, [Live(c) EXCEPT !.writes = w]),
             \A id \in DOMAIN w : \/ w[id] = NoRecord
                                  \/ /\ ops[c] # <<>> /\ id \in DOMAIN Current(c).batch
                                     /\ w[id] = Offered(c)[id]
      PROVE  Sources(c)
  <2>1. [Live(c) EXCEPT !.writes = w].writes = w
    BY LiveWrites DEF Live, Transactions
  <2> QED
    BY <1>1, <1>7, <2>1, NewWrites
<1>8. CASE DeleteRecords(c)
  <2>1. CASE ~schema
    BY <1>8, <2>1, RaisesSources DEF DeleteRecords, At
  <2>2. CASE schema
    BY <1>7, <1>8, <2>2 DEF DeleteRecords, Statement, store
  <2> QED
    BY <2>1, <2>2
<1>9. CASE ReplaceRecord(c)
  BY <1>7, <1>9 DEF ReplaceRecord, Statement, store, At, Offered
<1>10. CASE InsertRecords(c)
  <2>1. /\ ops[c] # <<>> /\ step[c] = "put"
        /\ \/ \E e : Raises(c, e)
           \/ /\ Update(c, [Live(c) EXCEPT !.writes = [id \in NewIds(c) |-> Offered(c)[id]]])
              /\ UNCHANGED <<job, ops, records>>
    BY <1>10 DEF InsertRecords, Statement, store, At
  <2>2. NewIds(c) \subseteq DOMAIN Current(c).batch
    BY <2>1 DEF Underway, NewIds
  <2> QED
    BY <1>7, <2>1, <2>2, RaisesSources
<1> QED
  BY <1>4, <1>5, <1>6, <1>8, <1>9, <1>10 DEF Statements

LEMMA AppliedIsWritten ==
    ASSUME NEW s \in Sessions, Apply(txn[s])
    PROVE  \A id \in Ids : records'[id] = records[id] \/ Written(id, records'[id])
  BY DEF Apply, Written

LEMMA StepSources ==
    ASSUME TypeOK, NEW c \in Clients, Underway(c),
           Statements(c) \/ Faults(c) \/ Resolve(c) \/ BreakDeadlock(c)
    PROVE  Sources(c)
<1>1. CASE Commit(c) \/ CommitUnanswered(c)
  <2>1. /\ ops[c] # <<>> /\ (GoOn(c) \/ GiveUp(c))
        /\ Apply(txn[<<c, "live">>]) /\ Update(c, Idle)
    BY <1>1 DEF Commit, CommitUnanswered, Committing, Returns, Live
  <2> QED
    BY <2>1, SessionsAre, AppliedIsWritten, IdleWritesNothing, GoesOnWithItsJob DEF Sources
<1>2. CASE CommitInDoubt(c)
  <2>1. /\ ops[c] # <<>> /\ GiveUp(c) /\ UNCHANGED records
        /\ txn' = [txn EXCEPT ![<<c, "live">>] = Idle, ![<<c, "orphan">>] = Live(c)]
    BY <1>2 DEF CommitInDoubt, Committing, store
  <2>2. \A s \in Sessions : \/ txn'[s] = Idle
                            \/ txn'[s] = Live(c)
                            \/ txn'[s] = txn[s]
    BY <2>1 DEF TypeOK
  <2>3. WritesOf(c)
    BY <2>2, IdleIs, SessionsAre DEF WritesOf, Written, Live
  <2> QED
    BY <2>1, <2>3, GoesOnWithItsJob DEF Sources
<1>3. CASE LockTimeout(c) \/ BreakDeadlock(c)
  <2>1. Raises(c, "error") /\ ops[c] # <<>>
    BY <1>3 DEF LockTimeout, BreakDeadlock, Blockers, At
  <2> QED
    BY <2>1, RaisesSources
<1>4. CASE Fail(c)
  <2>1. ops[c] # <<>> /\ GiveUp(c) /\ UNCHANGED records /\ Update(c, Idle)
    BY <1>4 DEF Fail, store
  <2> QED
    BY <2>1, IdleWritesNothing, GoesOnWithItsJob DEF Sources
<1>5. CASE Resolve(c)
  <2>1. /\ UNCHANGED <<job, ops>> /\ (Apply(txn[<<c, "orphan">>]) \/ UNCHANGED records)
        /\ txn' = [txn EXCEPT ![<<c, "orphan">>] = Idle]
    BY <1>5 DEF Resolve, control, store
  <2>2. \A s \in Sessions : txn'[s] = Idle \/ txn'[s] = txn[s]
    BY <2>1 DEF TypeOK
  <2>3. WritesOf(c)
    BY <2>2, IdleIs DEF WritesOf, Written
  <2> QED
    BY <2>1, <2>3, SessionsAre, AppliedIsWritten DEF Sources
<1> QED
  BY <1>1, <1>2, <1>3, <1>4, <1>5, StatementSources DEF Faults

\* Only the comparison of a batch ends in a conflict.
LEMMA ConflictIsCompared ==
    ASSUME JInv, NEW c \in Clients,
           Statements(c) \/ Faults(c) \/ Resolve(c) \/ BreakDeadlock(c),
           NEW d \in Clients, answer'[d] = <<"conflict">>, answer[d] # <<"conflict">>
    PROVE  d = c /\ At(c, "admit", "put") /\ Conflicting(c) # {}
<1>1. ASSUME NEW a, answer' = [answer EXCEPT ![c] = a]
      PROVE  d = c /\ a = <<"conflict">>
  BY <1>1, AnswerIs
<1>2. \A w : <<"conflict">> = <<w>> => w = "conflict"
  OBVIOUS
<1>3. ASSUME NEW v, NEW w
      PROVE  <<v, w>> # <<"conflict">> /\ \A u : <<u, v, w>> # <<"conflict">>
  <2>1. Len(<<v, w>>) = 2 /\ Len(<<"conflict">>) = 1 /\ \A u : Len(<<u, v, w>>) = 3
    OBVIOUS
  <2> QED
    BY <2>1
<1>4. ~(UNCHANGED answer)
  OBVIOUS
<1>5. ASSUME NEW e, Raises(c, e)
      PROVE  d = c /\ e = "conflict"
  BY <1>1, <1>2, <1>5 DEF Raises
<1>6. ASSUME NEW v, Returns(c, v)
      PROVE  d = c /\ v = <<"conflict">>
  BY <1>1, <1>6 DEF Returns
<1>7. Refused # "conflict"
  BY DEF Refused
<1>8. CASE \/ InspectLockedState(c) \/ ApplyMigration(c) \/ FinishMigration(c)
           \/ VerifyReadiness(c) \/ LookupProfile(c) \/ LockTimeout(c)
  BY <1>2, <1>3, <1>4, <1>5, <1>6, <1>7, <1>8
     DEF InspectLockedState, ApplyMigration, FinishMigration, VerifyReadiness, LookupProfile,
         LockTimeout
<1>9. CASE \/ AcquireScopeLock(c) \/ ReadProfileForUpdate(c) \/ InsertProfile(c) \/ GetRecords(c)
           \/ ReplaceRecord(c) \/ CheckBoundProfile(c) \/ DeleteRecords(c)
  BY <1>4, <1>5, <1>7, <1>9
     DEF AcquireScopeLock, ReadProfileForUpdate, InsertProfile, GetRecords, ReplaceRecord,
         CheckBoundProfile, DeleteRecords, Statement
<1>10. CASE SearchCosine(c) \/ DeleteProfile(c)
  <2>1. \/ UNCHANGED answer
        \/ \E w : answer' = [answer EXCEPT ![c] = <<"hits", w>>]
        \/ answer' = [answer EXCEPT ![c] = <<"cleared">>]
        \/ Raises(c, "error")
    BY <1>10 DEF SearchCosine, DeleteProfile, Statement
  <2> QED
    BY <1>1, <1>2, <1>3, <1>4, <1>5, <2>1
<1>11. CASE Commit(c)
  <2>1. Returns(c, Result(c))
    BY <1>11 DEF Commit
  <2>2. Result(c) = <<"conflict">>
    BY <1>6, <2>1
  <2>3. d = c
    BY <1>6, <2>1
  <2>4. Result(c) = answer[c]
    BY <1>2, <1>3, <2>2 DEF Result
  <2> QED
    BY <2>2, <2>3, <2>4
<1>12. CASE CommitUnanswered(c) \/ CommitInDoubt(c) \/ Fail(c) \/ Resolve(c) \/ BreakDeadlock(c)
  <2>1. \/ UNCHANGED answer
        \/ answer' = [answer EXCEPT ![c] = <<"error">>]
        \/ Raises(c, "error")
    BY <1>12 DEF CommitUnanswered, CommitInDoubt, Fail, Resolve, BreakDeadlock
  <2> QED
    BY <1>1, <1>2, <1>4, <1>5, <2>1
<1>13. CASE InsertRecords(c)
  <2>1. /\ At(c, "admit", "put")
        /\ \/ Conflicting(c) # {} /\ Raises(c, "conflict")
           \/ Raises(c, "error")
           \/ UNCHANGED answer
    BY <1>13 DEF InsertRecords, Statement
  <2> QED
    BY <1>4, <1>5, <2>1
<1> QED
  BY <1>8, <1>9, <1>10, <1>11, <1>12, <1>13 DEF Statements, Faults

\* What it met is stored, of the same profile, and so of another text.
LEMMA ForeignStep ==
    ASSUME JInv, OfItsCommand, NEW c \in Clients, At(c, "admit", "put"), Conflicting(c) # {}
    PROVE  \E id \in DOMAIN seen[c] : seen[c][id] # NoRecord /\ seen[c][id].by # c
<1>1. PICK id \in DOMAIN seen[c] : /\ seen[c][id] # NoRecord
                                  /\ ~RowsAreEqual(seen[c][id], Offered(c)[id])
  BY DEF Conflicting, NewIds
<1>2. /\ DOMAIN seen[c] = DOMAIN Current(c).batch /\ seen[c][id] = records[id]
      /\ profile = Current(c).profile
  BY <1>1, Facts DEF Knows, SeenIsStored, Underway, At
<1>3. Current(c) \in Operations /\ 1 \in DOMAIN ops[c] /\ Current(c) = ops[c][1]
  <2>1. ops[c] \in Seq(Operations) /\ ops[c] # <<>>
    BY Facts DEF At, TypeOK
  <2> QED
    BY <2>1 DEF Current
<1>4. id \in Ids
  BY <1>1, <1>2, <1>3 DEF Operations, Batches
<1>5. seen[c][id].under = Current(c).profile
  BY <1>1, <1>2, <1>4, Facts DEF Matching, RecordsMatchProfile, Stored
<1>6. seen[c][id].text # Current(c).batch[id]
  BY <1>1, <1>2, <1>5 DEF RowsAreEqual, Offered
<1>7. Current(c) \in Asked(job[c])
  BY <1>3 DEF OfItsCommand
<1>8. AsOffered(id, seen[c][id])
  BY <1>2, <1>4 DEF OfItsCommand
<1> QED
  BY <1>1, <1>2, <1>6, <1>7, <1>8 DEF AsOffered

LEMMA InitOfItsCommand == Init => OfItsCommand
<1> SUFFICES ASSUME Init PROVE OfItsCommand
  OBVIOUS
<1>1. job \in Jobs /\ ops = [c \in Clients |-> job[c].main]
  BY DEF Init
<1>2. \A s \in Sessions : \A id \in DOMAIN txn[s].writes : AsOffered(id, txn[s].writes[id])
  BY IdleIs DEF Init
<1>3. ASSUME NEW id \in Ids
      PROVE  AsOffered(id, records[id])
  <2>1. PICK s \in Stores : records = s[3]
    BY DEF Init
  <2>2. ASSUME records[id] # NoRecord, NEW o \in Asked(job[records[id].by]), id \in DOMAIN o.batch
        PROVE  o.batch[id] = records[id].text
    <3>1. records[id].by \in Clients
      BY <2>1, <2>2, StoresAssumption DEF Rows, Content
    <3> QED
      BY <1>1, <2>1, <2>2, <3>1, InputAssumption
  <2> QED
    BY <2>2 DEF AsOffered
<1> QED
  BY <1>1, <1>2, <1>3 DEF OfItsCommand, Asked

LEMMA StepOfItsCommand == JInv /\ OfItsCommand /\ [Next]_vars => OfItsCommand'
<1>1. ASSUME JInv, OfItsCommand, NEW c \in Clients,
             Statements(c) \/ Faults(c) \/ Resolve(c) \/ BreakDeadlock(c)
      PROVE  OfItsCommand'
  <2>1. TypeOK /\ Underway(c)
    BY <1>1, Facts
  <2> QED
    BY <1>1, <2>1, StepSources, SourcesKeep
<1>2. ASSUME OfItsCommand, UNCHANGED vars
      PROVE  OfItsCommand'
  BY <1>2 DEF vars, OfItsCommand, AsOffered
<1> QED
  BY <1>1, <1>2 DEF Next

\* A batch in conflict met a record that another client stored: whoever repeats its
\* own batch after a COMMIT it knows nothing about does not conflict with itself
\* (admit_batch and run_in_transaction).
THEOREM ConflictsAreForeign == Spec => ConflictIsForeign
<1> DEFINE Foreign == \A c \in Clients :
                         answer'[c] = <<"conflict">> /\ answer[c] # <<"conflict">> =>
                            \E id \in DOMAIN seen[c] : seen[c][id] # NoRecord /\ seen[c][id].by # c
<1>1. ASSUME JInv, OfItsCommand, Next
      PROVE  Foreign
  <2>1. PICK c \in Clients : Statements(c) \/ Faults(c) \/ Resolve(c) \/ BreakDeadlock(c)
    BY <1>1 DEF Next
  <2> QED
    BY <1>1, <2>1, ConflictIsCompared, ForeignStep
<1>2. ASSUME UNCHANGED vars
      PROVE  Foreign
  BY <1>2 DEF vars
<1>3. JInv /\ OfItsCommand /\ [Next]_vars => [Foreign]_vars
  BY <1>1
<1> HIDE DEF Foreign
<1>4. Spec => [][Foreign]_vars
  BY <1>3, AlwaysJInv, InitOfItsCommand, StepOfItsCommand, PTL DEF Spec
<1> QED
  BY <1>4, PTL DEF ConflictIsForeign, Foreign
================================================================================
