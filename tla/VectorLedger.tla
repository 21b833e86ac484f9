------------------------------ MODULE VectorLedger ------------------------------
(* What the vector store of one scope promises its clients: every operation      *)
(* takes effect at one instant, on the state of that instant, wholly or not at   *)
(* all. A client that lost its connection may get no answer for an operation     *)
(* that took effect; an answer it gets is true of the instant it was computed.   *)
EXTENDS FiniteSets

CONSTANTS Clients,
          Ids,        \* record identities: document and chunk
          Texts,      \* what a record says
          Profiles,   \* embedding profiles a client may be configured with
          NoProfile, NoRecord

VARIABLES
    schema,     \* the migration has been applied
    profile,    \* the registered profile, or NoProfile
    records,    \* what is stored under each identity, or NoRecord
    answer      \* the last answer each client got

state == <<schema, profile, records>>
vars == <<schema, profile, records, answer>>

\* An embedding depends on the profile it was computed under.
Content == [text : Texts, under : Profiles, by : Clients]

\* Equality of stored and offered content, whoever wrote it.
Same(a, b) == a.text = b.text /\ a.under = b.under

New(batch) == {id \in DOMAIN batch : records[id] = NoRecord}

Offers(c, p) == UNION {[S -> {d \in Content : d.under = p /\ d.by = c}] : S \in SUBSET Ids}

Init == /\ schema \in BOOLEAN
        /\ profile \in {NoProfile} \cup Profiles
        /\ records \in [Ids -> {NoRecord} \cup Content]
        /\ answer = [c \in Clients |-> <<"none">>]

\* The client of an effect gets its answer, an error, or for now nothing.
Tell(c, told) == \E a \in {told, <<"error">>, answer[c]} : answer' = [answer EXCEPT ![c] = a]

Migrate(c) == /\ ~schema
              /\ schema' = TRUE
              /\ Tell(c, <<"migrated">>)
              /\ UNCHANGED <<profile, records>>

Register(c, p) == /\ schema /\ profile \in {NoProfile, p}
                  /\ profile' = p
                  /\ Tell(c, <<"registered", p>>)
                  /\ UNCHANGED <<schema, records>>

\* A batch is admitted whole: what is new is stored, the rest is there already.
Admit(c, p, batch) ==
    /\ profile = p
    /\ \A id \in DOMAIN batch \ New(batch) : Same(records[id], batch[id])
    /\ records' = [id \in Ids |-> IF id \in New(batch) THEN batch[id] ELSE records[id]]
    /\ Tell(c, <<"stored", New(batch), DOMAIN batch \ New(batch)>>)
    /\ UNCHANGED <<schema, profile>>

Replace(c, p, batch) ==
    /\ profile = p
    /\ records' = [id \in Ids |-> IF id \in DOMAIN batch THEN batch[id] ELSE records[id]]
    /\ Tell(c, <<"replaced">>)
    /\ UNCHANGED <<schema, profile>>

Clear(c) == /\ schema
            /\ profile' = NoProfile
            /\ records' = [id \in Ids |-> NoRecord]
            /\ Tell(c, <<"cleared">>)
            /\ UNCHANGED schema

\* Answers that change nothing.
Answers(c, p, batch) ==
    {<<"error">>}
    \cup (IF schema THEN {<<"migrated">>, <<"ready">>} ELSE {})
    \cup (IF profile = NoProfile THEN {<<"cleared">>} ELSE {})
    \cup (IF profile = p THEN {<<"confirmed", p>>} ELSE {<<"unregistered">>})
    \cup {<<"hits", H>> : H \in SUBSET {<<id, records[id]>> : id \in {i \in Ids : records[i] # NoRecord}}}
    \cup (IF \E id \in DOMAIN batch \ New(batch) : ~Same(records[id], batch[id])
          THEN {<<"conflict">>} ELSE {})

Inform(c, p, batch) == /\ answer' \in {[answer EXCEPT ![c] = a] : a \in Answers(c, p, batch)}
                       /\ UNCHANGED state

Next == \E c \in Clients :
            \/ Migrate(c) \/ Clear(c)
            \/ \E p \in Profiles :
                  \/ Register(c, p)
                  \/ \E batch \in Offers(c, p) :
                        Admit(c, p, batch) \/ Replace(c, p, batch) \/ Inform(c, p, batch)

Spec == Init /\ [][Next]_vars
=============================================================================
