-------------------------- MODULE MCDiarizationCall --------------------------
(* Small calls of four time units between an agent and a customer.          *)
EXTENDS DiarizationCall

A == {"agent"}
C == {"customer"}
Both == {"agent", "customer"}
Silent == {}

Word(from, to, by, tokens) == [from |-> from, to |-> to, by |-> by, text |-> tokens]

\* Phrases of one token, which a single word can hold.
OneTokenAgent == {<<"kontrol">>}
OneTokenCustomer == {<<"iptal">>}

\* Turn by turn, the agent recognised and the customer inferred; the reverse;
\* both speaking at once; a customer who uses the phrases of both; a word
\* across a change of turns; a pause with a word nobody is given.
SmallCalls == {
    [speech |-> <<A, C, A, C>>,
     words |-> {Word(0, 1, "agent", <<"kontrol">>), Word(1, 2, "customer", <<"evet">>),
                Word(2, 3, "agent", <<"kontrol">>), Word(3, 4, "customer", <<"iptal">>)}],
    [speech |-> <<C, C, A, A>>,
     words |-> {Word(0, 1, "customer", <<"iptal">>), Word(1, 2, "customer", <<"evet">>),
                Word(2, 3, "agent", <<"peki", "tamam">>), Word(2, 4, "agent", <<"peki">>)}],
    [speech |-> <<A, Both, C, Both>>,
     words |-> {Word(0, 1, "agent", <<"kontrol">>), Word(1, 3, "customer", <<"evet">>),
                Word(1, 2, "agent", <<"peki">>), Word(3, 4, "agent", <<"peki">>)}],
    [speech |-> <<Both, C, A, C>>,
     words |-> {Word(1, 2, "customer", <<"iptal">>), Word(0, 1, "agent", <<"kontrol">>),
                Word(2, 3, "agent", <<"evet">>), Word(3, 4, "customer", <<"kontrol">>)}],
    [speech |-> <<A, C, Silent, C>>,
     words |-> {Word(0, 1, "agent", <<"peki">>), Word(1, 2, "customer", <<"iptal">>),
                Word(2, 3, "nobody", <<"iptal">>), Word(3, 4, "customer", <<"kontrol">>)}],
    [speech |-> <<C, A, Both, A>>,
     words |-> {Word(0, 1, "customer", <<"iptal">>), Word(1, 2, "agent", <<"evet">>),
                Word(2, 3, "customer", <<"kontrol">>), Word(3, 4, "agent", <<"peki">>)}]}

\* Windows that overlap, one that holds another, two that start together.
RollingWindows == {[from |-> 0, to |-> 3], [from |-> 1, to |-> 3],
                   [from |-> 1, to |-> 4], [from |-> 2, to |-> 4]}
==============================================================================
