---------------------------- MODULE MCCoachingCall ----------------------------
(* A small instance of CoachingCall for TLC: two business labels, one tenant *)
(* rule, the cancellation template and three utterances.                     *)
EXTENDS CoachingCall

MCLabelOrder == <<"cancellation_request", "price_objection">>

MCRules == <<[label |-> "price_objection", action |-> "template_action",
              priority |-> "medium", any |-> {<<"pahali">>}, all |-> {}, exclude |-> {}]>>

MCTemplates == [cancellation_request |-> "high", price_objection |-> "high"]

MCUtterances == {<<"pahali">>, <<"iptal", "istiyorum">>, <<"pahali", "iptal", "istiyorum">>}

MCPhrases == {<<"iptal", "istiyorum">>}
MCNegations == {<<"iptal", "istemiyorum">>}
MCCancellationLabels == {"cancellation_request"}

\* The model sees nothing, or an objection it is sure of beside a cancellation that
\* is too weak for a partial text.
MCThresholds == [price_objection |-> 5, cancellation_request |-> 5, no_action |-> 5]
Scored(price, cancellation, nothing) ==
    [price_objection |-> price, cancellation_request |-> cancellation, no_action |-> nothing]
MCScores == {Scored(0, 0, 9), Scored(9, 6, 0)}
MCPriceQueries == {<<"iptal">>}
MCPriceObjections == {<<"pahali">>}
MCLimit == [increment |-> 2, minimum |-> 8]
MCCriticalLimit == [increment |-> 1, minimum |-> 9]
MCPolicy == [label |-> "none", action |-> "rag_action", priority |-> "critical"]
MCActions == {"template_action", "rag_action"}

Output(decision, revision, citations) ==
    [form |-> "object", decision |-> decision, valid |-> TRUE, foreign |-> FALSE,
     revision |-> revision, citations |-> citations, advice |-> "offer"]
MCOutputs == {Output("suggestion", 0, <<"p1">>), Output("suggestion", 0, <<"p2">>)}
MCRetrieved == {"p1"}

=============================================================================
