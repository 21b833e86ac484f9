----------------------------- MODULE MCVectorStore -----------------------------
(* Three clients of one scope, two profiles of one dimension, two records.      *)
EXTENDS VectorStore, TLC

CONSTANTS c1, c2, c3, i1, i2, x, y, p, q

Both(t) == i1 :> t @@ i2 :> t
One(i, t) == i :> t

MCJobs ==
    {[c \in Clients |-> CASE c = c1 -> a [] c = c2 -> b [] OTHER -> d] :
        a \in {Ingestion(p, Both(x)), Upsert(p, One(i1, y)), Migration},
        b \in {Ingestion(p, One(i2, y)), Provisioning(q), Runtime(p)},
        d \in {EndToEnd(q, One(i1, x)), Job(<<Clean>>, <<>>), Migration}}

Written(t) == [text |-> t, under |-> p, by |-> c3]

MCStores ==
    {<<FALSE, NoProfile, [i \in Ids |-> NoRecord]>>,
     <<TRUE, p, [i \in Ids |-> NoRecord]>>,
     <<TRUE, p, [i \in Ids |-> IF i = i1 THEN Written(x) ELSE NoRecord]>>}
=============================================================================
