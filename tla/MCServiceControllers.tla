------------------------- MODULE MCServiceControllers -------------------------
EXTENDS ServiceControllers, TLC

CONSTANTS r1, r2

\* Every script alone or beside the one it meets on its host: a second PostgreSQL
\* project among the resources a controller compares, a second model server.
Pair(a, b) == (r1 :> a) @@ (r2 :> b)
MCPairings == {Pair("tls_service", "integration"), Pair("vllm_service", "vllm_smoke"),
               Pair("tls_smoke", "absent")}
=============================================================================
