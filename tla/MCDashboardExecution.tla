------------------------ MODULE MCDashboardExecution -------------------------
(* Two pages that show one call id, with a file or the microphone.           *)
EXTENDS DashboardExecution, TLC

PageSymmetry == Permutations(Pages)

\* Bound: once a second resource is made, neither has ever had a microphone, or
\* a run that published anything before its last snapshot, a cancelled one.
MCShortRuns ==
    Len(resources) = 2 =>
        /\ \A r \in 1 .. 2 : /\ resources[r].revision = 0
                             /\ resources[r].session = "none"
                             /\ resources[r].run \in {"none", "preparing", "ended"}
                             /\ resources[r].latest.status \in {"none", "running", "cancelled"}
=============================================================================
