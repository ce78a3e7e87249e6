------------------------------ MODULE JobOrder ------------------------------
(***************************************************************************)
(* The job table over units whose After/Before configuration has no cycle: *)
(* Rank places every unit above the ones it is ordered after.              *)
(***************************************************************************)
EXTENDS JobTable

CONSTANTS Rank, MaxRank

ASSUME RankAssumption ==
    /\ MaxRank \in Nat
    /\ Rank \in [Unit -> 0 .. MaxRank]
    /\ \A pair \in Order : Rank[pair[1]] < Rank[pair[2]]

\* Among any units there is one that waits for none of the others: pausing
\* units for their neighbours (is_uv_runnable, job_order_compare) never makes
\* a group of units wait for each other, whatever mix of starts, stops,
\* restarts and reloads they hold.
NoWaitCycle ==
    \A units \in SUBSET Unit :
        units # {} => \E u \in units : \A o \in units : ~is_blocked_by(u, o)
=============================================================================
