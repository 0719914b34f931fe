------------------------------- MODULE MCRecords -------------------------------
(* An instance of Records for TLC; the constants are in Records.cfg. *)
EXTENDS Records, TLC

Symmetry == Permutations(Runs)
MCPnls == {-1, 0, 2}

\* get_flow_timeline is exact as long as a table gives as many events as are shown:
\* it shows the newest of all, as the dashboard (15 of them, 20 a table) needs.
ASSUME TimelineIsNewest ==
  \A A, B \in SUBSET (1..5) : A \cap B = {} =>
    \A cap \in 1..3 : \A perTable \in cap..3 :
      Timeline({A, B}, cap, perTable)
        = {t \in A \cup B : Cardinality({u \in A \cup B : u > t}) < cap}
===============================================================================
