---------------------------- MODULE MCSignalPath ----------------------------
(* An instance of SignalPath for TLC: scores on both sides of the floor. *)
EXTENDS SignalPath, SequencesExt
MCScores == {-3, 3}

\* Percentile picks what sorting and indexing picks.
ASSUME PercentileIsRanked ==
  \A s \in BoundedSeq(0 .. 2, 5) \ {<<>>} :
    Percentile(s) = SortSeq(s, <)[1 + Rank(Len(s) - 1)]
=============================================================================
