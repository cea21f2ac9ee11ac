------------------------- MODULE MCLiveSessionStore -------------------------
(* A small instance of LiveSessionStore for TLC.                           *)
EXTENDS LiveSessionStore, FiniteSetsExt, TLC

CONSTANTS s1, s2

\* One segment makes a second, the other does not; together they overflow
\* MaxMicroseconds = 1900000.
SegmentMicroseconds == (s1 :> 1200000) @@ (s2 :> 800000)

MCDurationOf ==
    [S \in SUBSET Segments |-> MapThenSumSet(LAMBDA s : SegmentMicroseconds[s], S)]

\* Reasons, key requests and finalizers are interchangeable.
Symmetry ==
    Permutations(CloseReasons) \cup Permutations(RequestIDs)
        \cup Permutations(Finalizers)
=============================================================================
