------------------------------ MODULE MCBundle ------------------------------
(***************************************************************************)
(* Two session objects, two captures and one or two bundle directories.    *)
(* The client makes at most MaxCalls calls: enough for a host to open,     *)
(* dump, close, open the other capture and dump it over the first, or to   *)
(* be killed in a dump and start again.                                    *)
(***************************************************************************)
EXTENDS Bundle, TLC

CONSTANTS h1, h2, c1, c2, d1, d2, MaxCalls

VARIABLE calls

Twins == Permutations({h1, h2}) \cup Permutations({c1, c2})

MCInit == BundleInit /\ calls = 0

MCNext ==
    \/ Idle /\ scan = NoScan /\ calls < MaxCalls /\ Next /\ calls' = calls + 1
    \/ ~(Idle /\ scan = NoScan) /\ Next /\ UNCHANGED calls

MCSpec == MCInit /\ [][MCNext]_<<vars, calls>>
=============================================================================
