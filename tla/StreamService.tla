--------------------------- MODULE StreamService ---------------------------
(***************************************************************************)
(* What `rdc_cache.load_stream` and `rdc_cache.stream_stats` promise their *)
(* callers, with no cache in sight: a command that parsed a capture is     *)
(* answered from the very version it parsed, in full.  REFERENCE 4.8 calls *)
(* the cache a pure optimisation that cannot change what a command prints; *)
(* StreamCache implements this module when that is so.                     *)
(***************************************************************************)

CONSTANTS
    Proc,         \* processes that run commands
    Capture,      \* capture paths
    Version,      \* the contents a capture path may hold
    Len,          \* Len[v]: bytes of the decompressed stream of v
    NoVersion,    \* no such file / nothing parsed
    NoStream      \* nothing answered yet

VARIABLES
    version,      \* version[c]: what the capture path holds now
    asked,        \* asked[p]: the version the command of p parsed
    answer        \* answer[p]: the stream the command of p was given

serviceVars == <<version, asked, answer>>

ServiceInit ==
    /\ version \in [Capture -> Version]
    /\ asked = [p \in Proc |-> NoVersion]
    /\ answer = [p \in Proc |-> NoStream]

Ask(p) ==
    /\ asked[p] = NoVersion
    /\ \E c \in Capture :
          /\ version[c] # NoVersion
          /\ asked' = [asked EXCEPT ![p] = version[c]]
    /\ UNCHANGED <<version, answer>>

(* The whole stream of the version that was parsed, whatever happened since. *)
Answer(p) ==
    /\ asked[p] # NoVersion
    /\ answer[p] = NoStream
    /\ answer' = [answer EXCEPT ![p] = [ver |-> asked[p], len |-> Len[asked[p]]]]
    /\ UNCHANGED <<version, asked>>

(* The command ends, answered or killed. *)
Leave(p) ==
    /\ asked[p] # NoVersion
    /\ asked' = [asked EXCEPT ![p] = NoVersion]
    /\ answer' = [answer EXCEPT ![p] = NoStream]
    /\ UNCHANGED version

(* Another capture is written at the path, or the file is deleted. *)
Recapture ==
    /\ \E c \in Capture, v \in Version \cup {NoVersion} :
          version' = [version EXCEPT ![c] = v]
    /\ UNCHANGED <<asked, answer>>

ServiceNext ==
    \/ \E p \in Proc : Ask(p) \/ Answer(p) \/ Leave(p)
    \/ Recapture

ServiceSpec == ServiceInit /\ [][ServiceNext]_serviceVars
=============================================================================
