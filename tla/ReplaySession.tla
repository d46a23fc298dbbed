--------------------------- MODULE ReplaySession ---------------------------
(***************************************************************************)
(* One host process of the replay driver and the sessions it holds: the    *)
(* library's API (src/cpp/api.cpp), its Python caller (rdc_replay.py) and  *)
(* the commands whose answers depend on what the process did before.       *)
(*                                                                         *)
(* The replay system, the marker table, the "has anything replayed" bit    *)
(* and the document buffering are the process's; a capture and its engine  *)
(* are the session's.  A process makes one call at a time.  The engine is  *)
(* RenderDoc's: all that is said of it is what has been done to it since   *)
(* it opened its capture, because "the engine's pipeline state at an id is *)
(* a function of how replay reached that id" (bundle.cpp): it is still, or *)
(* it was stirred by a call that re-executes the log on its own, or it was *)
(* moved by MoveToEvent.                                                   *)
(***************************************************************************)
EXTENDS Naturals

CONSTANTS
    Handle,       \* Session objects of the host
    Capture,      \* capture files, by content: every cache keys them by size and time
    Last,         \* LastEventId of a frame
    Flush,        \* kProbeFlushEvery
    NoCache,      \* TRUE: $RDC_NO_CACHE is set, or the cache folder is no folder of ours
    Closed,       \* no session behind the handle
    Bare,         \* a session without a capture
    NoCapture, NoScan

Session == Capture \cup {Bare, Closed}
Eid == 1 .. Last

Engine == {"still", "stirred", "moved"}

(* A probe under way: the session, the range asked for, the next id, bCold,  *)
(* and how it found the engine when it began.                                *)
Scan == [by : Handle, until : Eid, next : 1 .. Last + 1, cold : BOOLEAN, from : Engine]

(* A probe cache file: ids 1 .. upto walked in order, and from what engine.  *)
ProbeFile == [upto : 0 .. Last, from : Engine]
NoFile == [upto |-> 0, from |-> "still"]

ASSUME SessionAssumption ==
    /\ Last \in Nat \ {0} /\ Flush \in Nat \ {0}
    /\ NoCache \in BOOLEAN
    /\ Bare \notin Capture /\ Closed \notin Capture /\ Bare # Closed
    /\ NoCapture \notin Capture
    /\ NoScan \notin Scan

VARIABLES
    host,         \* "exe": one capture for the life of the process; "library": any number
    up,           \* Module.m_bSystemUp
    markersOf,    \* MarkerPaths: the capture whose action tree was walked, or NoCapture
    replayed,     \* g_bReplayed
    session,      \* session[h]: what RdcReplayOpen gave the handle
    engine,       \* engine[h]: what has been done to its engine
    scan,         \* the probe in progress, or NoScan
    probes        \* probes[c]: probe-<key>.txt of capture c

processVars == <<host, up, markersOf, replayed, session, engine, scan>>
sessionVars == <<processVars, probes>>

-----------------------------------------------------------------------------
Fresh(h) == engine[h] = "still"

(* MarkerPaths: the first caller's tree is everybody's.                      *)
Walk(h) == markersOf' = IF markersOf = NoCapture THEN session[h] ELSE markersOf

(* MoveToEvent, the one SetFrameEvent in the program.                        *)
Move(h) ==
    /\ replayed' = TRUE
    /\ engine' = [engine EXCEPT ![h] = "moved"]

(* The state of a process that has just started. *)
Cold ==
    /\ up = FALSE
    /\ markersOf = NoCapture
    /\ replayed = FALSE
    /\ session = [h \in Handle |-> Closed]
    /\ engine = [h \in Handle |-> "still"]
    /\ scan = NoScan

SessionInit ==
    /\ host \in {"exe", "library"}
    /\ Cold
    /\ probes = [c \in Capture |-> NoFile]

(* The process ends, by itself or killed, and another starts; files remain.  *)
Reboot ==
    /\ host' \in {"exe", "library"}
    /\ up' = FALSE
    /\ markersOf' = NoCapture
    /\ replayed' = FALSE
    /\ session' = [h \in Handle |-> Closed]
    /\ engine' = [h \in Handle |-> "still"]
    /\ scan' = NoScan
    /\ UNCHANGED probes

-----------------------------------------------------------------------------
(* If every host could open a capture after another.                         *)
OpenAnother(h) ==
    /\ scan = NoScan
    /\ session[h] = Closed
    /\ up' = TRUE
    /\ \E c \in Capture \cup {Bare} : session' = [session EXCEPT ![h] = c]
    /\ engine' = [engine EXCEPT ![h] = "still"]
    /\ UNCHANGED <<host, markersOf, replayed, scan, probes>>

(* RdcReplayOpen: OpenEngine once, then the session.  The executable opens   *)
(* the capture of its command line and no other.                             *)
Open(h) ==
    /\ scan = NoScan
    /\ session[h] = Closed
    /\ host = "exe" => ~up
    /\ up' = TRUE
    /\ \E c \in Capture \cup {Bare} : session' = [session EXCEPT ![h] = c]
    /\ engine' = [engine EXCEPT ![h] = "still"]
    /\ UNCHANGED <<host, markersOf, replayed, scan, probes>>

(* No DLL, InitialiseReplay failed (the system stays down); or the version   *)
(* guard, OpenFile, OpenCapture refused (it stays up).                       *)
OpenFails(h) ==
    /\ scan = NoScan
    /\ session[h] = Closed
    /\ host = "exe" => ~up
    /\ up' \in {up, TRUE}
    /\ UNCHANGED <<host, markersOf, replayed, session, engine, scan, probes>>

(* Session.close / RdcReplayClose: the engine goes, the system stays up.     *)
Close(h) ==
    /\ scan = NoScan
    /\ session[h] # Closed
    /\ session' = [session EXCEPT ![h] = Closed]
    /\ engine' = [engine EXCEPT ![h] = "still"]
    /\ UNCHANGED <<host, up, markersOf, replayed, scan, probes>>

-----------------------------------------------------------------------------
(* A command that moves the replay and names markers: state, shaders, cb...  *)
Look(h) ==
    /\ scan = NoScan
    /\ session[h] \in Capture
    /\ Walk(h)
    /\ Move(h)
    /\ UNCHANGED <<host, up, session, scan, probes>>

(* One that reads the marker table alone: find, an id given as a path.       *)
Find(h) ==
    /\ scan = NoScan
    /\ session[h] \in Capture
    /\ Walk(h)
    /\ UNCHANGED <<host, up, replayed, session, engine, scan, probes>>

(* CmdCounters: FetchCounters re-executes the log, and MoveToEvent is not    *)
(* asked.                                                                    *)
Counters(h) ==
    /\ scan = NoScan
    /\ session[h] \in Capture
    /\ engine' = [engine EXCEPT ![h] = IF @ = "still" THEN "stirred" ELSE @]
    /\ UNCHANGED <<host, up, markersOf, replayed, session, scan, probes>>

(* CmdProbe: a prefix that reaches far enough answers without the engine...  *)
ProbeCached(h, n) ==
    /\ scan = NoScan
    /\ session[h] \in Capture
    /\ ~NoCache /\ probes[session[h]].upto >= n
    /\ UNCHANGED sessionVars

(* If the coldness of an engine were asked of its session, or not at all ... *)
ProbeAlwaysCold(h, n) ==
    /\ scan = NoScan
    /\ session[h] \in Capture
    /\ NoCache \/ probes[session[h]].upto < n
    /\ scan' = [by |-> h, until |-> n, next |-> 1, cold |-> TRUE, from |-> engine[h]]
    /\ UNCHANGED <<host, up, markersOf, replayed, session, engine, probes>>

(* ... where anything not cached is swept again from id 1.                   *)
ProbeBegin(h, n) ==
    /\ scan = NoScan
    /\ session[h] \in Capture
    /\ NoCache \/ probes[session[h]].upto < n
    /\ scan' = [by |-> h, until |-> n, next |-> 1, cold |-> ~replayed, from |-> engine[h]]
    /\ UNCHANGED <<host, up, markersOf, replayed, session, engine, probes>>

(* WriteProbeCache for the ids 1 .. n walked so far, best effort: the old    *)
(* file is removed before the new one is renamed over it, so a file that     *)
(* cannot be written leaves the old one, and a rename that fails, or a kill  *)
(* before it, none.                                                          *)
StoreAlways(n) ==
    probes' = [probes EXCEPT ![session[scan.by]] = [upto |-> n, from |-> scan.from]]
Store(n) ==
    IF scan.cold /\ ~NoCache
    THEN \E file \in {[upto |-> n, from |-> scan.from], NoFile, probes[session[scan.by]]} :
            probes' = [probes EXCEPT ![session[scan.by]] = file]
    ELSE UNCHANGED probes

ProbeStep ==
    /\ scan # NoScan
    /\ scan.next <= scan.until
    /\ Move(scan.by)
    /\ IF scan.next % Flush = 0 THEN Store(scan.next) ELSE UNCHANGED probes
    /\ scan' = [scan EXCEPT !.next = @ + 1]
    /\ UNCHANGED <<host, up, markersOf, session>>

ProbeEnd ==
    /\ scan # NoScan
    /\ scan.next > scan.until
    /\ Store(scan.until)
    /\ scan' = NoScan
    /\ UNCHANGED <<host, up, markersOf, replayed, session, engine>>

Command(h) ==
    \/ Look(h) \/ Find(h) \/ Counters(h)
    \/ \E n \in Eid : ProbeCached(h, n) \/ ProbeBegin(h, n)

-----------------------------------------------------------------------------
SessionTypeOK ==
    /\ host \in {"exe", "library"}
    /\ up \in BOOLEAN
    /\ markersOf \in Capture \cup {NoCapture}
    /\ replayed \in BOOLEAN
    /\ session \in [Handle -> Session]
    /\ engine \in [Handle -> Engine]
    /\ scan \in Scan \cup {NoScan}
    /\ probes \in [Capture -> ProbeFile]
    /\ scan # NoScan => session[scan.by] \in Capture

(* "a cached answer is someone's *first* run" (CmdProbe): whatever sessions  *)
(* the process opened, probed or killed before, the ids in a probe cache     *)
(* were walked by an engine that no MoveToEvent had moved.                   *)
ProbeCacheFresh == \A c \in Capture : probes[c].upto > 0 => probes[c].from # "moved"

(* A probe that reads another move's leftovers says so: it is never taken    *)
(* for a first run when its engine had been moved before.                    *)
ProbeKnowsItsPlace == scan # NoScan /\ scan.cold => scan.from # "moved"

(* The same said of whatever re-executes the log, which capture.cpp counts   *)
(* FetchCounters among: "a run that is not first says so on stderr, and only *)
(* a first run's answer is written to the cache" (CmdProbe).                 *)
ProbeCacheFirst == \A c \in Capture : probes[c].upto > 0 => probes[c].from = "still"
=============================================================================
