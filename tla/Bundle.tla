------------------------------- MODULE Bundle -------------------------------
(***************************************************************************)
(* The bundle producer: `dump <dir>` and `bundle-verify <dir>`             *)
(* (src/cpp/bundle.cpp), run from the sessions of ReplaySession by a       *)
(* client that may send any command at any time and be killed anywhere.    *)
(*                                                                         *)
(* A bundle directory is three documents, in the order `dump` writes them: *)
(*   events     events.json with states/ and cbuffers/: the part whose     *)
(*              content depends on what the process did before;            *)
(*   resources  resources.json, and what follows it: messages, counters,   *)
(*              textures, all functions of the capture;                    *)
(*   manifest   manifest.json, the hashes of the other two.                *)
(* Opening a document truncates it (Torn) and closing it completes it.     *)
(***************************************************************************)
EXTENDS ReplaySession

CONSTANTS
    Dir,                    \* bundle directories
    Absent, Torn,           \* a document that is not there, or half there
    NoDump, NoIds

(* What the sweep collected, on an engine never moved before or moved.       *)
Ids == {"cold", "warm"}

(* events.json: the frame it lists, whose marker paths it names, which ids,  *)
(* whether stdout was buffered meanwhile, and the host that wrote it.        *)
Sheet == [cap : Capture, markers : Capture, ids : Ids, buffered : BOOLEAN,
          by : {"exe", "library"}]

(* manifest.json: captureSha256 and the hash of each document it lists.      *)
Manifest == [cap : Capture, events : Sheet, resources : Capture]

Folder == [made : BOOLEAN,      \* holds anything at all
           events : Sheet \cup {Absent, Torn},
           resources : Capture \cup {Absent, Torn},
           manifest : Manifest \cup {Absent, Torn},
           replacing : BOOLEAN] \* a --overwrite began on it and has not finished
Empty == [made |-> FALSE, events |-> Absent, resources |-> Absent, manifest |-> Absent,
          replacing |-> FALSE]

Stage == {"ids", "events", "listing", "resources", "describing", "manifest", "hashing"}
Dump == [by : Handle, into : Dir, at : Stage, ids : Ids \cup {NoIds}]

ASSUME BundleAssumption ==
    /\ {Absent, Torn} \cap Sheet = {}
    /\ {Absent, Torn} \cap Capture = {}
    /\ {Absent, Torn} \cap Manifest = {}
    /\ Absent # Torn
    /\ NoDump \notin Dump
    /\ NoIds \notin Ids

VARIABLES
    buffering,    \* the process's document buffering (SetDocumentBuffering)
    dump,         \* the `dump` in progress, or NoDump
    sweeps,       \* sweeps[c]: sweep-<key>.txt of capture c, or NoIds
    dir           \* the bundle directories

bundleVars == <<buffering, dump, sweeps, dir>>
vars == <<sessionVars, bundleVars>>

Idle == dump = NoDump
Source == session[dump.by]

-----------------------------------------------------------------------------
(* "The directory has to be ours": empty, or --overwrite.                    *)
MayWriteAlways(b, over) == TRUE
MayWrite(b, over) == over \/ ~dir[b].made

(* If a session without a capture could be asked for a bundle ...            *)
DumpUnasked(h, b, over) ==
    /\ Idle /\ scan = NoScan
    /\ session[h] # Closed
    /\ MayWrite(b, over)
    /\ dump' = [by |-> h, into |-> b, at |-> "ids", ids |-> NoIds]
    /\ dir' = [dir EXCEPT ![b].made = TRUE]
    /\ UNCHANGED <<sessionVars, buffering, sweeps>>

(* ... where every command but `schema` needs one.                        *)
DumpBegin(h, b, over) ==
    /\ Idle /\ scan = NoScan
    /\ session[h] \in Capture
    /\ MayWrite(b, over)
    /\ dump' = [by |-> h, into |-> b, at |-> "ids", ids |-> NoIds]
    /\ dir' = [dir EXCEPT ![b].made = TRUE,
                          ![b].replacing = @ \/ (over /\ dir[b].made)]
    /\ UNCHANGED <<sessionVars, buffering, sweeps>>

(* The id sweep, first, always: the cached list of this capture, and one     *)
(* move to its end ...                                                       *)
IdsCached ==
    /\ ~NoCache /\ sweeps[Source] # NoIds
    /\ dump' = [dump EXCEPT !.at = "events", !.ids = sweeps[Source]]
    /\ UNCHANGED sweeps

(* ... or the scan, whose answer is cached whatever the engine did before.   *)
Scanned == IF Fresh(dump.by) THEN "cold" ELSE "warm"
IdsScanned ==
    /\ NoCache \/ sweeps[Source] = NoIds
    /\ dump' = [dump EXCEPT !.at = "events", !.ids = Scanned]
    /\ IF NoCache THEN UNCHANGED sweeps
                  ELSE sweeps' = [sweeps EXCEPT ![Source] = Scanned]

(* If the documents were buffered from the start ...                         *)
DumpIdsBuffered ==
    /\ dump # NoDump /\ dump.at = "ids"
    /\ IdsCached \/ IdsScanned
    /\ Move(dump.by)
    /\ buffering' = TRUE
    /\ UNCHANGED <<host, up, markersOf, session, scan, probes, dir>>

(* ... where the buffering comes after the last engine call.                 *)
DumpIds ==
    /\ dump # NoDump /\ dump.at = "ids"
    /\ IdsCached \/ IdsScanned
    /\ Move(dump.by)
    /\ UNCHANGED <<host, up, markersOf, session, scan, probes, buffering, dir>>

(* MarkerPaths, then events.json is opened.                                  *)
DumpEvents ==
    /\ dump # NoDump /\ dump.at = "events"
    /\ Walk(dump.by)
    /\ dir' = [dir EXCEPT ![dump.into].events = Torn]
    /\ dump' = [dump EXCEPT !.at = "listing"]
    /\ UNCHANGED <<host, up, replayed, session, engine, scan, probes, buffering, sweeps>>

(* Every id visited and written; "no SetFrameEvent follows this point".      *)
DumpListing ==
    /\ dump # NoDump /\ dump.at = "listing"
    /\ Move(dump.by)
    /\ dir' = [dir EXCEPT ![dump.into].events =
                 [cap |-> Source, markers |-> markersOf, ids |-> dump.ids,
                  buffered |-> buffering, by |-> host]]
    /\ buffering' = TRUE
    /\ dump' = [dump EXCEPT !.at = "resources"]
    /\ UNCHANGED <<host, up, markersOf, session, scan, probes, sweeps>>

(* If --overwrite kept the resource list that is there, the slow one ...      *)
DumpResourcesOnce ==
    /\ dump # NoDump /\ dump.at = "resources"
    /\ dir' = [dir EXCEPT ![dump.into].resources = IF @ = Absent THEN Torn ELSE @]
    /\ dump' = [dump EXCEPT !.at = IF dir[dump.into].resources = Absent
                                   THEN "describing" ELSE "manifest"]
    /\ UNCHANGED <<sessionVars, buffering, sweeps>>

(* ... where the code writes every document again.                           *)
DumpResources ==
    /\ dump # NoDump /\ dump.at = "resources"
    /\ dir' = [dir EXCEPT ![dump.into].resources = Torn]
    /\ dump' = [dump EXCEPT !.at = "describing"]
    /\ UNCHANGED <<sessionVars, buffering, sweeps>>

DumpDescribing ==
    /\ dump # NoDump /\ dump.at = "describing"
    /\ dir' = [dir EXCEPT ![dump.into].resources = Source]
    /\ dump' = [dump EXCEPT !.at = "manifest"]
    /\ UNCHANGED <<sessionVars, buffering, sweeps>>

DumpManifest ==
    /\ dump # NoDump /\ dump.at = "manifest"
    /\ dir' = [dir EXCEPT ![dump.into].manifest = Torn]
    /\ dump' = [dump EXCEPT !.at = "hashing"]
    /\ UNCHANGED <<sessionVars, buffering, sweeps>>

(* The documents `dump` wrote are hashed from the disk; so is the file at    *)
(* the session's path, taken here for the capture the session opened.        *)
DumpHashing ==
    /\ dump # NoDump /\ dump.at = "hashing"
    /\ dir' = [dir EXCEPT ![dump.into].manifest =
                            [cap |-> Source, events |-> dir[dump.into].events,
                             resources |-> dir[dump.into].resources],
                          ![dump.into].replacing = FALSE]
    /\ dump' = NoDump
    /\ UNCHANGED <<sessionVars, buffering, sweeps>>

(* A document that cannot be opened (`out.Ok()`), capture.json before the    *)
(* markers are walked or events.json after: exit 1, the files as they are,   *)
(* the session alive.  (Where the API cannot take stdout over it returns     *)
(* before `dump` runs, and nothing has changed.)                             *)
DumpFails ==
    /\ dump # NoDump
    /\ dump' = NoDump
    /\ \/ dump.at = "ids" /\ Move(dump.by)
       \/ UNCHANGED <<replayed, engine>>
    /\ \/ dump.at = "events" /\ Walk(dump.by)
       \/ UNCHANGED markersOf
    /\ UNCHANGED <<host, up, session, scan, probes, buffering, sweeps, dir>>

DumpStep ==
    \/ DumpIds \/ DumpEvents \/ DumpListing \/ DumpResources \/ DumpDescribing
    \/ DumpManifest \/ DumpHashing

(* bundle-verify: the manifest can be read, and what it lists is on disk.    *)
Readable(b) == dir[b].manifest \in Manifest
Verifies(b) ==
    /\ Readable(b)
    /\ dir[b].events = dir[b].manifest.events
    /\ dir[b].resources = dir[b].manifest.resources

-----------------------------------------------------------------------------
BundleInit ==
    /\ SessionInit
    /\ buffering = FALSE
    /\ dump = NoDump
    /\ sweeps = [c \in Capture |-> NoIds]
    /\ dir = [b \in Dir |-> Empty]

(* If a new host resumed the dump of the one before it ...                   *)
RestartResumes ==
    /\ Reboot
    /\ buffering' = FALSE
    /\ UNCHANGED <<dump, sweeps, dir>>

(* ... where the host ends or is killed, mid-dump or not.                    *)
Restart ==
    /\ Reboot
    /\ buffering' = FALSE
    /\ dump' = NoDump
    /\ UNCHANGED <<sweeps, dir>>

SessionStep ==
    /\ Idle
    /\ \/ \E h \in Handle : Open(h) \/ OpenFails(h) \/ Close(h) \/ Command(h)
       \/ ProbeStep \/ ProbeEnd
    /\ UNCHANGED bundleVars

Next ==
    \/ SessionStep
    \/ \E h \in Handle, b \in Dir, over \in BOOLEAN : DumpBegin(h, b, over)
    \/ DumpStep
    \/ DumpFails
    \/ Restart

Spec == BundleInit /\ [][Next]_vars

-----------------------------------------------------------------------------
TypeOK ==
    /\ SessionTypeOK
    /\ buffering \in BOOLEAN
    /\ dump \in Dump \cup {NoDump}
    /\ sweeps \in [Capture -> Ids \cup {NoIds}]
    /\ dir \in [Dir -> Folder]
    /\ dump # NoDump => Source \in Capture

(* "a bundle without one was interrupted" (rdc_sweep.py) and "a partial      *)
(* bundle says so" (CmdDump): wherever the host is killed or a document      *)
(* fails, a manifest that can be read describes what is on disk, unless an   *)
(* --overwrite of that directory has not finished.                           *)
ManifestMeansWhole ==
    \A b \in Dir : Readable(b) => Verifies(b) \/ dir[b].replacing

(* "a mixture no manifest could describe": a bundle that verifies is of one  *)
(* frame, whatever was overwritten, interrupted and started over.            *)
OneFramePerBundle ==
    \A b \in Dir : Verifies(b) =>
        /\ dir[b].events.cap = dir[b].manifest.cap
        /\ dir[b].resources = dir[b].manifest.cap

(* The process-wide marker table and buffering switch (actions.cpp,          *)
(* common.h) are right for a driver that opens one capture per process: a    *)
(* sheet the executable wrote names its own frame's markers.                 *)
ExeMarkersOwn ==
    \A b \in Dir : dir[b].events \in Sheet /\ dir[b].events.by = "exe" =>
        dir[b].events.markers = dir[b].events.cap

(* "The driver opens one capture per process, so a cache that lives for the  *)
(* process cannot go stale" (MarkerPaths), said of every host there is.      *)
MarkersOwn ==
    \A b \in Dir : dir[b].events \in Sheet => dir[b].events.markers = dir[b].events.cap

=============================================================================
