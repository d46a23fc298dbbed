--------------------------- MODULE BundleProofs ---------------------------
(***************************************************************************)
(* Theorems about Bundle, for any number of session objects, captures,     *)
(* directories and events, and about Sweep, one of its clients.            *)
(***************************************************************************)
EXTENDS Sweep, TLAPS

(* A directory nobody wrote into has no manifest.  A dump in progress: what  *)
(* it has written is of its own session's capture, and the directory holds   *)
(* no manifest but one it was told to replace.                               *)
Listed == {"resources", "describing", "manifest", "hashing"}
Described == {"manifest", "hashing"}

DumpInv ==
    /\ \A b \in Dir : ~dir[b].made => dir[b].manifest = Absent
    /\ dump # NoDump =>
        /\ dir[dump.into].made
        /\ dir[dump.into].manifest \in Manifest => dir[dump.into].replacing
        /\ dump.at # "ids" => dump.ids \in Ids
        /\ dump.at = "listing" => markersOf \in Capture
        /\ dump.at \in Listed =>
             dir[dump.into].events \in Sheet /\ dir[dump.into].events.cap = Source
        /\ dump.at \in Described => dir[dump.into].resources = Source

(* A manifest that can be read lists the documents of one capture, and those *)
(* on the disk unless they are being replaced.                               *)
DirInv ==
    \A b \in Dir :
        dir[b].manifest \in Manifest =>
             /\ Verifies(b) \/ dir[b].replacing
             /\ dir[b].manifest.events.cap = dir[b].manifest.cap
             /\ dir[b].manifest.resources = dir[b].manifest.cap

(* While nothing has replayed in the process no engine of it has been moved,  *)
(* so that a probe it starts then is a first run.                            *)
ProbeInv ==
    /\ ~replayed => \A h \in Handle : engine[h] # "moved"
    /\ ProbeKnowsItsPlace
    /\ ProbeCacheFresh

(* The executable opens one session, so that the marker table is of the      *)
(* capture of every session it has.                                          *)
HostInv ==
    /\ ~up => markersOf = NoCapture /\ \A h \in Handle : session[h] = Closed
    /\ host = "exe" =>
         /\ \A g, h \in Handle : session[g] # Closed /\ session[h] # Closed => g = h
         /\ markersOf # NoCapture =>
              \A h \in Handle : session[h] \in Capture => session[h] = markersOf
    /\ ExeMarkersOwn

-----------------------------------------------------------------------------
(* A new value of one document leaves a directory a directory.               *)
LEMMA FolderType ==
    ASSUME dir \in [Dir -> Folder], NEW b \in Dir
    PROVE  /\ \A e \in Sheet \cup {Absent, Torn} :
                [dir EXCEPT ![b].events = e] \in [Dir -> Folder]
           /\ \A r \in Capture \cup {Absent, Torn} :
                [dir EXCEPT ![b].resources = r] \in [Dir -> Folder]
           /\ \A m \in Manifest \cup {Absent, Torn} :
                [dir EXCEPT ![b].manifest = m] \in [Dir -> Folder]
           /\ \A m \in Manifest \cup {Absent, Torn} :
                [dir EXCEPT ![b].manifest = m, ![b].replacing = FALSE] \in [Dir -> Folder]
           /\ \A r \in BOOLEAN :
                [dir EXCEPT ![b].made = TRUE, ![b].replacing = r] \in [Dir -> Folder]
BY ZenonT(40) DEF Folder

LEMMA InitType == BundleInit => TypeOK /\ DumpInv /\ DirInv /\ ProbeInv /\ HostInv
<1> SUFFICES ASSUME BundleInit PROVE TypeOK /\ DumpInv /\ DirInv /\ ProbeInv /\ HostInv
  OBVIOUS
<1> USE BundleAssumption, SessionAssumption DEF BundleInit, SessionInit, Cold, Engine
<1>1. TypeOK
  <2>1. NoFile \in ProbeFile /\ Empty \in Folder
    BY DEF NoFile, ProbeFile, Empty, Folder
  <2>2. SessionTypeOK
    BY <2>1 DEF SessionTypeOK, Session
  <2> QED
    BY <2>1, <2>2 DEF TypeOK
<1>2. DumpInv
  BY DEF DumpInv, Empty
<1>3. DirInv
  BY DEF DirInv, Empty
<1>4. ProbeInv
  BY DEF ProbeInv, ProbeKnowsItsPlace, ProbeCacheFresh, NoFile
<1>5. HostInv
  BY DEF HostInv, ExeMarkersOwn, Empty
<1> QED
  BY <1>1, <1>2, <1>3, <1>4, <1>5

(* What a flush may leave is a probe file.                                   *)
LEMMA StoreType ==
    ASSUME scan \in Scan, session[scan.by] \in Capture, probes \in [Capture -> ProbeFile],
           NEW n \in 1 .. Last, Store(n)
    PROVE  probes' \in [Capture -> ProbeFile]
<1>1. Last \in Nat /\ scan.from \in Engine
  BY SessionAssumption DEF Scan
<1>2. [upto |-> n, from |-> scan.from] \in ProbeFile /\ NoFile \in ProbeFile
  BY <1>1 DEF ProbeFile, NoFile, Engine
<1> QED
  BY <1>2 DEF Store

(* Types, with the facts about the dump in progress they rest on.            *)
LEMMA TypeStep == TypeOK /\ DumpInv /\ [Next]_vars => TypeOK' /\ DumpInv'
<1> SUFFICES ASSUME TypeOK, DumpInv, [Next]_vars PROVE TypeOK' /\ DumpInv'
  OBVIOUS
<1> USE BundleAssumption, SessionAssumption
        DEF bundleVars, sessionVars, processVars, Listed, Described, Stage, Engine
<1>1. ASSUME Idle, UNCHANGED bundleVars, NEW h \in Handle, Open(h) PROVE TypeOK' /\ DumpInv'
  BY <1>1 DEF Idle, Open, TypeOK, SessionTypeOK, DumpInv, Session
<1>2. ASSUME Idle, UNCHANGED bundleVars, NEW h \in Handle, OpenFails(h) PROVE TypeOK' /\ DumpInv'
  BY <1>2 DEF Idle, OpenFails, TypeOK, SessionTypeOK, DumpInv, Session
<1>3. ASSUME Idle, UNCHANGED bundleVars, NEW h \in Handle, Close(h) PROVE TypeOK' /\ DumpInv'
  BY <1>3 DEF Idle, Close, TypeOK, SessionTypeOK, DumpInv, Session
<1>4. ASSUME Idle, UNCHANGED bundleVars, NEW h \in Handle, Look(h) PROVE TypeOK' /\ DumpInv'
  BY <1>4 DEF Idle, Look, Walk, Move, TypeOK, SessionTypeOK, DumpInv, Session
<1>5. ASSUME Idle, UNCHANGED bundleVars, NEW h \in Handle, Find(h) \/ Counters(h)
      PROVE  TypeOK' /\ DumpInv'
  <2>1. CASE Find(h)
    BY <1>5, <2>1 DEF Idle, Find, Walk, TypeOK, SessionTypeOK, DumpInv, Session
  <2>2. CASE Counters(h)
    BY <1>5, <2>2 DEF Idle, Counters, TypeOK, SessionTypeOK, DumpInv
  <2> QED
    BY <1>5, <2>1, <2>2
<1>6. ASSUME Idle, UNCHANGED bundleVars, NEW h \in Handle, NEW n \in Eid,
             ProbeCached(h, n) \/ ProbeBegin(h, n)
      PROVE  TypeOK' /\ DumpInv'
  <2>1. CASE ProbeCached(h, n)
    BY <1>6, <2>1 DEF Idle, ProbeCached, TypeOK, SessionTypeOK, DumpInv
  <2>2. CASE ProbeBegin(h, n)
    <3>1. n \in Eid /\ 1 \in 1 .. Last + 1 /\ (~replayed) \in BOOLEAN /\ engine[h] \in Engine
      BY DEF Eid, TypeOK, SessionTypeOK
    <3>2. scan' \in Scan /\ scan'.by = h
      BY <2>2, <3>1 DEF ProbeBegin, Scan
    <3> QED
      BY <1>6, <2>2, <3>2 DEF Idle, ProbeBegin, TypeOK, SessionTypeOK, DumpInv
  <2> QED
    BY <1>6, <2>1, <2>2
<1>7. ASSUME Idle, UNCHANGED bundleVars, ProbeStep PROVE TypeOK' /\ DumpInv'
  <2>1. scan \in Scan /\ session[scan.by] \in Capture /\ scan.by \in Handle
    BY <1>7 DEF ProbeStep, TypeOK, SessionTypeOK, Scan
  <2>2. scan.next \in 1 .. Last /\ scan.next + 1 \in 1 .. Last + 1
    BY <1>7, <2>1 DEF ProbeStep, Scan, Eid
  <2>3. scan' \in Scan /\ scan'.by = scan.by
    BY <1>7, <2>1, <2>2 DEF ProbeStep, Scan
  <2>4. probes' \in [Capture -> ProbeFile]
    BY <1>7, <2>1, <2>2, StoreType DEF ProbeStep, TypeOK, SessionTypeOK
  <2> QED
    BY <1>7, <2>1, <2>3, <2>4 DEF Idle, ProbeStep, Move, TypeOK, SessionTypeOK, DumpInv
<1>8. ASSUME Idle, UNCHANGED bundleVars, ProbeEnd PROVE TypeOK' /\ DumpInv'
  <2>1. scan \in Scan /\ session[scan.by] \in Capture
    BY <1>8 DEF ProbeEnd, TypeOK, SessionTypeOK
  <2>2. probes' \in [Capture -> ProbeFile]
    <3>1. scan.until \in 1 .. Last
      BY <2>1 DEF Scan, Eid
    <3> QED
      BY <1>8, <2>1, <3>1, StoreType DEF ProbeEnd, TypeOK, SessionTypeOK
  <2> QED
    BY <1>8, <2>2 DEF Idle, ProbeEnd, TypeOK, SessionTypeOK, DumpInv
<1>9. ASSUME NEW h \in Handle, NEW b \in Dir, NEW over \in BOOLEAN, DumpBegin(h, b, over)
      PROVE  TypeOK' /\ DumpInv'
  <2>1. dir' \in [Dir -> Folder]
    BY <1>9, FolderType DEF DumpBegin, TypeOK, Folder
  <2>2. dump' \in Dump /\ dump'.by = h /\ dump'.into = b /\ dump'.at = "ids"
    BY <1>9 DEF DumpBegin, Dump
  <2>3. TypeOK'
    BY <1>9, <2>1, <2>2 DEF DumpBegin, TypeOK, SessionTypeOK, Source
  <2>4. DumpInv'
    BY <1>9, <2>2 DEF DumpBegin, MayWrite, DumpInv, TypeOK, Folder
  <2> QED
    BY <2>3, <2>4
<1>10. ASSUME DumpIds PROVE TypeOK' /\ DumpInv'
  <2>1. dump \in Dump /\ dump.by \in Handle /\ dump.into \in Dir /\ Source \in Capture
    BY <1>10 DEF DumpIds, TypeOK, Dump
  <2>2. /\ dump' \in Dump /\ dump'.by = dump.by /\ dump'.into = dump.into
        /\ dump'.at = "events" /\ dump'.ids \in Ids
    BY ZenonT(40), <1>10, <2>1 DEF DumpIds, IdsCached, IdsScanned, Scanned, Dump, Ids, TypeOK
  <2>3. sweeps' \in [Capture -> Ids \cup {NoIds}]
    BY <1>10, <2>1 DEF DumpIds, IdsCached, IdsScanned, Scanned, Ids, TypeOK
  <2>4. TypeOK'
    BY <1>10, <2>1, <2>2, <2>3 DEF DumpIds, Move, TypeOK, SessionTypeOK, Source
  <2>5. DumpInv'
    BY <1>10, <2>1, <2>2 DEF DumpIds, DumpInv
  <2> QED
    BY <2>4, <2>5
<1>11. ASSUME DumpEvents PROVE TypeOK' /\ DumpInv'
  <2>1. dump \in Dump /\ dump.by \in Handle /\ dump.into \in Dir /\ Source \in Capture
    BY <1>11 DEF DumpEvents, TypeOK, Dump
  <2>2. /\ dump' \in Dump /\ dump'.by = dump.by /\ dump'.into = dump.into
        /\ dump'.at = "listing" /\ dump'.ids = dump.ids
    BY <1>11, <2>1 DEF DumpEvents, Dump
  <2>3. dir' \in [Dir -> Folder]
    BY <1>11, <2>1, FolderType DEF DumpEvents, TypeOK
  <2>4. markersOf' \in Capture
    BY <1>11, <2>1 DEF DumpEvents, Walk, Source, TypeOK, SessionTypeOK
  <2>5. TypeOK'
    BY <1>11, <2>1, <2>2, <2>3, <2>4 DEF DumpEvents, TypeOK, SessionTypeOK, Source
  <2>6. DumpInv'
    BY <1>11, <2>1, <2>2, <2>4 DEF DumpEvents, DumpInv, TypeOK, Folder
  <2> QED
    BY <2>5, <2>6
<1>12. ASSUME DumpListing PROVE TypeOK' /\ DumpInv'
  <2> DEFINE sheet == [cap |-> Source, markers |-> markersOf, ids |-> dump.ids,
                       buffered |-> buffering, by |-> host]
  <2>1. dump \in Dump /\ dump.by \in Handle /\ dump.into \in Dir /\ Source \in Capture
    BY <1>12 DEF DumpListing, TypeOK, Dump
  <2>2. /\ dump' \in Dump /\ dump'.by = dump.by /\ dump'.into = dump.into
        /\ dump'.at = "resources" /\ dump'.ids = dump.ids /\ dump.ids \in Ids
    BY <1>12, <2>1 DEF DumpListing, Dump, DumpInv
  <2>3. sheet \in Sheet /\ sheet.cap = Source
    BY <1>12, <2>1, <2>2 DEF DumpListing, DumpInv, TypeOK, SessionTypeOK, Sheet
  <2>4. dir' = [dir EXCEPT ![dump.into].events = sheet]
    BY <1>12 DEF DumpListing
  <2> HIDE DEF sheet
  <2>5. dir' \in [Dir -> Folder]
    BY <2>1, <2>3, <2>4, FolderType DEF TypeOK
  <2>6. TypeOK'
    BY <1>12, <2>1, <2>2, <2>5 DEF DumpListing, Move, TypeOK, SessionTypeOK, Source
  <2>7. DumpInv'
    BY <1>12, <2>1, <2>2, <2>3, <2>4 DEF DumpListing, DumpInv, Source, TypeOK, Folder
  <2> QED
    BY <2>6, <2>7
<1>13. ASSUME DumpResources PROVE TypeOK' /\ DumpInv'
  <2>1. dump \in Dump /\ dump.by \in Handle /\ dump.into \in Dir /\ Source \in Capture
    BY <1>13 DEF DumpResources, TypeOK, Dump
  <2>2. /\ dump' \in Dump /\ dump'.by = dump.by /\ dump'.into = dump.into
        /\ dump'.at = "describing" /\ dump'.ids = dump.ids
    BY <1>13, <2>1 DEF DumpResources, Dump
  <2>3. dir' \in [Dir -> Folder]
    BY <1>13, <2>1, FolderType DEF DumpResources, TypeOK
  <2>4. TypeOK'
    BY <1>13, <2>1, <2>2, <2>3 DEF DumpResources, TypeOK, SessionTypeOK, Source
  <2>5. DumpInv'
    BY <1>13, <2>1, <2>2 DEF DumpResources, DumpInv, Source, TypeOK, Folder
  <2> QED
    BY <2>4, <2>5
<1>14. ASSUME DumpDescribing PROVE TypeOK' /\ DumpInv'
  <2>1. dump \in Dump /\ dump.by \in Handle /\ dump.into \in Dir /\ Source \in Capture
    BY <1>14 DEF DumpDescribing, TypeOK, Dump
  <2>2. /\ dump' \in Dump /\ dump'.by = dump.by /\ dump'.into = dump.into
        /\ dump'.at = "manifest" /\ dump'.ids = dump.ids
    BY <1>14, <2>1 DEF DumpDescribing, Dump
  <2>3. dir' \in [Dir -> Folder]
    BY <1>14, <2>1, FolderType DEF DumpDescribing, TypeOK
  <2>4. TypeOK'
    BY <1>14, <2>1, <2>2, <2>3 DEF DumpDescribing, TypeOK, SessionTypeOK, Source
  <2>5. DumpInv'
    BY <1>14, <2>1, <2>2 DEF DumpDescribing, DumpInv, Source, TypeOK, Folder
  <2> QED
    BY <2>4, <2>5
<1>15. ASSUME DumpManifest PROVE TypeOK' /\ DumpInv'
  <2>1. dump \in Dump /\ dump.by \in Handle /\ dump.into \in Dir /\ Source \in Capture
    BY <1>15 DEF DumpManifest, TypeOK, Dump
  <2>2. /\ dump' \in Dump /\ dump'.by = dump.by /\ dump'.into = dump.into
        /\ dump'.at = "hashing" /\ dump'.ids = dump.ids
    BY <1>15, <2>1 DEF DumpManifest, Dump
  <2>3. dir' \in [Dir -> Folder]
    BY <1>15, <2>1, FolderType DEF DumpManifest, TypeOK
  <2>4. TypeOK'
    BY <1>15, <2>1, <2>2, <2>3 DEF DumpManifest, TypeOK, SessionTypeOK, Source
  <2>5. DumpInv'
    BY <1>15, <2>1, <2>2 DEF DumpManifest, DumpInv, Source, TypeOK, Folder
  <2> QED
    BY <2>4, <2>5
<1>16. ASSUME DumpHashing PROVE TypeOK' /\ DumpInv'
  <2> DEFINE m == [cap |-> Source, events |-> dir[dump.into].events,
                   resources |-> dir[dump.into].resources]
  <2>1. dump \in Dump /\ dump.into \in Dir /\ Source \in Capture
    BY <1>16 DEF DumpHashing, TypeOK, Dump
  <2>2. m \in Manifest
    BY <1>16, <2>1 DEF DumpHashing, DumpInv, Manifest
  <2>3. dir' = [dir EXCEPT ![dump.into].manifest = m, ![dump.into].replacing = FALSE]
    BY <1>16 DEF DumpHashing
  <2> HIDE DEF m
  <2>4. dir' \in [Dir -> Folder]
    BY <2>1, <2>2, <2>3, FolderType DEF TypeOK
  <2>5. TypeOK'
    BY <1>16, <2>4 DEF DumpHashing, TypeOK, SessionTypeOK
  <2>6. DumpInv'
    BY <1>16, <2>1, <2>3 DEF DumpHashing, DumpInv, TypeOK, Folder
  <2> QED
    BY <2>5, <2>6
<1>17. ASSUME DumpFails PROVE TypeOK' /\ DumpInv'
  <2>1. dump.by \in Handle /\ session[dump.by] \in Capture
    BY <1>17 DEF DumpFails, TypeOK, Dump, Source
  <2> QED
    BY <1>17, <2>1 DEF DumpFails, Walk, Move, TypeOK, SessionTypeOK, DumpInv
<1>18. ASSUME Restart PROVE TypeOK' /\ DumpInv'
  BY <1>18 DEF Restart, Reboot, TypeOK, SessionTypeOK, DumpInv, Session
<1>19. CASE UNCHANGED vars
  BY <1>19 DEF vars, TypeOK, SessionTypeOK, DumpInv, Source
<1> QED
  BY <1>1, <1>2, <1>3, <1>4, <1>5, <1>6, <1>7, <1>8, <1>9, <1>10, <1>11, <1>12, <1>13, <1>14,
     <1>15, <1>16, <1>17, <1>18, <1>19 DEF Next, SessionStep, Command, DumpStep

(* Types hold of every behaviour: no step of a probe, a dump or a client     *)
(* leaves a session, a cache or a document that is not one.                  *)
THEOREM BundleTypeCorrect == Spec => [](TypeOK /\ DumpInv)
<1>1. BundleInit => TypeOK /\ DumpInv
  BY InitType
<1> QED
  BY <1>1, TypeStep, PTL DEF Spec

-----------------------------------------------------------------------------
(* A flush leaves what a cold probe walked, what was there, or no file.      *)
LEMMA StoreFresh ==
    ASSUME ProbeInv, session[scan.by] \in Capture, probes \in [Capture -> ProbeFile], scan # NoScan,
           NEW n, Store(n)
    PROVE  ProbeCacheFresh'
<1>1. CASE scan.cold /\ ~NoCache
  <2>1. PICK file \in {[upto |-> n, from |-> scan.from], NoFile, probes[session[scan.by]]} :
           probes' = [probes EXCEPT ![session[scan.by]] = file]
    BY <1>1 DEF Store
  <2>2. file.upto > 0 => file.from # "moved"
    BY <1>1 DEF ProbeInv, ProbeKnowsItsPlace, ProbeCacheFresh, NoFile
  <2> QED
    BY <2>1, <2>2 DEF ProbeInv, ProbeCacheFresh
<1>2. CASE ~(scan.cold /\ ~NoCache)
  BY <1>2 DEF Store, ProbeInv, ProbeCacheFresh
<1> QED
  BY <1>1, <1>2

LEMMA ProbeStepInv == TypeOK /\ ProbeInv /\ [Next]_vars => ProbeInv'
<1> SUFFICES ASSUME TypeOK, ProbeInv, [Next]_vars PROVE ProbeInv'
  OBVIOUS
<1> USE SessionAssumption
        DEF sessionVars, ProbeInv, ProbeKnowsItsPlace, ProbeCacheFresh, TypeOK, SessionTypeOK
<1>1. ASSUME NEW h \in Handle, Open(h) \/ OpenFails(h) \/ Close(h) PROVE ProbeInv'
  BY <1>1 DEF Open, OpenFails, Close
<1>2. ASSUME NEW h \in Handle, Look(h) \/ Find(h) \/ Counters(h) PROVE ProbeInv'
  BY <1>2 DEF Look, Find, Counters, Move
<1>3. ASSUME NEW h \in Handle, NEW n \in Eid, ProbeCached(h, n) PROVE ProbeInv'
  BY <1>3 DEF ProbeCached, processVars
<1>4. ASSUME NEW h \in Handle, NEW n \in Eid, ProbeBegin(h, n) PROVE ProbeInv'
  <2>1. scan'.cold = ~replayed /\ scan'.from = engine[h]
    BY <1>4 DEF ProbeBegin, Fresh
  <2> QED
    BY <1>4, <2>1 DEF ProbeBegin
<1>5. ASSUME ProbeStep PROVE ProbeInv'
  <2>1. scan \in Scan /\ session[scan.by] \in Capture
    BY <1>5 DEF ProbeStep
  <2>2. scan'.cold = scan.cold /\ scan'.from = scan.from
    BY <1>5, <2>1 DEF ProbeStep, Scan
  <2>3. ProbeCacheFresh'
    BY <1>5, <2>1, StoreFresh DEF ProbeStep
  <2> QED
    BY <1>5, <2>1, <2>2, <2>3 DEF ProbeStep, Move
<1>6. ASSUME ProbeEnd PROVE ProbeInv'
  <2>1. session[scan.by] \in Capture
    BY <1>6 DEF ProbeEnd
  <2>2. ProbeCacheFresh'
    BY <1>6, <2>1, StoreFresh DEF ProbeEnd
  <2> QED
    BY <1>6, <2>2 DEF ProbeEnd
<1>7. ASSUME DumpIds \/ DumpListing PROVE ProbeInv'
  BY <1>7 DEF DumpIds, DumpListing, Move
<1>8. ASSUME DumpFails PROVE ProbeInv'
  BY <1>8 DEF DumpFails, Move
<1>9. ASSUME DumpEvents PROVE ProbeInv'
  BY <1>9 DEF DumpEvents
<1>10. ASSUME UNCHANGED sessionVars PROVE ProbeInv'
  BY <1>10 DEF processVars
<1>11. ASSUME Restart PROVE ProbeInv'
  BY <1>11 DEF Restart, Reboot
<1> QED
  BY <1>1, <1>2, <1>3, <1>4, <1>5, <1>6, <1>7, <1>8, <1>9, <1>10, <1>11
     DEF Next, SessionStep, Command, DumpStep, DumpBegin, DumpResources, DumpDescribing,
         DumpManifest, DumpHashing, vars

(* "A cached answer is someone's *first* run" (CmdProbe), however many       *)
(* sessions a process has opened, moved and closed before the probe.         *)
THEOREM ProbeCacheIsFresh == Spec => [](ProbeCacheFresh /\ ProbeKnowsItsPlace)
<1>1. BundleInit => ProbeInv
  BY InitType
<1>2. ProbeInv => ProbeCacheFresh /\ ProbeKnowsItsPlace
  BY DEF ProbeInv
<1> QED
  BY <1>1, <1>2, ProbeStepInv, BundleTypeCorrect, PTL DEF Spec

(* ... and a probe that takes itself for a first run walks an engine that    *)
(* nothing had moved (capture.cpp).                                          *)
THEOREM ProbesKnowTheirPlace == Spec => []ProbeKnowsItsPlace
BY ProbeCacheIsFresh, PTL

-----------------------------------------------------------------------------
(* What the steps of a dump do to a directory other than its own.            *)
LEMMA DirStep == TypeOK /\ DumpInv /\ DirInv /\ [Next]_vars => DirInv'
<1> SUFFICES ASSUME TypeOK, DumpInv, DirInv, [Next]_vars, NEW b \in Dir,
                    dir'[b].manifest \in Manifest
             PROVE  /\ Verifies(b)' \/ dir'[b].replacing
                    /\ dir'[b].manifest.events.cap = dir'[b].manifest.cap
                    /\ dir'[b].manifest.resources = dir'[b].manifest.cap
  BY DEF DirInv
<1> USE BundleAssumption DEF bundleVars
<1>0. dir \in [Dir -> Folder] /\ dir[b] \in Folder
  BY DEF TypeOK
<1>1. ASSUME UNCHANGED dir
      PROVE  /\ Verifies(b)' \/ dir'[b].replacing
             /\ dir'[b].manifest.events.cap = dir'[b].manifest.cap
             /\ dir'[b].manifest.resources = dir'[b].manifest.cap
  BY <1>1 DEF DirInv, Verifies, Readable
<1>2. ASSUME NEW h \in Handle, NEW d \in Dir, NEW over \in BOOLEAN, DumpBegin(h, d, over)
      PROVE  /\ Verifies(b)' \/ dir'[b].replacing
             /\ dir'[b].manifest.events.cap = dir'[b].manifest.cap
             /\ dir'[b].manifest.resources = dir'[b].manifest.cap
  <2>1. dir'[b].manifest = dir[b].manifest /\ dir'[b].events = dir[b].events
        /\ dir'[b].resources = dir[b].resources
        /\ (dir[b].replacing => dir'[b].replacing)
    BY <1>0, <1>2 DEF DumpBegin, Folder
  <2> QED
    BY <2>1 DEF DirInv, Verifies, Readable
<1>3. ASSUME dump # NoDump,
             \/ DumpEvents \/ DumpListing \/ DumpResources \/ DumpDescribing
      PROVE  /\ Verifies(b)' \/ dir'[b].replacing
             /\ dir'[b].manifest.events.cap = dir'[b].manifest.cap
             /\ dir'[b].manifest.resources = dir'[b].manifest.cap
  <2>1. dir'[b].manifest = dir[b].manifest /\ dir'[b].replacing = dir[b].replacing
    BY <1>0, <1>3 DEF DumpEvents, DumpListing, DumpResources, DumpDescribing, Folder
  <2>2. CASE b = dump.into
    <3>1. dir[b].replacing
      BY <1>3, <2>1, <2>2 DEF DumpInv
    <3> QED
      BY <2>1, <3>1 DEF DirInv
  <2>3. CASE b # dump.into
    <3>1. dir'[b] = dir[b]
      BY <1>0, <1>3, <2>3 DEF DumpEvents, DumpListing, DumpResources, DumpDescribing, TypeOK, Dump
    <3> QED
      BY <3>1 DEF DirInv, Verifies, Readable
  <2> QED
    BY <2>2, <2>3
<1>4. ASSUME DumpManifest
      PROVE  /\ Verifies(b)' \/ dir'[b].replacing
             /\ dir'[b].manifest.events.cap = dir'[b].manifest.cap
             /\ dir'[b].manifest.resources = dir'[b].manifest.cap
  <2>1. b # dump.into
    BY <1>0, <1>4 DEF DumpManifest, Folder
  <2>2. dir'[b] = dir[b]
    BY <1>0, <1>4, <2>1 DEF DumpManifest, TypeOK, Dump
  <2> QED
    BY <2>2 DEF DirInv, Verifies, Readable
<1>5. ASSUME DumpHashing
      PROVE  /\ Verifies(b)' \/ dir'[b].replacing
             /\ dir'[b].manifest.events.cap = dir'[b].manifest.cap
             /\ dir'[b].manifest.resources = dir'[b].manifest.cap
  <2>1. CASE b = dump.into
    <3>1. /\ dir'[b].manifest = [cap |-> Source, events |-> dir[b].events,
                                 resources |-> dir[b].resources]
          /\ dir'[b].events = dir[b].events /\ dir'[b].resources = dir[b].resources
      BY <1>0, <1>5, <2>1 DEF DumpHashing, Folder
    <3>2. dir[b].events.cap = Source /\ dir[b].resources = Source
      BY <1>5, <2>1 DEF DumpHashing, DumpInv, Listed, Described
    <3> QED
      BY <3>1, <3>2 DEF Verifies, Readable
  <2>2. CASE b # dump.into
    <3>1. dir'[b] = dir[b]
      BY <1>0, <1>5, <2>2 DEF DumpHashing, TypeOK, Dump
    <3> QED
      BY <3>1 DEF DirInv, Verifies, Readable
  <2> QED
    BY <2>1, <2>2
<1> QED
  BY <1>1, <1>2, <1>3, <1>4, <1>5
     DEF Next, SessionStep, DumpStep, DumpIds, DumpEvents, DumpListing, DumpResources,
         DumpDescribing, DumpFails, Restart, vars

(* A manifest on the disk is the proof of a whole bundle, of one frame: the  *)
(* documents it hashes are those on the disk, and all of its own capture,    *)
(* unless an --overwrite of the directory has not finished.                  *)
THEOREM ManifestsAreEvidence == Spec => [](ManifestMeansWhole /\ OneFramePerBundle)
<1>1. BundleInit => DirInv
  BY InitType
<1>2. DirInv => ManifestMeansWhole /\ OneFramePerBundle
  BY DEF DirInv, ManifestMeansWhole, OneFramePerBundle, Verifies, Readable
<1> QED
  BY <1>1, <1>2, DirStep, BundleTypeCorrect, PTL DEF Spec

(* "a mixture no manifest could describe": what verifies is of one frame,    *)
(* whatever was overwritten, interrupted and started over (bundle.cpp).      *)
THEOREM VerifiedBundlesAreOfOneFrame == Spec => []OneFramePerBundle
BY ManifestsAreEvidence, PTL

-----------------------------------------------------------------------------
LEMMA HostStep == TypeOK /\ DumpInv /\ HostInv /\ [Next]_vars => HostInv'
<1> SUFFICES ASSUME TypeOK, DumpInv, HostInv, [Next]_vars PROVE HostInv'
  OBVIOUS
<1> USE SessionAssumption, BundleAssumption
<1>0. dir \in [Dir -> Folder] /\ session \in [Handle -> Session]
  BY DEF TypeOK, SessionTypeOK
<1>1. ASSUME NEW h \in Handle, Open(h), UNCHANGED dir PROVE HostInv'
  <2>1. ~up' => markersOf' = NoCapture /\ \A g \in Handle : session'[g] = Closed
    BY <1>1 DEF Open
  <2>2. ASSUME host' = "exe"
        PROVE  /\ \A f, g \in Handle : session'[f] # Closed /\ session'[g] # Closed => f = g
               /\ markersOf' = NoCapture
    <3>1. ~up /\ \A g \in Handle : session[g] = Closed
      BY <1>1, <2>2 DEF Open, HostInv
    <3>2. \A g \in Handle \ {h} : session'[g] = Closed
      BY <1>0, <1>1, <3>1 DEF Open
    <3> QED
      BY <1>1, <3>1, <3>2 DEF Open, HostInv
  <2> QED
    BY <1>1, <2>1, <2>2 DEF HostInv, ExeMarkersOwn, Open
<1>2. ASSUME NEW h \in Handle, OpenFails(h), UNCHANGED dir PROVE HostInv'
  <2>1. ExeMarkersOwn'
    BY <1>2 DEF HostInv, ExeMarkersOwn
  <2>2. UNCHANGED <<host, markersOf, session>>
    BY <1>2 DEF OpenFails
  <2>3. up' = up \/ up' = TRUE
    BY <1>2 DEF OpenFails
  <2> QED
    BY <2>1, <2>2, <2>3 DEF HostInv
<1>3. ASSUME NEW h \in Handle, Close(h), UNCHANGED dir PROVE HostInv'
  BY <1>0, <1>3 DEF Close, HostInv, ExeMarkersOwn
<1>4. ASSUME NEW h \in Handle, session[h] \in Capture, Walk(h),
             UNCHANGED <<host, up, session>>, ExeMarkersOwn'
      PROVE  HostInv'
  <2>1. up
    BY <1>4 DEF HostInv, TypeOK, SessionTypeOK
  <2>2. ASSUME host' = "exe", markersOf' # NoCapture, NEW g \in Handle, session'[g] \in Capture
        PROVE  session'[g] = markersOf'
    BY <1>4, <2>2 DEF Walk, HostInv
  <2> QED
    BY <1>4, <2>1, <2>2 DEF HostInv
<1>5. ASSUME UNCHANGED <<host, up, session, markersOf>>, ExeMarkersOwn' PROVE HostInv'
  BY <1>5 DEF HostInv
<1>6. ASSUME UNCHANGED dir PROVE ExeMarkersOwn'
  BY <1>6 DEF HostInv, ExeMarkersOwn
<1>7. ASSUME NEW h \in Handle, NEW b \in Dir, NEW over \in BOOLEAN, DumpBegin(h, b, over)
      PROVE  HostInv'
  <2>1. \A d \in Dir : dir'[d].events = dir[d].events
    BY <1>0, <1>7 DEF DumpBegin, Folder
  <2>2. ExeMarkersOwn'
    BY <2>1 DEF HostInv, ExeMarkersOwn
  <2> QED
    BY <1>5, <1>7, <2>2 DEF DumpBegin, sessionVars, processVars
<1>8. ASSUME DumpEvents PROVE HostInv'
  <2>1. dump.by \in Handle /\ session[dump.by] \in Capture
    BY <1>8 DEF DumpEvents, TypeOK, Dump, Source
  <2>2. \A d \in Dir : dir'[d].events \in {dir[d].events, Torn}
    BY <1>0, <1>8 DEF DumpEvents, Folder
  <2>3. ExeMarkersOwn'
    BY <2>2 DEF HostInv, ExeMarkersOwn
  <2> QED
    BY <1>4, <1>8, <2>1, <2>3 DEF DumpEvents
<1>9. ASSUME DumpListing PROVE HostInv'
  <2>1. dump.by \in Handle /\ session[dump.by] \in Capture /\ dump.into \in Dir
    BY <1>9 DEF DumpListing, TypeOK, Dump, Source
  <2>2. host = "exe" => markersOf = Source
    BY <1>9, <2>1 DEF DumpListing, DumpInv, HostInv, Source
  <2>3. ASSUME NEW d \in Dir, d # dump.into PROVE dir'[d] = dir[d]
    BY <1>0, <1>9, <2>1, <2>3 DEF DumpListing
  <2>4. dir'[dump.into].events = [cap |-> Source, markers |-> markersOf, ids |-> dump.ids,
                                  buffered |-> buffering, by |-> host]
    BY <1>0, <1>9, <2>1 DEF DumpListing, Folder
  <2>5. ExeMarkersOwn'
    BY <2>2, <2>3, <2>4 DEF HostInv, ExeMarkersOwn
  <2> QED
    BY <1>5, <1>9, <2>5 DEF DumpListing
<1>10. ASSUME DumpResources \/ DumpDescribing \/ DumpManifest \/ DumpHashing PROVE HostInv'
  <2>1. \A d \in Dir : dir'[d].events = dir[d].events
    BY <1>0, <1>10 DEF DumpResources, DumpDescribing, DumpManifest, DumpHashing, Folder
  <2>2. ExeMarkersOwn'
    BY <2>1 DEF HostInv, ExeMarkersOwn
  <2> QED
    BY <1>5, <1>10, <2>2 DEF DumpResources, DumpDescribing, DumpManifest, DumpHashing,
                             sessionVars, processVars
<1>11. ASSUME DumpFails PROVE HostInv'
  <2>1. dump.by \in Handle /\ session[dump.by] \in Capture
    BY <1>11 DEF DumpFails, TypeOK, Dump, Source
  <2>2. CASE Walk(dump.by)
    BY <1>4, <1>6, <1>11, <2>1, <2>2 DEF DumpFails
  <2>3. CASE UNCHANGED markersOf
    BY <1>5, <1>6, <1>11, <2>3 DEF DumpFails
  <2> QED
    BY <1>11, <2>2, <2>3 DEF DumpFails
<1>12. ASSUME Restart PROVE HostInv'
  <2>1. ExeMarkersOwn'
    BY <1>6, <1>12 DEF Restart
  <2>2. markersOf' = NoCapture /\ \A h \in Handle : session'[h] = Closed
    BY <1>12 DEF Restart, Reboot
  <2> QED
    BY <2>1, <2>2 DEF HostInv
<1>13. ASSUME NEW h \in Handle, Look(h) \/ Find(h) \/ Counters(h), UNCHANGED dir PROVE HostInv'
  BY <1>4, <1>5, <1>6, <1>13 DEF Look, Find, Counters
<1>14. ASSUME NEW h \in Handle, NEW n \in Eid, ProbeCached(h, n) \/ ProbeBegin(h, n),
              UNCHANGED dir
       PROVE  HostInv'
  BY <1>5, <1>6, <1>14 DEF ProbeCached, ProbeBegin, sessionVars, processVars
<1>15. ASSUME ProbeStep \/ ProbeEnd, UNCHANGED dir PROVE HostInv'
  BY <1>5, <1>6, <1>15 DEF ProbeStep, ProbeEnd
<1>16. ASSUME DumpIds PROVE HostInv'
  BY <1>5, <1>6, <1>16 DEF DumpIds
<1>17. CASE UNCHANGED vars
  BY <1>5, <1>6, <1>17 DEF vars, sessionVars, processVars, bundleVars
<1> QED
  BY <1>1, <1>2, <1>3, <1>7, <1>8, <1>9, <1>10, <1>11, <1>12, <1>13, <1>14, <1>15, <1>16, <1>17
     DEF Next, SessionStep, Command, DumpStep, bundleVars

(* A sheet the executable writes names the markers of its own frame, though  *)
(* the marker table is the process's: it opens one capture in its life.      *)
THEOREM ExeSheetsNameTheirOwn == Spec => []ExeMarkersOwn
<1>1. BundleInit => HostInv
  BY InitType
<1>2. HostInv => ExeMarkersOwn
  BY DEF HostInv
<1> QED
  BY <1>1, <1>2, HostStep, BundleTypeCorrect, PTL DEF Spec

---------------------------------------------------------------------------
(***************************************************************************)
(* A sweep is one more client of the bundle producer: whatever is proved   *)
(* of Bundle for the client that may do anything holds of every sweep.     *)
(***************************************************************************)
(* A dump is in progress in the step that waits for it, and in no other.     *)
OneDump == dump # NoDump => At("dumping")

(* Between the look at a capture and its row, there is a capture.            *)
UnderWay == run # NoRun /\ run.at \notin {"look", "writing"} => run.next <= Len(Folders)

SweepInv == SweepTypeOK /\ DumpInv /\ OneDump /\ UnderWay

-----------------------------------------------------------------------------
USE DEF folder

LEMMA CaptureType ==
    ASSUME SweepTypeOK, run # NoRun, run.next <= Len(Folders)
    PROVE  Path1 \in Path /\ Bundle1 \in Dir /\ holds[Path1] \in Capture
<1>1. run.next \in 1 .. Len(Folders)
  BY SweepAssumption DEF SweepTypeOK, Run
<1> QED
  BY <1>1, SweepAssumption DEF Path1, Bundle1, SweepTypeOK

(* Every step of a sweep is a step of Bundle's client, or none.              *)
LEMMA ClientStep == SweepInv /\ [SweepNext]_allVars => [Next]_vars
<1> SUFFICES ASSUME SweepInv, SweepNext PROVE [Next]_vars
  BY DEF allVars
<1> USE DEF At, SweepInv
<1>1. ASSUME \/ Present \/ Missing \/ DumpRefused \/ AnswerLost \/ LinesDone \/ Splits \/ Judge
             \/ IndexOpened \/ \E p \in Path : Recapture(p)
      PROVE  UNCHANGED vars
  BY <1>1 DEF Present, Missing, DumpRefused, AnswerLost, LinesDone, Splits, Judge, IndexOpened,
              Recapture
<1>2. ASSUME \/ \E library, over \in BOOLEAN, lines \in Lists : Start(library, over, lines)
             \/ Spawn \/ IndexWritten \/ Killed \/ ChildDies
      PROVE  Restart
  BY <1>2 DEF Start, Spawn, IndexWritten, Killed, ChildDies
<1>3. ASSUME Opened \/ Refused \/ LineAnswers \/ LineFails PROVE SessionStep
  <2>1. Idle
    BY <1>3 DEF Opened, Refused, LineAnswers, LineFails, OneDump, Idle
  <2> QED
    BY <1>3, <2>1 DEF Opened, Refused, LineAnswers, LineFails, SessionStep, Command
<1>4. ASSUME Closes PROVE SessionStep \/ Restart
  <2>1. Idle
    BY <1>4 DEF Closes, OneDump, Idle
  <2> QED
    BY <1>4, <2>1 DEF Closes, SessionStep
<1>5. ASSUME Dumps
      PROVE  \E h \in Handle, b \in Dir, over \in BOOLEAN : DumpBegin(h, b, over)
  <2>1. PICK h \in Handle : DumpBegin(h, Bundle1, run.over)
    BY <1>5 DEF Dumps
  <2>2. Bundle1 \in Dir /\ run.over \in BOOLEAN
    BY <1>5, CaptureType DEF Dumps, UnderWay, SweepTypeOK, Run
  <2> QED
    BY <2>1, <2>2
<1>6. ASSUME Dumping \/ DumpBreaks PROVE DumpStep \/ DumpFails
  BY <1>6 DEF Dumping, DumpBreaks
<1> QED
  BY <1>1, <1>2, <1>3, <1>4, <1>5, <1>6 DEF SweepNext, Next

-----------------------------------------------------------------------------
(* How a step changes the record of the run.                                 *)
LEMMA RunType ==
    ASSUME run \in Run, NEW s \in Step, NEW f \in BOOLEAN, NEW c \in BOOLEAN
    PROVE  /\ Goto(s) => run' \in Run /\ run'.at = s /\ run'.next = run.next
           /\ Fails(s) => run' \in Run /\ run'.at = s /\ run'.next = run.next
           /\ run' = [run EXCEPT !.at = s, !.failed = f] =>
                run' \in Run /\ run'.at = s /\ run'.next = run.next
           /\ run' = [run EXCEPT !.line = @ + 1] =>
                run' \in Run /\ run'.at = run.at /\ run'.next = run.next
           /\ run' = [run EXCEPT !.line = @ + 1, !.failed = f, !.cause = c] =>
                run' \in Run /\ run'.at = run.at /\ run'.next = run.next
<1>1. Goto(s) => run' \in Run /\ run'.at = s /\ run'.next = run.next
  BY DEF Goto, Run
<1>2. Fails(s) => run' \in Run /\ run'.at = s /\ run'.next = run.next
  BY DEF Fails, Run
<1>3. run' = [run EXCEPT !.at = s, !.failed = f] =>
        run' \in Run /\ run'.at = s /\ run'.next = run.next
  BY DEF Run
<1>0. run.line + 1 \in Nat \ {0}
  BY DEF Run
<1>4. run' = [run EXCEPT !.line = @ + 1] => run' \in Run /\ run'.at = run.at /\ run'.next = run.next
  BY <1>0 DEF Run
<1>5. run' = [run EXCEPT !.line = @ + 1, !.failed = f, !.cause = c] =>
        run' \in Run /\ run'.at = run.at /\ run'.next = run.next
  <2> DEFINE more == run.line + 1
  <2>1. more \in Nat \ {0}
    BY <1>0
  <2> HIDE DEF more
  <2>2. [run EXCEPT !.line = more, !.failed = f, !.cause = c] \in Run
    BY <2>1 DEF Run
  <2>3. run' = [run EXCEPT !.line = @ + 1, !.failed = f, !.cause = c] =>
            run' = [run EXCEPT !.line = more, !.failed = f, !.cause = c]
    BY DEF more, Run
  <2>4. run' = [run EXCEPT !.line = more, !.failed = f, !.cause = c] =>
            run'.at = run.at /\ run'.next = run.next
    BY DEF Run
  <2> QED
    BY <2>2, <2>3, <2>4
<1> QED
  BY <1>1, <1>2, <1>3, <1>4, <1>5

LEMMA FiledType ==
    ASSUME SweepTypeOK, run # NoRun, run.next <= Len(Folders),
           NEW status \in Status, NEW sha \in Capture \cup {NoCapture}, NEW cause \in BOOLEAN,
           Filed(status, sha, cause)
    PROVE  run' \in Run /\ run'.at = "look"
<1>1. Path1 \in Path
  BY CaptureType
<1>2. run \in Run /\ run.next + 1 \in 1 .. Len(Folders) + 1
  <2>1. run \in Run
    BY DEF SweepTypeOK
  <2>2. run.next \in 1 .. Len(Folders) + 1
    BY ONLY <2>1 DEF Run
  <2> QED
    BY <2>1, <2>2, SweepAssumption
<1>3. [status |-> status, sha |-> sha, cause |-> cause] \in Row
  BY DEF Row
<1>4. [run.rows EXCEPT ![Path1] = [status |-> status, sha |-> sha, cause |-> cause]] \in Rows
  BY <1>1, <1>2, <1>3 DEF Rows, Run
<1>5. "look" \in Step /\ 1 \in Nat \ {0}
  BY DEF Step
<1> DEFINE made == [run.rows EXCEPT ![Path1] = [status |-> status, sha |-> sha, cause |-> cause]]
<1>6. run' = [run EXCEPT !.at = "look", !.next = run.next + 1, !.line = 1, !.failed = FALSE, !.cause = FALSE,
                         !.rows = made]
  BY <1>2 DEF Filed, Run
<1>7. made \in Rows
  BY <1>4
<1> HIDE DEF made
<1> QED
  BY <1>2, <1>5, <1>6, <1>7 DEF Run

LEMMA SweepStep == SweepInv /\ [SweepNext]_allVars => SweepInv'
<1> SUFFICES ASSUME SweepInv, [SweepNext]_allVars PROVE SweepInv'
  OBVIOUS
<1>0. TypeOK' /\ DumpInv'
  BY ClientStep, TypeStep DEF SweepInv, SweepTypeOK
<1> DEFINE Goal == SweepTypeOK' /\ OneDump' /\ UnderWay'
<1> SUFFICES Goal
  BY <1>0 DEF SweepInv
<1> USE SweepAssumption DEF SweepInv, At
<1>1. ASSUME dump' = NoDump, run' = NoRun, holds' \in [Path -> Capture], UNCHANGED <<keyOf, texts>>,
             index' \in Rows \cup {Absent, Torn}
      PROVE  Goal
  BY <1>0, <1>1 DEF OneDump, UnderWay, SweepTypeOK
<1>2. ASSUME dump' = NoDump, run' \in Run, UNCHANGED folder,
             texts' \in [Dir -> [Name -> Transcript \cup {NoText}]],
             index' \in Rows \cup {Absent, Torn},
             run'.at \notin {"look", "writing"} => run'.next <= Len(Folders)
      PROVE  Goal
  BY <1>0, <1>2 DEF OneDump, UnderWay, SweepTypeOK
<1>3. ASSUME run # NoRun
      PROVE  /\ run \in Run
             /\ \A s \in Step, f, c \in BOOLEAN :
                  /\ Goto(s) => run' \in Run /\ run'.at = s /\ run'.next = run.next
                  /\ Fails(s) => run' \in Run /\ run'.at = s /\ run'.next = run.next
                  /\ run' = [run EXCEPT !.at = s, !.failed = f] =>
                       run' \in Run /\ run'.at = s /\ run'.next = run.next
                  /\ run' = [run EXCEPT !.line = @ + 1] =>
                       run' \in Run /\ run'.at = run.at /\ run'.next = run.next
                  /\ run' = [run EXCEPT !.line = @ + 1, !.failed = f, !.cause = c] =>
                       run' \in Run /\ run'.at = run.at /\ run'.next = run.next
  <2>1. run \in Run
    BY <1>3 DEF SweepTypeOK
  <2> QED
    BY <2>1, RunType
<1>4. ASSUME run # NoRun, run.at # "dumping" PROVE dump = NoDump
  BY <1>4 DEF OneDump
<1>5. ASSUME NEW library \in BOOLEAN, NEW over \in BOOLEAN, NEW lines \in Lists,
             Start(library, over, lines)
      PROVE  Goal
  <2>1. Unswept \in Rows /\ 1 \in 1 .. Len(Folders) + 1
    BY DEF Unswept, Rows
  <2>2. run' \in Run /\ run'.at = "look"
    BY <1>5, <2>1 DEF Start, Run, Step
  <2> QED
    BY <1>2, <1>5, <2>2 DEF Start, Restart, SweepTypeOK
<1>6. ASSUME Present PROVE Goal
  <2>1. run' \in Run /\ run'.at = "look"
    BY <1>6, CaptureType, FiledType DEF Present, Readable, Manifest, Status
  <2> QED
    BY <1>2, <1>4, <1>6, <2>1 DEF Present, vars, bundleVars, SweepTypeOK
<1>7. ASSUME Missing PROVE Goal
  BY <1>2, <1>3, <1>4, <1>7 DEF Missing, Step, vars, bundleVars, SweepTypeOK
<1>8. ASSUME Spawn PROVE Goal
  BY <1>2, <1>3, <1>8 DEF Spawn, Restart, Step, UnderWay, SweepTypeOK
<1>9. ASSUME Opened PROVE Goal
  BY <1>2, <1>3, <1>4, <1>9 DEF Opened, Step, UnderWay, bundleVars, SweepTypeOK
<1>10. ASSUME Refused PROVE Goal
  BY <1>2, <1>3, <1>4, <1>10 DEF Refused, Step, UnderWay, bundleVars, SweepTypeOK
<1>11. ASSUME Dumps PROVE Goal
  <2>1. run' \in Run /\ run'.at = "dumping" /\ run'.next = run.next
    BY <1>3, <1>11 DEF Dumps, Step
  <2> QED
    BY <1>0, <1>11, <2>1 DEF Dumps, OneDump, UnderWay, SweepTypeOK
<1>12. ASSUME DumpRefused PROVE Goal
  BY <1>2, <1>3, <1>4, <1>12 DEF DumpRefused, AfterFailure, Step, UnderWay, vars, bundleVars,
                                 SweepTypeOK
<1>13. ASSUME Dumping PROVE Goal
  <2>1. CASE dump' = NoDump
    BY <1>2, <1>3, <1>13, <2>1 DEF Dumping, Step, UnderWay, SweepTypeOK
  <2>2. CASE dump' # NoDump
    BY <1>0, <1>3, <1>13, <2>2 DEF Dumping, OneDump, UnderWay, SweepTypeOK
  <2> QED
    BY <2>1, <2>2
<1>14. ASSUME DumpBreaks PROVE Goal
  BY <1>2, <1>3, <1>14 DEF DumpBreaks, DumpFails, AfterFailure, Step, UnderWay, SweepTypeOK
<1>15. ASSUME AnswerLost PROVE Goal
  BY <1>2, <1>3, <1>4, <1>15 DEF AnswerLost, Step, UnderWay, vars, bundleVars, SweepTypeOK
<1>16. ASSUME LineAnswers PROVE Goal
  <2>1. texts' \in [Dir -> [Name -> Transcript \cup {NoText}]]
    <3>1. run.lines \in Seq(Line) /\ run.line \in 1 .. Len(run.lines)
      <4>0. run \in Run
        BY <1>3, <1>16 DEF LineAnswers
      <4>1. run.lines \in Lists /\ run.line \in Nat \ {0}
        BY ONLY <4>0 DEF Run
      <4>2. run.line <= Len(run.lines)
        BY <1>16 DEF LineAnswers
      <4>3. run.lines \in Seq(Line)
        BY <4>1, SweepAssumption
      <4>4. Len(run.lines) \in Nat
        BY <4>3
      <4> QED
        BY <4>1, <4>2, <4>3, <4>4
    <3>2. Line1 \in Line /\ NameOf[Line1] \in Name
      BY <3>1 DEF Line1
    <3>3. Bundle1 \in Dir /\ [cap |-> holds[Path1], line |-> Line1] \in Transcript
      BY <1>16, <3>2, CaptureType DEF LineAnswers, UnderWay, Transcript
    <3> DEFINE said == [cap |-> holds[Path1], line |-> Line1]
    <3>4. texts' = texts \/ texts' = [texts EXCEPT ![Bundle1][NameOf[Line1]] = said]
      BY <1>16 DEF LineAnswers
    <3>5. said \in Transcript /\ texts \in [Dir -> [Name -> Transcript \cup {NoText}]]
      BY <3>3 DEF SweepTypeOK
    <3> HIDE DEF said
    <3>6. texts[Bundle1] \in [Name -> Transcript \cup {NoText}]
      BY <3>3, <3>5
    <3>7. [texts[Bundle1] EXCEPT ![NameOf[Line1]] = said] \in [Name -> Transcript \cup {NoText}]
      BY <3>5, <3>6
    <3> QED
      BY <3>3, <3>4, <3>5, <3>7
  <2>2. run' \in Run /\ run'.at = "lines" /\ run'.next = run.next
    BY <1>3, <1>16 DEF LineAnswers, Step
  <2> QED
    BY <1>2, <1>4, <1>16, <2>1, <2>2 DEF LineAnswers, UnderWay, bundleVars, SweepTypeOK
<1>17. ASSUME LineFails PROVE Goal
  <2>1. run' \in Run /\ run'.at \in {"lines", "close"} /\ run'.next = run.next
    BY <1>3, <1>17 DEF LineFails, Step
  <2> QED
    BY <1>2, <1>4, <1>17, <2>1 DEF LineFails, UnderWay, bundleVars, SweepTypeOK
<1>18. ASSUME LinesDone PROVE Goal
  BY <1>2, <1>3, <1>4, <1>18 DEF LinesDone, Step, UnderWay, vars, bundleVars, SweepTypeOK
<1>19. ASSUME Closes PROVE Goal
  <2>1. dump' = NoDump
    BY <1>4, <1>19 DEF Closes, Restart, bundleVars
  <2> QED
    BY <1>2, <1>3, <1>19, <2>1 DEF Closes, Step, UnderWay, SweepTypeOK
<1>20. ASSUME Splits PROVE Goal
  <2>1. run' \in Run /\ run'.at = "judge" /\ run'.next = run.next
    BY <1>3, <1>20 DEF Splits, Step
  <2> QED
    BY <1>2, <1>4, <1>20, <2>1 DEF Splits, UnderWay, vars, bundleVars, SweepTypeOK
<1>21. ASSUME run # NoRun, ChildDies PROVE Goal
  BY <1>2, <1>3, <1>21 DEF ChildDies, Restart, Step, UnderWay, SweepTypeOK
<1>22. ASSUME Judge PROVE Goal
  <2>1. run' \in Run /\ run'.at = "look"
    <3>1. run # NoRun /\ run.next <= Len(Folders) /\ run.cause \in BOOLEAN
      BY <1>3, <1>22 DEF Judge, UnderWay, Run
    <3>2. Readable(Bundle1) => dir[Bundle1].manifest.cap \in Capture
      BY DEF Readable, Manifest
    <3> QED
      BY ZenonT(40), <1>22, <3>1, <3>2, FiledType DEF Judge, Status
  <2> QED
    BY <1>2, <1>4, <1>22, <2>1 DEF Judge, vars, bundleVars, SweepTypeOK
<1>23. ASSUME IndexOpened PROVE Goal
  BY <1>2, <1>3, <1>4, <1>23 DEF IndexOpened, Step, vars, bundleVars, SweepTypeOK
<1>24. ASSUME IndexWritten PROVE Goal
  <2>1. run.rows \in Rows
    BY <1>3, <1>24 DEF IndexWritten, Run
  <2> QED
    BY <1>1, <1>24, <2>1 DEF IndexWritten, Restart, SweepTypeOK
<1>25. ASSUME Killed PROVE Goal
  BY <1>1, <1>25 DEF Killed, Restart, SweepTypeOK
<1>26. ASSUME NEW p \in Path, Recapture(p) PROVE Goal
  BY <1>1, <1>26 DEF Recapture, OneDump, vars, bundleVars, SweepTypeOK
<1>27. CASE UNCHANGED allVars
  BY <1>0, <1>27 DEF allVars, sweepVars, vars, bundleVars, OneDump, UnderWay, SweepTypeOK
<1> QED
  BY <1>5, <1>6, <1>7, <1>8, <1>9, <1>10, <1>11, <1>12, <1>13, <1>14, <1>15, <1>16, <1>17,
     <1>18, <1>19, <1>20, <1>21, <1>22, <1>23, <1>24, <1>25, <1>26, <1>27 DEF SweepNext

LEMMA SweepInitInv == SweepInit => SweepInv
BY InitType, SweepAssumption
   DEF SweepInit, BundleInit, SweepInv, SweepTypeOK, OneDump, UnderWay

(* Types hold of every run of every sweep, interrupted or not.               *)
THEOREM SweepTypeCorrect == SweepSpec => [](SweepTypeOK /\ SweepInv)
<1>1. SweepInv => SweepTypeOK
  BY DEF SweepInv
<1> QED
  BY <1>1, SweepInitInv, SweepStep, PTL DEF SweepSpec

(* A sweep implements the client of Bundle: what Bundle promises any client, *)
(* the bundles under `--out` have.                                           *)
THEOREM SweepIsAClient == SweepSpec => Spec
<1>1. SweepInit => BundleInit
  BY DEF SweepInit
<1> QED
  BY <1>1, ClientStep, SweepTypeCorrect, PTL DEF SweepSpec, Spec

(* So the bundles of any sequence of sweeps, killed anywhere, are whole when *)
(* their manifest can be read, and those the executable wrote are their own. *)
THEOREM SweptBundlesAreWhole ==
    SweepSpec => [](ManifestMeansWhole /\ OneFramePerBundle /\ ExeMarkersOwn)
BY SweepIsAClient, ManifestsAreEvidence, ExeSheetsNameTheirOwn, PTL

-----------------------------------------------------------------------------
(* What a sweep says is so: it holds one device at a time, lists the ids of  *)
(* engines nothing had moved, and its rows are those of the disk.            *)

(* The steps between opening a capture's session and closing it.             *)
Working == run # NoRun /\ run.at \in {"dump", "dumping", "lines", "close"}

(* One session while a capture is worked on, that capture's, and none else.  *)
OneSession ==
    /\ OneDevice
    /\ ~Working => \A h \in Handle : session[h] = Closed
    /\ Working => \A h \in Handle : session[h] # Closed => session[h] = holds[Path1]

-----------------------------------------------------------------------------
(* How a step changes the record of the run, field by field.                 *)
LEMMA RunFields ==
    ASSUME run \in Run, NEW s \in Step
    PROVE  /\ Goto(s) =>
                /\ run' # NoRun /\ run'.at = s /\ run'.failed = run.failed
                /\ UNCHANGED <<run.next, run.rows, run.library, run.lines, run.line>>
           /\ Fails(s) =>
                /\ run' # NoRun /\ run'.at = s /\ run'.failed
                /\ UNCHANGED <<run.next, run.rows, run.library, run.lines, run.line>>
<1>1. ASSUME Goto(s)
      PROVE  /\ run' \in Run /\ run'.at = s /\ run'.failed = run.failed
             /\ UNCHANGED <<run.next, run.rows, run.library, run.lines, run.line>>
  BY <1>1 DEF Goto, Run
<1>2. ASSUME Fails(s)
      PROVE  /\ run' \in Run /\ run'.at = s /\ run'.failed
             /\ UNCHANGED <<run.next, run.rows, run.library, run.lines, run.line>>
  BY <1>2 DEF Fails, Run
<1> QED
  BY <1>1, <1>2, SweepAssumption

(* ... when a line is done with.                                             *)
LEMMA LineFields ==
    ASSUME run \in Run
    PROVE  /\ run' = [run EXCEPT !.line = @ + 1] =>
                /\ run' # NoRun /\ run'.failed = run.failed /\ run'.line = run.line + 1
                /\ UNCHANGED <<run.at, run.next, run.rows, run.library, run.lines>>
           /\ run' = [run EXCEPT !.line = @ + 1, !.failed = TRUE, !.cause = TRUE] =>
                /\ run' # NoRun /\ run'.failed
                /\ UNCHANGED <<run.at, run.next, run.rows, run.library, run.lines>>
<1>1. ASSUME run' = [run EXCEPT !.line = @ + 1]
      PROVE  /\ run' \in Run /\ run'.failed = run.failed /\ run'.line = run.line + 1
             /\ UNCHANGED <<run.at, run.next, run.rows, run.library, run.lines>>
  BY <1>1 DEF Run
<1>2. ASSUME run' = [run EXCEPT !.line = @ + 1, !.failed = TRUE, !.cause = TRUE]
      PROVE  /\ run' \in Run /\ run'.failed
             /\ UNCHANGED <<run.at, run.next, run.rows, run.library, run.lines>>
  <2>1. run' \in Run
    <3>1. \A s \in Step, f, c \in BOOLEAN :
            run' = [run EXCEPT !.line = @ + 1, !.failed = f, !.cause = c] => run' \in Run
      BY RunType
    <3> QED
      BY <1>2, <3>1 DEF Step
  <2> QED
    BY <1>2, <2>1 DEF Run
<1> QED
  BY <1>1, <1>2, SweepAssumption

LEMMA FiledFields ==
    ASSUME SweepInv, run # NoRun, run.next <= Len(Folders),
           NEW status \in Status, NEW sha \in Capture \cup {NoCapture}, NEW cause \in BOOLEAN,
           Filed(status, sha, cause)
    PROVE  /\ run' # NoRun /\ run'.at = "look" /\ ~run'.failed /\ run'.next = run.next + 1 /\ run'.line = 1
           /\ run'.rows = [run.rows EXCEPT ![Path1] = [status |-> status, sha |-> sha, cause |-> cause]]
           /\ UNCHANGED <<run.library, run.lines>>
<1>1. run \in Run /\ run' \in Run
  BY FiledType DEF SweepInv, SweepTypeOK
<1> QED
  BY <1>1, SweepAssumption DEF Filed, Run

-----------------------------------------------------------------------------
LEMMA OneSessionStep == SweepInv /\ OneSession /\ [SweepNext]_allVars => OneSession'
<1> SUFFICES ASSUME SweepInv, OneSession, [SweepNext]_allVars PROVE OneSession'
  OBVIOUS
<1> USE DEF At
<1>0. session \in [Handle -> Session] /\ (run # NoRun => run \in Run)
  BY DEF SweepInv, SweepTypeOK, TypeOK, SessionTypeOK
<1>1. ASSUME \A h \in Handle : session'[h] = Closed PROVE OneSession'
  BY <1>1 DEF OneSession, OneDevice
<1>2. ASSUME ~Working, UNCHANGED session PROVE OneSession'
  BY <1>1, <1>2 DEF OneSession
<1>3. ASSUME Working, Working', UNCHANGED <<session, folder, run.next>> PROVE OneSession'
  BY <1>3 DEF OneSession, OneDevice, Path1
<1>4. ASSUME \/ \E library, over \in BOOLEAN, lines \in Lists : Start(library, over, lines)
             \/ Spawn \/ IndexWritten \/ Killed \/ ChildDies
      PROVE  OneSession'
  BY <1>1, <1>4 DEF Start, Spawn, IndexWritten, Killed, ChildDies, Restart, Reboot
<1>5. ASSUME \/ Present \/ Missing \/ IndexOpened \/ Splits \/ Judge \/ Refused
             \/ \E p \in Path : Recapture(p)
      PROVE  OneSession'
  BY <1>2, <1>5 DEF Present, Missing, IndexOpened, Splits, Judge, Refused, OpenFails, Recapture, Working,
                    vars, sessionVars, processVars
<1>6. ASSUME Opened PROVE OneSession'
  <2>1. PICK h \in Handle : Open(h) /\ session'[h] = holds[Path1]
    BY <1>6 DEF Opened
  <2>2. \A g \in Handle \ {h} : session'[g] = Closed
    BY <1>0, <1>6, <2>1 DEF Open, OneSession, Working, Opened
  <2>3. Working' /\ UNCHANGED <<run.next, folder>>
    BY <1>0, <1>6, RunFields DEF Opened, Working, Step
  <2> QED
    BY <2>1, <2>2, <2>3 DEF OneSession, OneDevice, Path1
<1>7. ASSUME Dumps \/ AnswerLost \/ LineAnswers \/ LineFails \/ LinesDone \/ DumpBreaks PROVE OneSession'
  <2>1. Working /\ UNCHANGED <<session, folder>>
    BY <1>7 DEF Dumps, DumpBegin, AnswerLost, LineAnswers, LineFails, LinesDone, DumpBreaks, DumpFails, Look,
                Working, vars, sessionVars, processVars
  <2>2. Working' /\ UNCHANGED run.next
    BY <1>0, <1>7, <2>1, RunFields, LineFields
       DEF Dumps, AnswerLost, LineAnswers, LineFails, LinesDone, DumpBreaks, AfterFailure, Working, Step
  <2> QED
    BY <1>3, <2>1, <2>2
<1>8. ASSUME DumpRefused PROVE OneSession'
  <2>1. Working /\ UNCHANGED <<session, folder>>
    BY <1>8 DEF DumpRefused, Working, vars, sessionVars, processVars
  <2>2. run' \in Run /\ run'.at \in {"close", "lines"} /\ UNCHANGED run.next
    BY <1>0, <1>8, <2>1 DEF DumpRefused, AfterFailure, Working, Run, Step
  <2> QED
    BY <1>3, <2>1, <2>2, SweepAssumption DEF Working
<1>9. ASSUME Dumping PROVE OneSession'
  <2>1. Working /\ UNCHANGED <<session, folder>>
    BY <1>9 DEF Dumping, DumpStep, DumpIds, DumpEvents, DumpListing, DumpResources, DumpDescribing,
                DumpManifest, DumpHashing, Working, sessionVars, processVars
  <2>2. Working' /\ UNCHANGED run.next
    BY <1>0, <1>9, <2>1, RunFields DEF Dumping, Working, Step
  <2> QED
    BY <1>3, <2>1, <2>2
<1>10. ASSUME Closes PROVE OneSession'
  <2>1. ASSUME NEW h \in Handle, Close(h) PROVE \A g \in Handle : session'[g] = Closed
    BY <1>0, <2>1 DEF Close, OneSession, OneDevice
  <2> QED
    BY <1>1, <1>10, <2>1 DEF Closes, Restart, Reboot
<1>11. CASE UNCHANGED allVars
  BY <1>11 DEF allVars, vars, sessionVars, processVars, sweepVars, OneSession, OneDevice, Working, Path1
<1> QED
  BY <1>4, <1>5, <1>6, <1>7, <1>8, <1>9, <1>10, <1>11 DEF SweepNext

(* "Two sessions at once on one GPU is the thing the driver's own            *)
(* documentation warns about": no sweep ever holds two (rdc_replay.py:213).  *)
THEOREM SweepsHoldOneDevice == SweepSpec => []OneDevice
<1>1. SweepInit => OneSession
  BY DEF SweepInit, BundleInit, SessionInit, Cold, OneSession, OneDevice, Working
<1>2. OneSession => OneDevice
  BY DEF OneSession
<1> QED
  BY <1>1, <1>2, OneSessionStep, SweepTypeCorrect, PTL DEF SweepSpec

-----------------------------------------------------------------------------
(* A dump of a sweep starts on an engine nothing has moved; the ids it goes  *)
(* on with are a cold engine's, cached or not.                               *)
ColdIds ==
    /\ At("dump") => \A h \in Handle : session[h] # Closed => engine[h] = "still"
    /\ dump # NoDump => IF dump.at = "ids" THEN engine[dump.by] = "still" ELSE dump.ids = "cold"
    /\ SweptIdsCold

LEMMA DumpColdStep ==
    ASSUME TypeOK, ColdIds, DumpStep
    PROVE  /\ dump' # NoDump => dump'.at # "ids" /\ dump'.ids = "cold"
           /\ SweptIdsCold'
<1> USE BundleAssumption
<1>0. /\ dump # NoDump /\ dump \in Dump /\ dump.into \in Dir /\ dump.by \in Handle /\ Source \in Capture
      /\ dir \in [Dir -> Folder] /\ sweeps \in [Capture -> Ids \cup {NoIds}]
  BY DEF TypeOK, Dump, DumpStep, DumpIds, DumpEvents, DumpListing, DumpResources, DumpDescribing, DumpManifest,
         DumpHashing
<1>1. ASSUME DumpIds PROVE dump'.at = "events" /\ dump'.ids = "cold" /\ SweptIdsCold'
  <2>1. dump.at = "ids" /\ engine[dump.by] = "still" /\ UNCHANGED dir
    BY <1>0, <1>1 DEF DumpIds, ColdIds
  <2>2. ASSUME IdsCached PROVE dump'.at = "events" /\ dump'.ids = "cold" /\ UNCHANGED sweeps
    <3>1. sweeps[Source] = "cold"
      BY <1>0, <2>2 DEF IdsCached, ColdIds, SweptIdsCold, Ids
    <3> QED
      BY <1>0, <2>2, <3>1 DEF IdsCached, Dump
  <2>3. ASSUME IdsScanned
        PROVE  /\ dump'.at = "events" /\ dump'.ids = "cold"
               /\ sweeps' = sweeps \/ sweeps' = [sweeps EXCEPT ![Source] = "cold"]
    <3>1. Scanned = "cold"
      BY <2>1 DEF Scanned, Fresh
    <3> QED
      BY <1>0, <2>3, <3>1 DEF IdsScanned, Dump
  <2> QED
    BY <1>0, <1>1, <2>1, <2>2, <2>3 DEF DumpIds, ColdIds, SweptIdsCold
<1>2. ASSUME DumpListing PROVE dump'.at # "ids" /\ dump'.ids = "cold" /\ SweptIdsCold'
  <2>1. dump'.at = "resources" /\ dump'.ids = "cold" /\ dump.ids = "cold" /\ UNCHANGED sweeps
    BY <1>0, <1>2 DEF DumpListing, ColdIds, Dump
  <2>2. \A b \in Dir : \/ dir'[b].events = dir[b].events
                       \/ dir'[b].events.ids = "cold"
    BY <1>0, <1>2, <2>1 DEF DumpListing, Folder
  <2> QED
    BY <2>1, <2>2 DEF ColdIds, SweptIdsCold
<1>3. ASSUME DumpEvents PROVE dump'.at # "ids" /\ dump'.ids = "cold" /\ SweptIdsCold'
  <2>1. dump'.at = "listing" /\ dump'.ids = "cold" /\ UNCHANGED sweeps
    BY <1>0, <1>3 DEF DumpEvents, ColdIds, Dump
  <2>2. \A b \in Dir : dir'[b].events = dir[b].events \/ dir'[b].events = Torn
    BY <1>0, <1>3 DEF DumpEvents, Folder
  <2> QED
    BY <2>1, <2>2 DEF ColdIds, SweptIdsCold
<1>4. ASSUME DumpResources \/ DumpDescribing \/ DumpManifest
      PROVE  dump'.at # "ids" /\ dump'.ids = "cold" /\ SweptIdsCold'
  <2>1. dump'.at # "ids" /\ dump'.ids = "cold" /\ UNCHANGED sweeps
    BY <1>0, <1>4 DEF DumpResources, DumpDescribing, DumpManifest, ColdIds, Dump
  <2>2. \A b \in Dir : dir'[b].events = dir[b].events
    BY <1>0, <1>4 DEF DumpResources, DumpDescribing, DumpManifest, Folder
  <2> QED
    BY <2>1, <2>2 DEF ColdIds, SweptIdsCold
<1>5. ASSUME DumpHashing PROVE dump' = NoDump /\ SweptIdsCold'
  <2>1. \A b \in Dir : dir'[b].events = dir[b].events
    BY <1>0, <1>5 DEF DumpHashing, Folder
  <2> QED
    BY <1>5, <2>1 DEF DumpHashing, ColdIds, SweptIdsCold
<1> QED
  BY <1>1, <1>2, <1>3, <1>4, <1>5 DEF DumpStep

LEMMA ColdIdsStep == SweepInv /\ OneSession /\ ColdIds /\ [SweepNext]_allVars => ColdIds'
<1> SUFFICES ASSUME SweepInv, OneSession, ColdIds, [SweepNext]_allVars PROVE ColdIds'
  OBVIOUS
<1> USE DEF At
<1>0. /\ TypeOK /\ engine \in [Handle -> Engine] /\ dir \in [Dir -> Folder]
      /\ run # NoRun => run \in Run
      /\ run # NoRun /\ run.at # "dumping" => dump = NoDump
  BY DEF SweepInv, SweepTypeOK, TypeOK, SessionTypeOK, OneDump
<1>1. ASSUME ~At("dump")', dump' = NoDump, UNCHANGED <<sweeps, dir>> PROVE ColdIds'
  BY <1>1 DEF ColdIds, SweptIdsCold
<1>2. ASSUME \/ \E library, over \in BOOLEAN, lines \in Lists : Start(library, over, lines)
             \/ Spawn \/ IndexWritten \/ Killed \/ (run # NoRun /\ ChildDies)
      PROVE  ColdIds'
  <2>1. dump' = NoDump /\ UNCHANGED <<sweeps, dir>>
    BY <1>2 DEF Start, Spawn, IndexWritten, Killed, ChildDies, Restart
  <2>2. ~At("dump")'
    BY <1>0, <1>2, RunFields DEF Start, Spawn, IndexWritten, Killed, ChildDies, Step
  <2> QED
    BY <1>1, <2>1, <2>2
<1>3. ASSUME Present \/ Judge PROVE ColdIds'
  <2>1. run # NoRun /\ run.next <= Len(Folders) /\ run.cause \in BOOLEAN
    BY <1>0, <1>3 DEF Present, Judge, SweepInv, UnderWay, Run
  <2>2. Readable(Bundle1) => dir[Bundle1].manifest.cap \in Capture
    BY DEF Readable, Manifest
  <2>3. run'.at = "look"
    BY <1>3, <2>1, <2>2, FiledFields DEF Present, Judge, Status
  <2> QED
    BY <1>0, <1>1, <1>3, <2>3 DEF Present, Judge, vars, bundleVars
<1>4. ASSUME Missing \/ IndexOpened \/ AnswerLost \/ LinesDone PROVE ColdIds'
  <2>1. ~At("dump")'
    BY <1>0, <1>4, RunFields DEF Missing, IndexOpened, AnswerLost, LinesDone, Step
  <2> QED
    BY <1>0, <1>1, <1>4, <2>1 DEF Missing, IndexOpened, AnswerLost, LinesDone, vars, bundleVars
<1>5. ASSUME Splits PROVE ColdIds'
  <2>1. ~At("dump")'
    BY <1>0, <1>5, RunFields DEF Splits, Step
  <2> QED
    BY <1>0, <1>1, <1>5, <2>1 DEF Splits, vars, bundleVars
<1>6. ASSUME DumpRefused PROVE ColdIds'
  <2>1. run'.at \in {"close", "lines"}
    BY <1>0, <1>6 DEF DumpRefused, AfterFailure, Run, Step
  <2> QED
    BY <1>0, <1>1, <1>6, <2>1 DEF DumpRefused, vars, bundleVars
<1>7. ASSUME Refused \/ LineAnswers \/ LineFails \/ Closes PROVE ColdIds'
  <2>1. ~At("dump")'
    BY <1>0, <1>7, RunFields, LineFields DEF Refused, LineAnswers, LineFails, Closes, Step
  <2>2. dump' = NoDump /\ UNCHANGED <<sweeps, dir>>
    BY <1>0, <1>7 DEF Refused, LineAnswers, LineFails, Closes, Restart, bundleVars
  <2> QED
    BY <1>1, <2>1, <2>2
<1>8. ASSUME Opened PROVE ColdIds'
  <2>1. PICK h \in Handle : Open(h)
    BY <1>8 DEF Opened
  <2>2. \A g \in Handle : session'[g] # Closed => g = h /\ engine'[g] = "still"
    BY <1>0, <1>8, <2>1 DEF Open, Opened, OneSession, Working, TypeOK, SessionTypeOK
  <2>3. dump' = NoDump /\ UNCHANGED <<sweeps, dir>>
    BY <1>0, <1>8 DEF Opened, bundleVars
  <2> QED
    BY <2>2, <2>3 DEF ColdIds, SweptIdsCold
<1>9. ASSUME Dumps PROVE ColdIds'
  <2>1. PICK h \in Handle : session[h] # Closed /\ DumpBegin(h, Bundle1, run.over)
    BY <1>9 DEF Dumps
  <2>2. dump'.at = "ids" /\ dump'.by = h /\ engine'[dump'.by] = "still" /\ UNCHANGED sweeps
    BY <1>9, <2>1 DEF Dumps, DumpBegin, ColdIds, sessionVars, processVars
  <2>3. \A b \in Dir : dir'[b].events = dir[b].events
    BY <1>0, <2>1 DEF DumpBegin, Folder
  <2>4. ~At("dump")'
    BY <1>0, <1>9, RunFields DEF Dumps, Step
  <2> QED
    BY <2>2, <2>3, <2>4 DEF ColdIds, SweptIdsCold
<1>10. ASSUME Dumping PROVE ColdIds'
  <2>1. ~At("dump")'
    BY <1>0, <1>10, RunFields DEF Dumping, Step
  <2> QED
    BY <1>0, <1>10, <2>1, DumpColdStep DEF Dumping, ColdIds
<1>11. ASSUME DumpBreaks PROVE ColdIds'
  <2>1. ~At("dump")'
    BY <1>0, <1>11, RunFields DEF DumpBreaks, AfterFailure, Step
  <2> QED
    BY <1>1, <1>11, <2>1 DEF DumpBreaks, DumpFails
<1>12. ASSUME NEW p \in Path, Recapture(p) PROVE ColdIds'
  BY <1>12 DEF Recapture, ColdIds, SweptIdsCold, vars, sessionVars, processVars, bundleVars
<1>13. CASE UNCHANGED allVars
  BY <1>13 DEF allVars, vars, sessionVars, processVars, bundleVars, sweepVars, ColdIds, SweptIdsCold
<1> QED
  BY <1>2, <1>3, <1>4, <1>5, <1>6, <1>7, <1>8, <1>9, <1>10, <1>11, <1>12, <1>13 DEF SweepNext

(* "Which ids are events is asked before anything else touches the engine"   *)
(* (CmdDump, bundle.cpp:1010): no sweep lists or caches a moved engine's.    *)
THEOREM SweepsListColdIds == SweepSpec => []SweptIdsCold
<1>1. SweepInit => OneSession /\ ColdIds
  BY BundleAssumption
     DEF SweepInit, BundleInit, SessionInit, Cold, OneSession, OneDevice, Working, ColdIds, SweptIdsCold, Empty, Ids
<1>2. ColdIds => SweptIdsCold
  BY DEF ColdIds
<1> QED
  BY <1>1, <1>2, OneSessionStep, ColdIdsStep, SweepTypeCorrect, PTL DEF SweepSpec

-----------------------------------------------------------------------------
(* A process of the executable dumps once, the first thing it does: nothing  *)
(* has turned the buffering on before its events are written.                *)
Unbuffered ==
    /\ run # NoRun => host = IF run.library THEN "library" ELSE "exe"
    /\ At("spawn") => ~run.library
    /\ run # NoRun /\ ~run.library /\ run.at \in {"open", "dump"} => ~buffering
    /\ dump # NoDump /\ host = "exe" /\ dump.at \in {"ids", "events", "listing"} => ~buffering
    /\ \A b \in Dir : dir[b].events \in Sheet /\ dir[b].events.by = "exe" => ~dir[b].events.buffered

LEMMA DumpUnbufferedStep ==
    ASSUME TypeOK, Unbuffered, DumpStep
    PROVE  /\ UNCHANGED host
           /\ dump' # NoDump /\ host' = "exe" /\ dump'.at \in {"ids", "events", "listing"} => ~buffering'
           /\ \A b \in Dir : dir'[b].events \in Sheet /\ dir'[b].events.by = "exe" => ~dir'[b].events.buffered
<1> USE BundleAssumption
<1>0. dump # NoDump /\ dump \in Dump /\ dump.into \in Dir /\ dir \in [Dir -> Folder]
  BY DEF TypeOK, Dump, DumpStep, DumpIds, DumpEvents, DumpListing, DumpResources, DumpDescribing, DumpManifest,
         DumpHashing
<1>1. ASSUME DumpIds
      PROVE  UNCHANGED <<host, buffering, dir>> /\ dump.at = "ids"
  BY <1>1 DEF DumpIds
<1>2. ASSUME DumpEvents
      PROVE  /\ UNCHANGED <<host, buffering>> /\ dump.at = "events"
             /\ \A b \in Dir : dir'[b].events \in {dir[b].events, Torn}
  BY <1>0, <1>2 DEF DumpEvents, Folder
<1>3. ASSUME DumpListing
      PROVE  /\ UNCHANGED host /\ dump'.at = "resources" /\ dump.at = "listing"
             /\ \A b \in Dir : \/ dir'[b].events = dir[b].events
                               \/ dir'[b].events.by = host /\ dir'[b].events.buffered = buffering
  BY <1>0, <1>3 DEF DumpListing, Dump, Folder
<1>4. ASSUME DumpResources \/ DumpDescribing \/ DumpManifest \/ DumpHashing
      PROVE  /\ UNCHANGED host
             /\ dump' # NoDump => dump'.at \notin {"ids", "events", "listing"}
             /\ \A b \in Dir : dir'[b].events = dir[b].events
  <2>1. UNCHANGED host
    BY <1>4 DEF DumpResources, DumpDescribing, DumpManifest, DumpHashing, sessionVars, processVars
  <2>2. dump' # NoDump => dump'.at \notin {"ids", "events", "listing"}
    BY <1>0, <1>4 DEF DumpResources, DumpDescribing, DumpManifest, DumpHashing, Dump
  <2>3. \A b \in Dir : dir'[b].events = dir[b].events
    BY <1>0, <1>4 DEF DumpResources, DumpDescribing, DumpManifest, DumpHashing, Folder
  <2> QED
    BY <2>1, <2>2, <2>3
<1>a. Torn \notin Sheet
  BY DEF BundleAssumption
<1>b. CASE DumpIds
  BY <1>b, <1>0, <1>1 DEF Unbuffered
<1>c. CASE DumpEvents
  BY <1>c, <1>0, <1>a, <1>2 DEF Unbuffered
<1>d. CASE DumpListing
  BY <1>d, <1>0, <1>3 DEF Unbuffered
<1>e. CASE DumpResources \/ DumpDescribing \/ DumpManifest \/ DumpHashing
  BY <1>e, <1>0, <1>4 DEF Unbuffered
<1> QED
  BY <1>b, <1>c, <1>d, <1>e DEF DumpStep

LEMMA UnbufferedStep == SweepInv /\ Unbuffered /\ [SweepNext]_allVars => Unbuffered'
<1> SUFFICES ASSUME SweepInv, Unbuffered, [SweepNext]_allVars PROVE Unbuffered'
  OBVIOUS
<1> USE DEF At
<1>0. /\ TypeOK /\ dir \in [Dir -> Folder]
      /\ run # NoRun => run \in Run
      /\ run # NoRun /\ run.at # "dumping" => dump = NoDump
  BY DEF SweepInv, SweepTypeOK, TypeOK, OneDump
<1>1. ASSUME run # NoRun, run' # NoRun, run'.library = run.library, run'.at \notin {"spawn", "open", "dump"},
             dump' = NoDump, UNCHANGED dir, host' = host \/ (host' = "exe" /\ ~run.library)
      PROVE  Unbuffered'
  BY <1>1 DEF Unbuffered
<1>2. ASSUME NEW library \in BOOLEAN, NEW over \in BOOLEAN, NEW lines \in Lists,
             Start(library, over, lines)
      PROVE  Unbuffered'
  BY <1>2 DEF Start, Restart, Unbuffered
<1>3. ASSUME IndexWritten \/ Killed PROVE Unbuffered'
  BY <1>3 DEF IndexWritten, Killed, Restart, Unbuffered
<1>4. ASSUME Spawn PROVE Unbuffered'
  <2>1. run'.at = "open" /\ run'.library = run.library /\ ~run.library
    BY <1>0, <1>4, RunFields DEF Spawn, Unbuffered, Step
  <2> QED
    BY <1>4, <2>1 DEF Spawn, Restart, Unbuffered
<1>5. ASSUME Missing PROVE Unbuffered'
  <2>1. /\ run' # NoRun /\ run'.library = run.library /\ dump' = NoDump /\ UNCHANGED <<host, dir>>
        /\ run'.at = IF run.library THEN "open" ELSE "spawn"
    BY <1>0, <1>5, RunFields DEF Missing, Step, vars, sessionVars, processVars, bundleVars
  <2> QED
    BY <1>5, <2>1 DEF Missing, Unbuffered
<1>6. ASSUME Present \/ Judge PROVE Unbuffered'
  <2>1. run # NoRun /\ run.next <= Len(Folders) /\ run.cause \in BOOLEAN
    BY <1>0, <1>6 DEF Present, Judge, SweepInv, UnderWay, Run
  <2>2. Readable(Bundle1) => dir[Bundle1].manifest.cap \in Capture
    BY DEF Readable, Manifest
  <2>3. run' # NoRun /\ run'.at = "look" /\ run'.library = run.library
    BY <1>6, <2>1, <2>2, FiledFields DEF Present, Judge, Status
  <2> QED
    BY <1>0, <1>1, <1>6, <2>1, <2>3 DEF Present, Judge, vars, sessionVars, processVars, bundleVars
<1>7. ASSUME IndexOpened \/ AnswerLost \/ LinesDone PROVE Unbuffered'
  <2>1. run # NoRun /\ run' # NoRun /\ run'.library = run.library /\ run'.at \in {"writing", "close"}
    BY <1>0, <1>7, RunFields DEF IndexOpened, AnswerLost, LinesDone, Step
  <2> QED
    BY <1>0, <1>1, <1>7, <2>1 DEF IndexOpened, AnswerLost, LinesDone, vars, sessionVars, processVars, bundleVars
<1>8. ASSUME Splits PROVE Unbuffered'
  <2>1. run' # NoRun /\ run'.at = "judge" /\ run'.library = run.library
    BY <1>0, <1>8, RunFields DEF Splits, Step
  <2> QED
    BY <1>0, <1>1, <1>8, <2>1 DEF Splits, vars, sessionVars, processVars, bundleVars
<1>9. ASSUME DumpRefused PROVE Unbuffered'
  <2>1. run' \in Run /\ run'.at \in {"close", "lines"} /\ run'.library = run.library
    BY <1>0, <1>9 DEF DumpRefused, AfterFailure, Run, Step
  <2> QED
    BY <1>0, <1>1, <1>9, <2>1, SweepAssumption DEF DumpRefused, vars, sessionVars, processVars, bundleVars
<1>10. ASSUME Refused \/ LineAnswers \/ LineFails \/ Closes \/ DumpBreaks \/ (run # NoRun /\ ChildDies)
       PROVE  Unbuffered'
  <2>1. run # NoRun /\ run' # NoRun /\ run'.library = run.library /\ run'.at \notin {"spawn", "open", "dump"}
    BY <1>0, <1>10, RunFields, LineFields
       DEF Refused, LineAnswers, LineFails, Closes, DumpBreaks, ChildDies, AfterFailure, Step
  <2>2. dump' = NoDump /\ UNCHANGED dir
    BY <1>0, <1>10
       DEF Refused, LineAnswers, LineFails, Closes, DumpBreaks, DumpFails, ChildDies, Restart, bundleVars
  <2>3. host' = host \/ (host' = "exe" /\ ~run.library)
    BY <1>10 DEF Refused, OpenFails, LineAnswers, LineFails, Look, Closes, Close, DumpBreaks, DumpFails, ChildDies
  <2> QED
    BY <1>1, <2>1, <2>2, <2>3
<1>11. ASSUME Opened PROVE Unbuffered'
  <2>1. /\ run' # NoRun /\ run'.at = "dump" /\ run'.library = run.library
        /\ dump' = NoDump /\ UNCHANGED <<host, buffering, dir>>
    BY <1>0, <1>11, RunFields DEF Opened, Open, Step, bundleVars
  <2> QED
    BY <1>11, <2>1 DEF Opened, Unbuffered
<1>12. ASSUME Dumps PROVE Unbuffered'
  <2>1. PICK h \in Handle : DumpBegin(h, Bundle1, run.over)
    BY <1>12 DEF Dumps
  <2>2. run' # NoRun /\ run'.at = "dumping" /\ run'.library = run.library
    BY <1>0, <1>12, RunFields DEF Dumps, Step
  <2>3. UNCHANGED <<host, buffering>> /\ \A b \in Dir : dir'[b].events = dir[b].events
    BY <1>0, <2>1 DEF DumpBegin, Folder, sessionVars, processVars
  <2> QED
    BY <1>12, <2>2, <2>3 DEF Dumps, Unbuffered
<1>13. ASSUME Dumping PROVE Unbuffered'
  <2>1. run # NoRun /\ run' # NoRun /\ run'.at \in {"dumping", "lines"} /\ run'.library = run.library
    BY <1>0, <1>13, RunFields DEF Dumping, Step
  <2> QED
    BY <1>0, <1>13, <2>1, DumpUnbufferedStep DEF Dumping, Unbuffered
<1>14. ASSUME NEW p \in Path, Recapture(p) PROVE Unbuffered'
  BY <1>14 DEF Recapture, Unbuffered, vars, sessionVars, processVars, bundleVars
<1>15. CASE UNCHANGED allVars
  BY <1>15 DEF allVars, vars, sessionVars, processVars, bundleVars, sweepVars, Unbuffered
<1> QED
  BY <1>2, <1>3, <1>4, <1>5, <1>6, <1>7, <1>8, <1>9, <1>10, <1>11, <1>12, <1>13, <1>14, <1>15 DEF SweepNext

(* A bundle a sweep makes by the executable is the one `dump` would write:   *)
(* its own markers, its events written before any document was buffered.     *)
THEOREM ExeSheetsAreDumps == SweepSpec => []ExeSheetsTrue
<1>1. SweepInit => Unbuffered
  BY BundleAssumption DEF SweepInit, BundleInit, Unbuffered, At, Empty
<1>2. Unbuffered /\ ExeMarkersOwn => ExeSheetsTrue
  BY DEF Unbuffered, ExeMarkersOwn, ExeSheetsTrue
<1> QED
  BY <1>1, <1>2, UnbufferedStep, SweepTypeCorrect, SweptBundlesAreWhole, PTL DEF SweepSpec

-----------------------------------------------------------------------------
(* No row is made ahead of its turn, a dump writes into the bundle of the    *)
(* capture whose turn it is, and while nothing of that capture failed its    *)
(* bundle is whole from the end of the dump to the row.                      *)
Answered ==
    run # NoRun /\ ~run.failed /\ run.at \in {"lines", "close", "split", "judge"} =>
        Verifies(Bundle1) /\ dir[Bundle1].manifest.cap = holds[Path1]

RowsInv ==
    /\ run # NoRun => \A j \in 1 .. Len(Folders) : j >= run.next => run.rows[Folders[j]] = NoRow
    /\ dump # NoDump => dump.into = Bundle1
    /\ Answered
    /\ RowsMatchDisk

(* A row that no later capture's turn concerns is of another bundle than the *)
(* capture's whose turn it is.                                               *)
LEMMA OthersBundle ==
    ASSUME SweepInv, RowsInv, run # NoRun, run.next <= Len(Folders),
           NEW p \in Path, run.rows[p] # NoRow, Latest(p)
    PROVE  keyOf[p] # Bundle1
<1>1. run.next \in 1 .. Len(Folders) /\ Len(Folders) \in Nat
  BY SweepAssumption DEF SweepInv, SweepTypeOK, Run
<1>2. PICK i \in 1 .. Len(Folders) : Folders[i] = p
  BY SweepAssumption
<1>3. i < run.next
  BY <1>1, <1>2 DEF RowsInv
<1> QED
  BY <1>1, <1>2, <1>3 DEF Latest, Bundle1, Path1

(* A step on the way to a capture's row touches no bundle that has one.      *)
LEMMA OnTheWay ==
    ASSUME SweepInv, RowsInv, run # NoRun, run' # NoRun,
           UNCHANGED <<run.next, run.rows, folder>>,
           \A b \in Dir : dir'[b] = dir[b] \/ (run.next <= Len(Folders) /\ b = Bundle1),
           dump' # NoDump => dump'.into = Bundle1,
           Answered'
    PROVE  RowsInv'
<1>1. UNCHANGED <<Path1, Bundle1>>
  BY DEF Path1, Bundle1
<1>2. ASSUME NEW p \in Path, run.rows[p] # NoRow, Latest(p) PROVE dir'[keyOf[p]] = dir[keyOf[p]]
  <2>1. keyOf[p] \in Dir
    BY DEF SweepInv, SweepTypeOK
  <2> QED
    BY <1>2, <2>1, OthersBundle
<1>3. \A p \in Path : Latest(p)' = Latest(p)
  BY DEF Latest
<1>4. RowsMatchDisk'
  BY <1>2, <1>3 DEF RowsInv, RowsMatchDisk, Verifies, Readable
<1> QED
  BY <1>1, <1>4 DEF RowsInv

(* A row that is true of the bundle as it is.                                *)
LEMMA RowFiled ==
    ASSUME SweepInv, RowsInv, run # NoRun, run.next <= Len(Folders), dump = NoDump,
           UNCHANGED <<dir, dump, folder>>,
           NEW status \in Status, NEW sha \in Capture \cup {NoCapture}, NEW cause \in BOOLEAN,
           Filed(status, sha, cause),
           status = "swept" => Verifies(Bundle1) /\ sha = holds[Path1],
           status = "present" => Verifies(Bundle1) \/ dir[Bundle1].replacing,
           status # "failed" => sha = dir[Bundle1].manifest.cap
    PROVE  RowsInv'
<1> DEFINE row == [status |-> status, sha |-> sha, cause |-> cause]
<1>1. /\ run' # NoRun /\ run'.at = "look" /\ run'.next = run.next + 1
      /\ run'.rows = [run.rows EXCEPT ![Path1] = row]
  <2>1. run \in Run /\ run' \in Run
    BY FiledType DEF SweepInv, SweepTypeOK
  <2> QED
    BY <2>1, SweepAssumption DEF Filed, Run
<1>2. run.rows \in Rows /\ run.next \in 1 .. Len(Folders) + 1 /\ Path1 \in Path
  BY CaptureType DEF SweepInv, SweepTypeOK, Run
<1>3. \A p \in Path : run'.rows[p] = IF p = Path1 THEN row ELSE run.rows[p]
  BY <1>1, <1>2 DEF Rows
<1>4. Answered' /\ dump' = NoDump
  BY <1>1 DEF Answered
<1>5. ASSUME NEW j \in 1 .. Len(Folders), j >= run'.next PROVE run'.rows[Folders[j]] = NoRow
  <2>1. j >= run.next /\ Folders[j] \in Path /\ Folders[j] # Path1
    <3>1. Len(Folders) \in Nat /\ run.next \in 1 .. Len(Folders)
      <4>1. Len(Folders) \in Nat
        BY SweepAssumption
      <4> QED
        BY <1>2, <4>1
    <3>2. j >= run.next /\ j # run.next
      <4>1. run.next \in Nat /\ j \in Nat /\ j >= run.next + 1
        BY <1>1, <1>5, <3>1
      <4> QED
        BY <4>1
    <3> QED
      BY <3>1, <3>2, SweepAssumption DEF Path1
  <2> QED
    BY <1>3, <2>1 DEF RowsInv
<1>6. RowsMatchDisk'
  <2> SUFFICES ASSUME NEW p \in Path, run'.rows[p] # NoRow
               PROVE  LET r == run'.rows[p]  b == keyOf[p] IN
                      /\ r.status = "swept" => r.sha = holds[p]
                      /\ Latest(p)' =>
                           /\ r.status = "swept" => Verifies(b)'
                           /\ r.status = "present" => Verifies(b)' \/ dir[b].replacing
                           /\ r.status # "failed" => r.sha = dir[b].manifest.cap
    BY DEF RowsMatchDisk
  <2>1. \A b \in Dir : Verifies(b)' = Verifies(b)
    BY DEF Verifies, Readable
  <2>2. keyOf[p] \in Dir
    BY DEF SweepInv, SweepTypeOK
  <2>3. CASE p = Path1
    BY <1>3, <2>1, <2>2, <2>3 DEF Bundle1
  <2>4. CASE p # Path1
    <3>1. Latest(p)' => Latest(p)
      <4>1. \A j \in 1 .. Len(Folders) : j <= run.next => j <= run'.next
        <5>1. Len(Folders) \in Nat /\ run.next \in Nat
          BY <1>2, SweepAssumption
        <5> QED
          BY <1>1, <5>1
      <4> QED
        BY <4>1 DEF Latest
    <3> QED
      BY <1>3, <2>1, <2>2, <2>4, <3>1 DEF RowsInv, RowsMatchDisk
  <2> QED
    BY <2>3, <2>4
<1> QED
  BY <1>4, <1>5, <1>6 DEF RowsInv

(* The dump of a capture writes into its bundle and none else; the manifest  *)
(* that ends it lists what is there, and of the capture that was open.       *)
LEMMA DumpWrites ==
    ASSUME TypeOK, DumpInv, DumpStep
    PROVE  /\ dump # NoDump /\ dump.into \in Dir /\ dump.by \in Handle /\ Source \in Capture
           /\ \A b \in Dir : b # dump.into => dir'[b] = dir[b]
           /\ dump' # NoDump => dump'.into = dump.into
           /\ dump' = NoDump =>
                \A b \in Dir : b = dump.into => Verifies(b)' /\ dir'[b].manifest.cap = Source
<1> USE BundleAssumption
<1>0. /\ dump # NoDump /\ dump \in Dump /\ dump.into \in Dir /\ dump.by \in Handle /\ Source \in Capture
      /\ dir \in [Dir -> Folder]
  BY DEF TypeOK, Dump, DumpStep, DumpIds, DumpEvents, DumpListing, DumpResources, DumpDescribing, DumpManifest,
         DumpHashing
<1>1. ASSUME DumpIds \/ DumpEvents \/ DumpListing \/ DumpResources \/ DumpDescribing \/ DumpManifest
      PROVE  dump' \in Dump /\ dump'.into = dump.into /\ \A b \in Dir : b # dump.into => dir'[b] = dir[b]
  <2>1. CASE DumpIds
    <3>1. dump.ids \in Ids \cup {NoIds} /\ sweeps[Source] \in Ids \cup {NoIds} /\ Scanned \in Ids
      BY <1>0 DEF TypeOK, Dump, Scanned, Ids
    <3> QED
      BY <1>0, <2>1, <3>1 DEF DumpIds, IdsCached, IdsScanned, Dump, Stage
  <2>2. CASE DumpEvents \/ DumpListing
    BY <1>0, <2>2 DEF DumpEvents, DumpListing, Dump, Stage
  <2>3. CASE DumpResources \/ DumpDescribing \/ DumpManifest
    BY <1>0, <2>3 DEF DumpResources, DumpDescribing, DumpManifest, Dump, Stage
  <2> QED
    BY <1>1, <2>1, <2>2, <2>3
<1>2. ASSUME DumpHashing
      PROVE  /\ dump' = NoDump /\ \A b \in Dir : b # dump.into => dir'[b] = dir[b]
             /\ \A b \in Dir : b = dump.into => Verifies(b)' /\ dir'[b].manifest.cap = Source
  <2>1. dir[dump.into].events \in Sheet /\ dir[dump.into].resources \in Capture
    BY <1>0, <1>2 DEF DumpHashing, DumpInv, Listed, Described
  <2> DEFINE m == [cap |-> Source, events |-> dir[dump.into].events, resources |-> dir[dump.into].resources]
  <2>2. m \in Manifest
    BY <1>0, <2>1 DEF Manifest
  <2>3. dir' = [dir EXCEPT ![dump.into].manifest = m, ![dump.into].replacing = FALSE] /\ dump' = NoDump
    BY <1>2 DEF DumpHashing
  <2>4. /\ dir'[dump.into].manifest = m /\ \A b \in Dir : b # dump.into => dir'[b] = dir[b]
        /\ dir'[dump.into].events = dir[dump.into].events /\ dir'[dump.into].resources = dir[dump.into].resources
    BY <1>0, <2>3 DEF Folder
  <2>5. m.events = dir[dump.into].events /\ m.resources = dir[dump.into].resources /\ m.cap = Source
    OBVIOUS
  <2> HIDE DEF m
  <2> QED
    BY <2>2, <2>3, <2>4, <2>5 DEF Verifies, Readable
<1> QED
  BY <1>0, <1>1, <1>2 DEF DumpStep

LEMMA RowsStep ==
    SweepInv /\ OneSession /\ ManifestMeansWhole /\ RowsInv /\ [SweepNext]_allVars => RowsInv'
<1> SUFFICES ASSUME SweepInv, OneSession, ManifestMeansWhole, RowsInv, [SweepNext]_allVars PROVE RowsInv'
  OBVIOUS
<1> USE DEF At
<1>0. /\ TypeOK /\ DumpInv
      /\ run # NoRun => run \in Run
      /\ run # NoRun /\ run.at # "dumping" => dump = NoDump
      /\ run # NoRun /\ run.at \notin {"look", "writing"} => run.next <= Len(Folders)
  BY DEF SweepInv, SweepTypeOK, OneDump, UnderWay
<1>1. ASSUME run' = NoRun, dump' = NoDump PROVE RowsInv'
  BY <1>1 DEF RowsInv, Answered, RowsMatchDisk
(* Steps that leave the bundles alone; those that fail end no dump well.     *)
<1>2. ASSUME run # NoRun, run' # NoRun, UNCHANGED <<run.next, run.rows, folder, dir>>, dump' = NoDump,
             run'.failed \/ run'.at \notin {"lines", "close", "split", "judge"}
               \/ (run'.failed = run.failed /\ run.at \in {"lines", "close", "split"})
      PROVE  RowsInv'
  <2>1. Answered'
    BY <1>2 DEF Answered, RowsInv, Path1, Bundle1, Verifies, Readable
  <2> QED
    BY <1>2, <2>1, OnTheWay
<1>3. ASSUME NEW library \in BOOLEAN, NEW over \in BOOLEAN, NEW lines \in Lists,
             Start(library, over, lines)
      PROVE  RowsInv'
  <2>1. run'.rows = Unswept /\ run'.at = "look" /\ dump' = NoDump
    BY <1>3 DEF Start, Restart
  <2>2. \A j \in 1 .. Len(Folders) : Folders[j] \in Path
    BY SweepAssumption
  <2> QED
    BY <2>1, <2>2 DEF RowsInv, Answered, RowsMatchDisk, Unswept
<1>4. ASSUME IndexWritten \/ Killed PROVE RowsInv'
  BY <1>1, <1>4 DEF IndexWritten, Killed, Restart
<1>5. ASSUME NEW p \in Path, Recapture(p) PROVE RowsInv'
  <2>1. dump = NoDump
    BY <1>5 DEF Recapture, SweepInv, OneDump
  <2> QED
    BY <1>1, <1>5, <2>1 DEF Recapture, vars, bundleVars
<1>6. ASSUME Missing PROVE RowsInv'
  <2>1. /\ run # NoRun /\ run' # NoRun /\ run'.at \in {"open", "spawn"}
        /\ UNCHANGED <<run.next, run.rows, folder, dir>> /\ dump' = NoDump
    BY <1>0, <1>6, RunFields DEF Missing, Step, vars, bundleVars
  <2> QED
    BY <1>2, <2>1
<1>7. ASSUME Spawn \/ Opened \/ IndexOpened PROVE RowsInv'
  <2>1. /\ run # NoRun /\ run' # NoRun /\ run'.at \in {"open", "dump", "writing"}
        /\ UNCHANGED <<run.next, run.rows, folder, dir>> /\ dump' = NoDump
    BY <1>0, <1>7, RunFields DEF Spawn, Opened, IndexOpened, Restart, Step, vars, bundleVars
  <2> QED
    BY <1>2, <2>1
<1>8. ASSUME Refused \/ DumpBreaks \/ AnswerLost \/ LineFails \/ (run # NoRun /\ ChildDies)
      PROVE  RowsInv'
  <2>1. /\ run # NoRun /\ run' # NoRun /\ run'.failed
        /\ UNCHANGED <<run.next, run.rows, folder>>
    BY <1>0, <1>8, RunFields, LineFields DEF Refused, DumpBreaks, AnswerLost, LineFails, ChildDies, AfterFailure, Step
  <2>2. UNCHANGED dir /\ dump' = NoDump
    BY <1>0, <1>8 DEF Refused, DumpBreaks, DumpFails, AnswerLost, LineFails, ChildDies, Restart, vars, bundleVars
  <2> QED
    BY <1>2, <2>1, <2>2
<1>9. ASSUME DumpRefused PROVE RowsInv'
  <2>1. run' \in Run /\ run'.failed /\ UNCHANGED <<run.next, run.rows, folder, dir>> /\ dump' = NoDump
    BY <1>0, <1>9 DEF DumpRefused, AfterFailure, Run, Step, vars, bundleVars
  <2> QED
    BY <1>2, <1>9, <2>1, SweepAssumption DEF DumpRefused
<1>10. ASSUME LineAnswers \/ LinesDone \/ Closes PROVE RowsInv'
  <2>1. /\ run # NoRun /\ run' # NoRun /\ run'.failed = run.failed /\ run.at \in {"lines", "close"}
        /\ UNCHANGED <<run.next, run.rows, folder>>
    BY <1>0, <1>10, RunFields, LineFields DEF LineAnswers, LinesDone, Closes, Step
  <2>2. UNCHANGED dir /\ dump' = NoDump
    BY <1>0, <1>10 DEF LineAnswers, LinesDone, Closes, Restart, vars, bundleVars
  <2> QED
    BY <1>2, <2>1, <2>2
<1>11. ASSUME Splits PROVE RowsInv'
  <2>1. /\ run # NoRun /\ run' # NoRun /\ UNCHANGED <<run.next, run.rows, folder, dir>> /\ dump' = NoDump
        /\ run'.failed \/ run'.failed = run.failed
    BY <1>0, <1>11, RunFields DEF Splits, Step, vars, bundleVars
  <2> QED
    BY <1>2, <1>11, <2>1 DEF Splits
<1>12. ASSUME Dumps PROVE RowsInv'
  <2>1. PICK h \in Handle : DumpBegin(h, Bundle1, run.over)
    BY <1>12 DEF Dumps
  <2>2. /\ run # NoRun /\ run' # NoRun /\ run'.at = "dumping" /\ UNCHANGED <<run.next, run.rows, folder>>
        /\ run.next <= Len(Folders) /\ Bundle1 \in Dir
    BY <1>0, <1>12, RunFields, CaptureType DEF Dumps, Step, SweepInv
  <2>3. dump'.into = Bundle1 /\ \A b \in Dir : b # Bundle1 => dir'[b] = dir[b]
    BY <1>0, <2>1, <2>2 DEF DumpBegin, TypeOK
  <2> QED
    BY <2>2, <2>3, OnTheWay DEF Answered
<1>13. ASSUME Dumping PROVE RowsInv'
  <2>1. /\ run # NoRun /\ run.at = "dumping" /\ run' # NoRun /\ UNCHANGED <<run.next, run.rows, folder>>
        /\ run.next <= Len(Folders)
        /\ dump' # NoDump => run'.at = "dumping"
    BY <1>0, <1>13, RunFields DEF Dumping, Step
  <2>2. /\ dump # NoDump /\ dump.into = Bundle1 /\ dump.into \in Dir
        /\ \A b \in Dir : b # dump.into => dir'[b] = dir[b]
        /\ dump' # NoDump => dump'.into = dump.into
        /\ dump' = NoDump => \A b \in Dir : b = dump.into => Verifies(b)' /\ dir'[b].manifest.cap = Source
    BY <1>0, <1>13, DumpWrites DEF Dumping, RowsInv
  <2>3. Source = holds[Path1]
    BY <1>0, <2>1, <1>13, DumpWrites, SessionAssumption DEF Dumping, Source, OneSession, Working
  <2>4. UNCHANGED <<Path1, Bundle1>>
    BY <2>1 DEF Path1, Bundle1
  <2>5. Answered'
    <3>1. CASE dump' # NoDump
      BY <2>1, <3>1 DEF Answered
    <3>2. CASE dump' = NoDump
      <4>1. \A b \in Dir : b = Bundle1 => Verifies(b)' /\ dir'[b].manifest.cap = holds[Path1]
        BY <2>2, <2>3, <3>2
      <4> QED
        BY <2>1, <2>2, <2>4, <4>1 DEF Answered, Verifies, Readable
    <3> QED
      BY <3>1, <3>2
  <2> QED
    BY <2>1, <2>2, <2>4, <2>5, OnTheWay
<1>14. ASSUME Present PROVE RowsInv'
  <2>1. /\ run # NoRun /\ run.next <= Len(Folders) /\ dump = NoDump /\ UNCHANGED <<dir, dump, folder>>
        /\ Readable(Bundle1) /\ Bundle1 \in Dir /\ Filed("present", dir[Bundle1].manifest.cap, FALSE)
    BY <1>0, <1>14, CaptureType DEF Present, SweepInv, vars, bundleVars
  <2>2. dir[Bundle1].manifest.cap \in Capture /\ (Verifies(Bundle1) \/ dir[Bundle1].replacing)
    BY <2>1 DEF Readable, Manifest, ManifestMeansWhole
  <2> QED
    BY <2>1, <2>2, RowFiled DEF Status
<1>15. ASSUME Judge PROVE RowsInv'
  <2>1. /\ run # NoRun /\ run.at = "judge" /\ run.next <= Len(Folders) /\ dump = NoDump
        /\ UNCHANGED <<dir, dump, folder>> /\ run.cause \in BOOLEAN
    BY <1>0, <1>15 DEF Judge, vars, bundleVars, Run
  <2>2. CASE ~run.failed /\ Readable(Bundle1)
    <3>1. Verifies(Bundle1) /\ dir[Bundle1].manifest.cap = holds[Path1]
      BY <2>1, <2>2 DEF RowsInv, Answered
    <3>2. dir[Bundle1].manifest.cap \in Capture
      BY <2>2 DEF Readable, Manifest
    <3> QED
      BY <1>15, <2>1, <2>2, <3>1, <3>2, RowFiled DEF Judge, Status
  <2>3. CASE ~(~run.failed /\ Readable(Bundle1))
    BY <1>15, <2>1, <2>3, RowFiled DEF Judge, Status
  <2> QED
    BY <2>2, <2>3
<1>16. CASE UNCHANGED allVars
  BY <1>16 DEF allVars, vars, bundleVars, sweepVars, RowsInv, Answered, RowsMatchDisk, Latest, Path1, Bundle1, Verifies, Readable
<1> QED
  BY <1>3, <1>4, <1>5, <1>6, <1>7, <1>8, <1>9, <1>10, <1>11, <1>12, <1>13, <1>14, <1>15, <1>16 DEF SweepNext

(* "the numbers come from the bundle that was actually written": until the   *)
(* index is on disk every swept row is of the file as it is, and for the     *)
(* last capture of its key of a bundle that verifies; a present row of one   *)
(* that verifies unless an --overwrite of it was cut short; whatever keys    *)
(* the captures share (rdc_sweep.py:288-316).                                *)
THEOREM SweepsReportTheDisk == SweepSpec => []RowsMatchDisk
<1>1. SweepInit => OneSession /\ RowsInv
  BY DEF SweepInit, BundleInit, SessionInit, Cold, OneSession, OneDevice, Working, RowsInv, Answered, RowsMatchDisk
<1>2. RowsInv => RowsMatchDisk
  BY DEF RowsInv
<1> QED
  BY <1>1, <1>2, OneSessionStep, RowsStep, SweepTypeCorrect, SweptBundlesAreWhole, PTL DEF SweepSpec

-----------------------------------------------------------------------------
(* The first lines of a list have their transcripts: each its own, but for   *)
(* those a later one has written over; and while nothing of a capture failed *)
(* that is so of the lines that were answered.  By the executable it never   *)
(* is of any, and the capture fails.                                         *)
WrittenTo(k) ==
    \A i \in 1 .. Len(run.lines) :
        /\ i < k
        /\ \A j \in 1 .. Len(run.lines) : i < j /\ j < k => NameOf[run.lines[j]] # NameOf[run.lines[i]]
        => texts[Bundle1][NameOf[run.lines[i]]] = [cap |-> holds[Path1], line |-> run.lines[i]]

Transcribed ==
    run # NoRun =>
        /\ run.at \in {"look", "spawn", "open", "dump", "dumping"} => run.line = 1
        /\ ~run.failed /\ run.library /\ run.at = "lines" => WrittenTo(run.line)
        /\ ~run.failed /\ (run.at = "judge" \/ (run.at = "close" /\ run.library)) =>
              WrittenTo(Len(run.lines) + 1)

TextsInv == Transcribed /\ SweptHasTranscripts

(* A step that writes no transcript and moves on to no other line.           *)
LEMMA TextsStay ==
    ASSUME UNCHANGED <<run.lines, run.next, folder, texts>>, NEW k, WrittenTo(k)
    PROVE  WrittenTo(k)'
BY DEF WrittenTo, Path1, Bundle1

LEMMA TextsStep == SweepInv /\ RowsInv /\ TextsInv /\ [SweepNext]_allVars => TextsInv'
<1> SUFFICES ASSUME SweepInv, RowsInv, TextsInv, [SweepNext]_allVars PROVE TextsInv'
  OBVIOUS
<1> USE DEF At
<1>0. /\ run # NoRun => run \in Run
      /\ run # NoRun /\ run.at \notin {"look", "writing"} => run.next <= Len(Folders)
      /\ texts \in [Dir -> [Name -> Transcript \cup {NoText}]]
  BY DEF SweepInv, SweepTypeOK, UnderWay
<1>1. ASSUME run' = NoRun PROVE TextsInv'
  BY <1>1 DEF TextsInv, Transcribed, SweptHasTranscripts
(* No transcript is written, and what was true of those there are stays so.  *)
<1>2. ASSUME run # NoRun, run' # NoRun, UNCHANGED <<run.next, run.rows, run.lines, folder, texts>>,
             Transcribed'
      PROVE  TextsInv'
  BY <1>2 DEF TextsInv, SweptHasTranscripts, Latest
<1>3. ASSUME NEW library \in BOOLEAN, NEW over \in BOOLEAN, NEW lines \in Lists,
             Start(library, over, lines)
      PROVE  TextsInv'
  <2>1. run'.rows = Unswept /\ run'.at = "look" /\ run'.line = 1
    BY <1>3 DEF Start
  <2> QED
    BY <2>1 DEF TextsInv, Transcribed, SweptHasTranscripts, Unswept
<1>4. ASSUME IndexWritten \/ Killed \/ \E p \in Path : Recapture(p) PROVE TextsInv'
  BY <1>1, <1>4 DEF IndexWritten, Killed, Recapture
<1>5. ASSUME Missing \/ Spawn \/ Opened \/ IndexOpened \/ Dumps PROVE TextsInv'
  <2>1. /\ run # NoRun /\ run' # NoRun /\ run'.at \in {"open", "spawn", "dump", "writing", "dumping"}
        /\ run.at \in {"look", "spawn", "open", "dump"}
        /\ UNCHANGED <<run.next, run.rows, run.lines, run.line, folder, texts>>
    BY <1>0, <1>5, RunFields DEF Missing, Spawn, Opened, IndexOpened, Dumps, Step
  <2>2. Transcribed'
    BY <2>1 DEF TextsInv, Transcribed
  <2> QED
    BY <1>2, <2>1, <2>2
<1>6. ASSUME Dumping PROVE TextsInv'
  <2>1. /\ run # NoRun /\ run' # NoRun /\ run.at = "dumping" /\ run'.at \in {"dumping", "lines"}
        /\ UNCHANGED <<run.next, run.rows, run.lines, run.line, folder, texts>>
    BY <1>0, <1>6, RunFields DEF Dumping, Step
  <2>2. run'.line = 1
    BY <2>1 DEF TextsInv, Transcribed
  <2>3. WrittenTo(1)'
    <3>1. \A i \in 1 .. Len(run'.lines) : ~(i < 1)
      OBVIOUS
    <3> QED
      BY <3>1 DEF WrittenTo
  <2>4. Transcribed'
    BY <2>1, <2>2, <2>3 DEF Transcribed
  <2> QED
    BY <1>2, <2>1, <2>4
<1>7. ASSUME Refused \/ DumpBreaks \/ AnswerLost \/ (run # NoRun /\ ChildDies) PROVE TextsInv'
  <2>1. /\ run # NoRun /\ run' # NoRun /\ run'.failed /\ run'.at \in {"judge", "close", "lines"}
        /\ UNCHANGED <<run.next, run.rows, run.lines, folder, texts>>
    BY <1>0, <1>7, RunFields DEF Refused, DumpBreaks, AnswerLost, ChildDies, AfterFailure, Step
  <2>2. Transcribed'
    BY <2>1 DEF Transcribed
  <2> QED
    BY <1>2, <2>1, <2>2
<1>8. ASSUME LineFails PROVE TextsInv'
  <2>1. /\ run # NoRun /\ run' # NoRun /\ run'.failed /\ run'.at \in {"lines", "close"}
        /\ UNCHANGED <<run.next, run.rows, run.lines, folder, texts>>
    BY <1>0, <1>8, RunFields, LineFields DEF LineFails, Step
  <2>2. Transcribed'
    BY <2>1 DEF Transcribed
  <2> QED
    BY <1>2, <2>1, <2>2
<1>9. ASSUME DumpRefused PROVE TextsInv'
  <2>1. /\ run' \in Run /\ run'.failed /\ run'.at \in {"lines", "close"}
        /\ UNCHANGED <<run.next, run.rows, run.lines, folder, texts>>
    BY <1>0, <1>9 DEF DumpRefused, AfterFailure, Run, Step
  <2>2. Transcribed'
    BY <2>1 DEF Transcribed
  <2> QED
    BY <1>2, <1>9, <2>1, <2>2, SweepAssumption DEF DumpRefused
<1>10. ASSUME Splits PROVE TextsInv'
  <2>1. /\ run # NoRun /\ run' # NoRun /\ run'.at = "judge"
        /\ run.lines # <<>> => run'.failed
        /\ UNCHANGED <<run.next, run.rows, run.lines, folder, texts>>
    BY <1>0, <1>10, RunFields DEF Splits, Step
  <2>2. run.lines = <<>> => WrittenTo(Len(run.lines) + 1)'
    <3>1. run.lines = <<>> => Len(run'.lines) = 0
      BY <2>1
    <3> QED
      BY <3>1 DEF WrittenTo
  <2>3. Transcribed'
    BY <2>1, <2>2 DEF Transcribed
  <2> QED
    BY <1>2, <2>1, <2>3
<1>11. ASSUME LinesDone PROVE TextsInv'
  <2>1. /\ run # NoRun /\ run.at = "lines" /\ run.line > Len(run.lines)
        /\ run' # NoRun /\ run'.at = "close" /\ run'.failed = run.failed
        /\ UNCHANGED <<run.next, run.rows, run.lines, run.library, folder, texts>>
    BY <1>0, <1>11, RunFields DEF LinesDone, Step
  <2>2. Len(run.lines) \in Nat /\ run.line \in Nat
    BY <1>0, <2>1, SweepAssumption DEF Run
  <2>3. ASSUME WrittenTo(run.line) PROVE WrittenTo(Len(run.lines) + 1)
    <3>1. \A i \in 1 .. Len(run.lines) : i < run.line /\ i < Len(run.lines) + 1
      BY <2>1, <2>2
    <3> QED
      BY <2>3, <3>1 DEF WrittenTo
  <2>4. ~run'.failed /\ run'.library => WrittenTo(Len(run.lines) + 1)'
    BY <2>1, <2>3, TextsStay DEF TextsInv, Transcribed
  <2>5. Transcribed'
    BY <2>1, <2>4 DEF Transcribed
  <2> QED
    BY <1>2, <2>1, <2>5
<1>12. ASSUME Closes PROVE TextsInv'
  <2>1. /\ run # NoRun /\ run' # NoRun /\ run.at = "close" /\ run'.failed = run.failed
        /\ run'.at = IF run.library THEN "judge" ELSE "split"
        /\ UNCHANGED <<run.next, run.rows, run.lines, run.library, folder, texts>>
    BY <1>0, <1>12, RunFields DEF Closes, Step
  <2>2. ~run'.failed /\ run'.library => WrittenTo(Len(run.lines) + 1)'
    BY <2>1, TextsStay DEF TextsInv, Transcribed
  <2>3. Transcribed'
    BY <2>1, <2>2 DEF Transcribed
  <2> QED
    BY <1>2, <2>1, <2>3
(* The one step that writes a transcript writes it beside its own bundle,    *)
(* over those of its name.                                                   *)
<1>13. ASSUME LineAnswers PROVE TextsInv'
  <2>1. /\ run # NoRun /\ run.at = "lines" /\ run.line <= Len(run.lines)
        /\ run' # NoRun /\ run'.at = "lines" /\ run'.failed = run.failed /\ run'.line = run.line + 1
        /\ UNCHANGED <<run.next, run.rows, run.lines, run.library, folder>>
    BY <1>0, <1>13, LineFields DEF LineAnswers
  <2> DEFINE said == [cap |-> holds[Path1], line |-> Line1]
  <2>2. texts' = IF run.library THEN [texts EXCEPT ![Bundle1][NameOf[Line1]] = said] ELSE texts
    BY <1>13 DEF LineAnswers
  <2>3. CASE ~run.library
    <3>1. Transcribed'
      BY <2>1, <2>3 DEF Transcribed
    <3> QED
      BY <1>2, <2>1, <2>2, <2>3, <3>1
  <2>4. CASE run.library
    <3>1. UNCHANGED <<Path1, Bundle1>> /\ Path1 \in Path /\ Bundle1 \in Dir
      BY <1>0, <2>1, CaptureType DEF Path1, Bundle1, SweepInv
    <3>2. run.line \in 1 .. Len(run.lines) /\ run.lines \in Seq(Line) /\ Len(run.lines) \in Nat
      <4>0. run \in Run
        BY <1>0, <2>1
      <4>1. run.line \in Nat \ {0} /\ run.lines \in Lists
        BY ONLY <4>0 DEF Run
      <4>2. run.lines \in Seq(Line)
        BY <4>1, SweepAssumption
      <4> QED
        BY <2>1, <4>1, <4>2
    <3>3. NameOf[Line1] \in Name
      BY <3>2, SweepAssumption DEF Line1
    <3>4. texts'[Bundle1] = [texts[Bundle1] EXCEPT ![NameOf[Line1]] = said]
      BY <1>0, <2>2, <2>4, <3>1
    <3>5. \A n \in Name : texts'[Bundle1][n] = IF n = NameOf[Line1] THEN said ELSE texts[Bundle1][n]
      BY <1>0, <3>1, <3>4
    <3>6. ~run.failed => WrittenTo(run.line)'
      <4> SUFFICES ASSUME ~run.failed, NEW i \in 1 .. Len(run.lines), i < run.line + 1,
                          \A j \in 1 .. Len(run.lines) :
                              i < j /\ j < run.line + 1 => NameOf[run.lines[j]] # NameOf[run.lines[i]]
                   PROVE  texts'[Bundle1][NameOf[run.lines[i]]] =
                              [cap |-> holds[Path1], line |-> run.lines[i]]
        BY <2>1, <3>1 DEF WrittenTo
      <4>0. NameOf[run.lines[i]] \in Name
        BY <3>2, SweepAssumption
      <4>1. CASE i = run.line
        BY <3>5, <4>0, <4>1 DEF Line1
      <4>2. CASE i # run.line
        <5>1. i < run.line /\ \A j \in 1 .. Len(run.lines) : j < run.line => j < run.line + 1
          BY <3>2, <4>2
        <5>2. NameOf[Line1] # NameOf[run.lines[i]]
          BY <3>2, <5>1 DEF Line1
        <5>3. WrittenTo(run.line)
          BY <2>1, <2>4 DEF TextsInv, Transcribed
        <5>4. texts[Bundle1][NameOf[run.lines[i]]] = [cap |-> holds[Path1], line |-> run.lines[i]]
          BY <5>1, <5>3 DEF WrittenTo
        <5> QED
          BY <3>5, <4>0, <5>2, <5>4
      <4> QED
        BY <4>1, <4>2
    <3>7. Transcribed'
      BY <2>1, <3>6 DEF Transcribed
    <3>8. ASSUME NEW p \in Path, run.rows[p] # NoRow, Latest(p) PROVE texts'[keyOf[p]] = texts[keyOf[p]]
      <4>1. keyOf[p] \in Dir /\ keyOf[p] # Bundle1
        BY <1>0, <2>1, <3>8, OthersBundle DEF SweepInv, SweepTypeOK
      <4> QED
        BY <1>0, <2>2, <2>4, <4>1
    <3>9. \A p \in Path : Latest(p)' = Latest(p)
      BY <2>1 DEF Latest
    <3> QED
      BY <2>1, <3>7, <3>8, <3>9 DEF TextsInv, SweptHasTranscripts
  <2> QED
    BY <2>3, <2>4
<1>14. ASSUME Present \/ Judge PROVE TextsInv'
  <2>0. run # NoRun /\ run.next <= Len(Folders) /\ run.cause \in BOOLEAN /\ UNCHANGED <<folder, texts>>
    BY <1>0, <1>14 DEF Present, Judge, Run
  <2>1. PICK status \in Status, sha \in Capture \cup {NoCapture}, cause \in BOOLEAN :
            /\ Filed(status, sha, cause)
            /\ status = "swept" => ~run.failed /\ run.at = "judge"
    BY <1>14, <2>0 DEF Present, Judge, Readable, Manifest, Status
  <2>2. /\ run'.at = "look" /\ run'.line = 1 /\ run'.next = run.next + 1 /\ UNCHANGED run.lines
        /\ run'.rows = [run.rows EXCEPT ![Path1] = [status |-> status, sha |-> sha, cause |-> cause]]
    <3>1. run \in Run /\ run' \in Run
      BY <1>0, <2>0, <2>1, FiledType DEF SweepInv, SweepTypeOK
    <3> QED
      BY <2>1, <3>1 DEF Filed, Run
  <2>3. run.rows \in Rows /\ Path1 \in Path /\ run.next \in Nat
    BY <1>0, <2>0, CaptureType, SweepAssumption DEF SweepInv, Run
  <2>4. \A p \in Path : run'.rows[p] = IF p = Path1 THEN [status |-> status, sha |-> sha, cause |-> cause]
                                                    ELSE run.rows[p]
    BY <2>2, <2>3 DEF Rows
  <2>5. ASSUME status = "swept", NEW i \in 1 .. Len(run.lines), Survives(run.lines, i)
        PROVE  texts[Bundle1][NameOf[run.lines[i]]] = [cap |-> holds[Path1], line |-> run.lines[i]]
    <3>1. WrittenTo(Len(run.lines) + 1)
      BY <2>0, <2>1, <2>5 DEF TextsInv, Transcribed
    <3>2. Len(run.lines) \in Nat
      BY <1>0, <2>0, SweepAssumption DEF Run
    <3>3. i < Len(run.lines) + 1
      BY <3>2
    <3> QED
      BY <2>5, <3>1, <3>3 DEF WrittenTo, Survives
  <2>6. \A p \in Path : Latest(p)' => Latest(p)
    <3>0. run'.next = run.next + 1 /\ run.next \in Nat
      BY <2>2, <2>3
    <3>1. \A j \in 1 .. Len(Folders) : j <= run.next => j <= run'.next
      BY ONLY <3>0
    <3> QED
      BY <2>0, <3>1 DEF Latest
  <2>7. SweptHasTranscripts'
    <3> SUFFICES ASSUME NEW p \in Path, Latest(p)', run'.rows[p] # NoRow, run'.rows[p].status = "swept",
                        NEW i \in 1 .. Len(run.lines), Survives(run.lines, i)
                 PROVE  texts[keyOf[p]][NameOf[run.lines[i]]] = [cap |-> holds[p], line |-> run.lines[i]]
      <4>1. run'.lines = run.lines /\ texts' = texts /\ keyOf' = keyOf /\ holds' = holds
        BY <2>0, <2>2
      <4>2. \A i \in 1 .. Len(run.lines) : Survives(run.lines, i)' <=> Survives(run.lines, i)
        BY <4>1 DEF Survives
      <4> QED
        BY <4>1, <4>2 DEF SweptHasTranscripts
    <3>1. CASE p = Path1
      BY <2>4, <2>5, <3>1 DEF Bundle1
    <3>2. CASE p # Path1
      BY <2>0, <2>4, <2>6, <3>2 DEF TextsInv, SweptHasTranscripts
    <3> QED
      BY <3>1, <3>2
  <2>8. Transcribed'
    BY <2>2 DEF Transcribed
  <2> QED
    BY <2>7, <2>8 DEF TextsInv
<1>15. CASE UNCHANGED allVars
  <2>1. UNCHANGED <<run, folder, texts>>
    BY <1>15 DEF allVars, sweepVars
  <2>2. Transcribed'
    BY <2>1, TextsStay DEF TextsInv, Transcribed
  <2>3. SweptHasTranscripts'
    BY <2>1 DEF TextsInv, SweptHasTranscripts, Latest, Survives, folder
  <2> QED
    BY <2>2, <2>3 DEF TextsInv
<1> QED
  BY <1>3, <1>4, <1>5, <1>6, <1>7, <1>8, <1>9, <1>10, <1>11, <1>12, <1>13, <1>14, <1>15 DEF SweepNext

(* Where a row says "swept", the answer of every line asked for is beside    *)
(* the bundle, that line's about this capture, but where a later line of the *)
(* same transcript name, or a later capture of the same key, came over it.   *)
THEOREM SweptRowsHaveTheirTranscripts == SweepSpec => []SweptHasTranscripts
<1>1. SweepInit => OneSession /\ RowsInv /\ TextsInv
  BY DEF SweepInit, BundleInit, SessionInit, Cold, OneSession, OneDevice, Working, RowsInv, Answered, RowsMatchDisk,
         TextsInv, Transcribed, SweptHasTranscripts
<1>2. TextsInv => SweptHasTranscripts
  BY DEF TextsInv
<1> QED
  BY <1>1, <1>2, OneSessionStep, RowsStep, TextsStep, SweepTypeCorrect, SweptBundlesAreWhole, PTL DEF SweepSpec
=============================================================================
