------------------------------- MODULE Sweep -------------------------------
(***************************************************************************)
(* `sweep <dir>` (src/py/rdc_sweep.py): one bundle per capture of a        *)
(* folder and an index of what they are, run after run, over the sessions  *)
(* of ReplaySession and the dumps of Bundle.                               *)
(*                                                                         *)
(* A run goes through the folder in order.  By the library it opens one    *)
(* session per capture in one process and stops at the first failing       *)
(* command; by the executable it starts one `multi` per capture, which     *)
(* goes on after a failing line.  Any run may be killed at any step; a     *)
(* capture file may change between runs.                                   *)
(***************************************************************************)
EXTENDS Bundle, Sequences

CONSTANTS
    Path,         \* the capture files of the folder
    Folders,      \* capture_files: those paths, sorted
    Line,         \* command lines
    Name,         \* the files their answers go to
    NameOf,       \* transcript_name: a line without its options
    Lists,        \* what --commands files hold; the empty list: no such file
    NoRun, NoRow, NoText

Status == {"swept", "present", "failed"}

(* A row of the index; cause: something did fail while it was being made.    *)
Row == [status : Status, sha : Capture \cup {NoCapture}, cause : BOOLEAN]
Rows == [Path -> Row \cup {NoRow}]
Unswept == [p \in Path |-> NoRow]

Step == {"look", "spawn", "open", "dump", "dumping", "lines", "close", "split", "judge",
         "writing"}
(* A run by the library or not, with --overwrite or not, with the lines      *)
(* besides the dump, and the next of the captures and of the lines.          *)
Run == [library : BOOLEAN, over : BOOLEAN, lines : Lists, at : Step,
        next : 1 .. Len(Folders) + 1, line : Nat \ {0},
        failed : BOOLEAN, cause : BOOLEAN, rows : Rows]

(* What is in `<line>.txt`: the answer of a line about a capture.            *)
Transcript == [cap : Capture, line : Line]

ASSUME SweepAssumption ==
    /\ Folders \in Seq(Path) /\ Path = {Folders[i] : i \in 1 .. Len(Folders)}
    /\ \A i, j \in 1 .. Len(Folders) : Folders[i] = Folders[j] => i = j
    /\ NameOf \in [Line -> Name] /\ Lists \subseteq Seq(Line)
    /\ NoText \notin Transcript
    /\ NoRun \notin Run /\ NoRow \notin Row /\ {Absent, Torn} \cap Rows = {}

VARIABLES
    holds,        \* holds[p]: the capture in the file
    keyOf,        \* key_for: where its bundle goes; `a-b.rdc` and `a/b.rdc` have one key
    run,          \* the `sweep` running, or NoRun
    texts,        \* texts[b][n]: the transcript under that name in bundle b
    index         \* sweep.json

folder == <<holds, keyOf>>
sweepVars == <<folder, run, texts, index>>
allVars == <<vars, sweepVars>>

Path1 == Folders[run.next]
Bundle1 == keyOf[Path1]
Line1 == run.lines[run.line]
At(s) == run # NoRun /\ run.at = s
Goto(s) == run' = [run EXCEPT !.at = s]

(* What the capture's row would say of a command that failed.                *)
Fails(s) == run' = [run EXCEPT !.at = s, !.failed = TRUE, !.cause = TRUE]

Filed(status, sha, cause) ==
    run' = [run EXCEPT !.at = "look", !.next = @ + 1, !.line = 1, !.failed = FALSE, !.cause = FALSE,
                       !.rows[Path1] = [status |-> status, sha |-> sha, cause |-> cause]]

-----------------------------------------------------------------------------
(* cmd_sweep, as far as its loop.                                            *)
Start(library, over, lines) ==
    /\ run = NoRun
    /\ Restart /\ host' = IF library THEN "library" ELSE "exe"
    /\ run' = [library |-> library, over |-> over, lines |-> lines, at |-> "look",
               next |-> 1, line |-> 1, failed |-> FALSE, cause |-> FALSE, rows |-> Unswept]
    /\ UNCHANGED <<folder, texts, index>>

(* A bundle with a manifest is present, without a replay ...                 *)
Present ==
    /\ At("look") /\ run.next <= Len(Folders)
    /\ ~run.over /\ Readable(Bundle1)
    /\ Filed("present", dir[Bundle1].manifest.cap, FALSE)
    /\ UNCHANGED <<vars, folder, texts, index>>

(* ... and any other is swept.                                               *)
Missing ==
    /\ At("look") /\ run.next <= Len(Folders)
    /\ run.over \/ ~Readable(Bundle1)
    /\ Goto(IF run.library THEN "open" ELSE "spawn")
    /\ UNCHANGED <<vars, folder, texts, index>>

(* `multi <capture> <dump line> <lines>`: a process for this capture.        *)
Spawn ==
    /\ At("spawn")
    /\ Restart /\ host' = "exe"
    /\ Goto("open")
    /\ UNCHANGED <<folder, texts, index>>

(* If a session were warmed by a question before its dump ...                *)
OpenedWarm ==
    /\ At("open")
    /\ \E h \in Handle :
        /\ session[h] = Closed
        /\ session' = [session EXCEPT ![h] = holds[Path1]]
        /\ engine' = [engine EXCEPT ![h] = "moved"]
    /\ up' = TRUE
    /\ Goto("dump")
    /\ UNCHANGED <<host, markersOf, replayed, scan, probes, bundleVars, folder, texts, index>>

(* ... where the dump line is the first of a new session.                    *)
Opened ==
    /\ At("open")
    /\ \E h \in Handle : Open(h) /\ session'[h] = holds[Path1]
    /\ Goto("dump")
    /\ UNCHANGED <<bundleVars, folder, texts, index>>

Refused ==
    /\ At("open")
    /\ \E h \in Handle : OpenFails(h)
    /\ Fails("judge")
    /\ UNCHANGED <<bundleVars, folder, texts, index>>

(* The library's caller returns at a failing line; `multi` goes on.          *)
AfterFailure == IF run.library THEN "close" ELSE "lines"

Dumps ==
    /\ At("dump")
    /\ \E h \in Handle : session[h] # Closed /\ DumpBegin(h, Bundle1, run.over)
    /\ Goto("dumping")
    /\ UNCHANGED <<folder, texts, index>>

(* "is not empty (pass --overwrite to write into it)": exit 1.               *)
DumpRefused ==
    /\ At("dump")
    /\ ~MayWrite(Bundle1, run.over)
    /\ run' = [run EXCEPT !.at = AfterFailure, !.failed = TRUE]
    /\ UNCHANGED <<vars, folder, texts, index>>

Dumping ==
    /\ At("dumping")
    /\ DumpStep
    /\ IF dump' = NoDump THEN Goto("lines") ELSE UNCHANGED run
    /\ UNCHANGED <<folder, texts, index>>

DumpBreaks ==
    /\ At("dumping")
    /\ DumpFails
    /\ Fails(AfterFailure)
    /\ UNCHANGED <<folder, texts, index>>

(* RunCaptured could not take stdout, and the dump was never run; or it could *)
(* not read the answer back, and all its work is done: an error either way.  *)
AnswerLost ==
    /\ run # NoRun /\ run.library
    /\ run.at = "dump" \/ (run.at = "lines" /\ run.line = 1)
    /\ Fails("close")
    /\ UNCHANGED <<vars, folder, texts, index>>

(* The next line; the library's caller writes its transcript as it answers,  *)
(* over one of the same name that an earlier line, or an earlier run, left.  *)
LineAnswers ==
    /\ At("lines") /\ run.line <= Len(run.lines)
    /\ \E h \in Handle : Look(h)
    /\ IF run.library
       THEN texts' = [texts EXCEPT ![Bundle1][NameOf[Line1]] = [cap |-> holds[Path1], line |-> Line1]]
       ELSE UNCHANGED texts
    /\ run' = [run EXCEPT !.line = @ + 1]
    /\ UNCHANGED <<bundleVars, folder, index>>

(* If only the last line's exit code counted ...                             *)
LineIgnored ==
    /\ At("lines") /\ run.line <= Len(run.lines)
    /\ \E h \in Handle : Look(h)
    /\ IF run.library /\ run.line = Len(run.lines)
       THEN Fails("close") ELSE run' = [run EXCEPT !.line = @ + 1]
    /\ UNCHANGED <<bundleVars, folder, texts, index>>

(* ... where any line that fails fails the capture: the library's caller     *)
(* returns at it, the lines before it have their transcripts; `multi` goes   *)
(* on to the next.                                                           *)
LineFails ==
    /\ At("lines") /\ run.line <= Len(run.lines)
    /\ \E h \in Handle : Look(h)
    /\ IF run.library
       THEN Fails("close")
       ELSE run' = [run EXCEPT !.line = @ + 1, !.failed = TRUE, !.cause = TRUE]
    /\ UNCHANGED <<bundleVars, folder, texts, index>>

LinesDone ==
    /\ At("lines") /\ run.line > Len(run.lines)
    /\ Goto("close")
    /\ UNCHANGED <<vars, folder, texts, index>>

(* If a capture that failed left its session behind ...                      *)
LeavesOpen ==
    /\ At("close")
    /\ \E h \in Handle :
        \/ run.library /\ ~run.failed /\ Close(h) /\ UNCHANGED bundleVars
        \/ run.library /\ run.failed /\ UNCHANGED vars
        \/ ~run.library /\ Restart /\ host' = "exe"
    /\ Goto(IF run.library THEN "judge" ELSE "split")
    /\ UNCHANGED <<folder, texts, index>>

(* ... where the end of `with Session(...)`, or of the process, closes it.   *)
Closes ==
    /\ At("close")
    /\ \/ run.library /\ (\E h \in Handle : Close(h)) /\ UNCHANGED bundleVars
       \/ ~run.library /\ Restart /\ host' = "exe"
    /\ Goto(IF run.library THEN "judge" ELSE "split")
    /\ UNCHANGED <<folder, texts, index>>

(* The transcripts of `multi`: its stdout ends its lines in CR LF, the       *)
(* marker looked for ends in LF, so a line's own is never found.             *)
Splits ==
    /\ At("split")
    /\ IF run.lines # <<>> THEN Fails("judge") ELSE Goto("judge")
    /\ UNCHANGED <<vars, folder, texts, index>>

(* The executable died of it (a lost device, a kill).                        *)
ChildDies ==
    /\ ~run.library
    /\ run.at \in {"open", "dump", "dumping", "lines", "close"}
    /\ Restart /\ host' = "exe"
    /\ Fails("judge")
    /\ UNCHANGED <<folder, texts, index>>

(* If a manifest were all it takes to be swept ...                           *)
JudgeByManifest ==
    /\ At("judge")
    /\ IF Readable(Bundle1) THEN Filed("swept", dir[Bundle1].manifest.cap, run.cause)
                            ELSE Filed("failed", NoCapture, run.cause)
    /\ UNCHANGED <<vars, folder, texts, index>>

(* ... where every line must have answered, too.                             *)
Judge ==
    /\ At("judge")
    /\ IF ~run.failed /\ Readable(Bundle1)
       THEN Filed("swept", dir[Bundle1].manifest.cap, run.cause)
       ELSE Filed("failed", NoCapture, run.cause)
    /\ UNCHANGED <<vars, folder, texts, index>>

(* write_index: truncated, then written; and the sweep exits.                *)
IndexOpened ==
    /\ At("look") /\ run.next > Len(Folders)
    /\ Goto("writing")
    /\ index' = Torn
    /\ UNCHANGED <<vars, folder, texts>>

IndexWritten ==
    /\ At("writing")
    /\ index' = run.rows
    /\ run' = NoRun
    /\ Restart /\ host' = host
    /\ UNCHANGED <<folder, texts>>

(* The sweep is killed, and its child with it.                               *)
Killed ==
    /\ run # NoRun
    /\ Restart /\ host' = host
    /\ run' = NoRun
    /\ UNCHANGED <<folder, texts, index>>

(* Between two runs a capture is taken again.                                *)
Recapture(p) ==
    /\ run = NoRun
    /\ \E c \in Capture \ {holds[p]} : holds' = [holds EXCEPT ![p] = c]
    /\ UNCHANGED <<vars, keyOf, run, texts, index>>

-----------------------------------------------------------------------------
SweepInit ==
    /\ BundleInit
    /\ holds \in [Path -> Capture]
    /\ keyOf \in [Path -> Dir]
    /\ run = NoRun
    /\ texts = [b \in Dir |-> [n \in Name |-> NoText]]
    /\ index = Absent

SweepNext ==
    \/ \E library, over \in BOOLEAN, lines \in Lists : Start(library, over, lines)
    \/ Present \/ Missing \/ Spawn \/ Opened \/ Refused
    \/ Dumps \/ DumpRefused \/ Dumping \/ DumpBreaks \/ AnswerLost
    \/ LineAnswers \/ LineFails \/ LinesDone \/ Closes \/ Splits
    \/ run # NoRun /\ ChildDies
    \/ Judge \/ IndexOpened \/ IndexWritten
    \/ Killed
    \/ \E p \in Path : Recapture(p)

SweepSpec == SweepInit /\ [][SweepNext]_allVars

-----------------------------------------------------------------------------
SweepTypeOK ==
    /\ TypeOK
    /\ holds \in [Path -> Capture]
    /\ keyOf \in [Path -> Dir]
    /\ run \in Run \cup {NoRun}
    /\ texts \in [Dir -> [Name -> Transcript \cup {NoText}]]
    /\ index \in Rows \cup {Absent, Torn}

(* No capture that this run has come to after p goes to p's bundle.          *)
Latest(p) ==
    \A i, j \in 1 .. Len(Folders) :
        Folders[i] = p /\ i < j /\ j <= run.next => keyOf[Folders[j]] # keyOf[p]

(* "the numbers come from the bundle that was actually written": from the    *)
(* moment a capture has its row until the index is on disk, a swept row is   *)
(* of the file as it is; and while no later capture of the same key has had  *)
(* its turn, of a bundle that verifies, and a present row of one that        *)
(* verifies unless an --overwrite of it was cut short before.  (A later one  *)
(* may replace the bundle: the row then describes what is no longer there.)  *)
RowsMatchDisk ==
    run # NoRun => \A p \in Path : run.rows[p] # NoRow =>
        LET row == run.rows[p]  b == keyOf[p] IN
        /\ row.status = "swept" => row.sha = holds[p]
        /\ Latest(p) =>
             /\ row.status = "swept" => Verifies(b)
             /\ row.status = "present" => Verifies(b) \/ dir[b].replacing
             /\ row.status # "failed" => row.sha = dir[b].manifest.cap

(* No later line's answer goes to the file of the i-th.                      *)
Survives(lines, i) == \A j \in 1 .. Len(lines) : i < j => NameOf[lines[j]] # NameOf[lines[i]]

(* "one file per extra command line in `--commands`" (rdc_sweep.py): beside  *)
(* a swept row's bundle is the answer of every line that was asked, of that  *)
(* line about that capture -- not an older run's, not another capture's --   *)
(* but for a line whose file a later line of the list has written over (two  *)
(* lines that differ in their options share a name), and until a later       *)
(* capture of the same key has its turn.                                     *)
SweptHasTranscripts ==
    run # NoRun => \A p \in Path :
        Latest(p) /\ run.rows[p] # NoRow /\ run.rows[p].status = "swept" =>
            \A i \in 1 .. Len(run.lines) : Survives(run.lines, i) =>
                texts[keyOf[p]][NameOf[run.lines[i]]] = [cap |-> holds[p], line |-> run.lines[i]]

(* "Which ids are events is asked before anything else touches the engine"   *)
(* (CmdDump): no sweep, whatever was killed before it, lists or caches the   *)
(* ids of an engine that had been moved.                                     *)
SweptIdsCold ==
    /\ \A c \in Capture : sweeps[c] # "warm"
    /\ \A b \in Dir : dir[b].events \in Sheet => dir[b].events.ids = "cold"

(* A bundle by way of the executable is the one `dump` on its own writes:    *)
(* its own markers, and the events written unbuffered between engine calls.  *)
ExeSheetsTrue ==
    \A b \in Dir : dir[b].events \in Sheet /\ dir[b].events.by = "exe" =>
        /\ dir[b].events.markers = dir[b].events.cap
        /\ ~dir[b].events.buffered

(* "Two sessions at once on one GPU is the thing the driver's own            *)
(* documentation warns about, and nothing here prevents it -- the caller     *)
(* decides" (rdc_replay.py): this caller never holds two.                    *)
OneDevice ==
    \A g, h \in Handle : session[g] # Closed /\ session[h] # Closed => g = h

(* "recoverable" (rdc_sweep.py), "resumable" (cmd_sweep): after an           *)
(* interrupted sweep the next one sweeps what is missing, so that a capture  *)
(* is failed only for something that failed in this run.                     *)
FailedForCause ==
    run # NoRun => \A p \in Path :
        run.rows[p] # NoRow /\ run.rows[p].status = "failed" => run.rows[p].cause
=============================================================================
