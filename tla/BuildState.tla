----------------------------- MODULE BuildState -----------------------------
(***************************************************************************)
(* rdc_driver: is an artefact older than its sources?  `build` reads one   *)
(* modification time after another while an editor saves, a checkout       *)
(* removes files and a build in another window replaces artefacts; then it *)
(* may build and read them all again.  A missing file has time 0.          *)
(***************************************************************************)
EXTENDS Integers, Sequences, FiniteSets, FiniteSetsExt

CONSTANTS Targets_,     \* the artefacts, in the order of TARGETS
          SourcesOf,    \* artefact -> its own sources, as a sequence
          MaxTime

VARIABLES clock, mtime, \* mtime: file -> its time
          touched,      \* the files written or removed since the verdict's reading began
          build         \* [pc, checkOnly, queue, source, newest, verdicts, code]

buildVars == <<clock, mtime, touched, build>>

Lists_ == "CMakeLists.txt"
Files == {Lists_} \cup {Targets_[i] : i \in DOMAIN Targets_} \cup UNION {{SourcesOf[t][i] : i \in DOMAIN SourcesOf[t]} :
                                                                      t \in DOMAIN SourcesOf}
Candidates(t) == <<Lists_>> \o SourcesOf[t]

\* newest_source reads the candidates one after another, and the artefact's own time comes last.
ReadingArtefactFirst(t) == <<t>> \o Candidates(t)
ReadingOrder(t) == Candidates(t) \o <<t>>
Readings == [i \in DOMAIN Targets_ |-> ReadingOrder(Targets_[i])]

Idle_ == [pc |-> "idle", checkOnly |-> TRUE, queue |-> <<>>, newest |-> 0, artefact |-> 0, verdicts |-> <<>>, code |-> 0]

Begin(checkOnly) ==
    /\ build.pc = "idle"
    /\ build' = [Idle_ EXCEPT !.pc = "before", !.checkOnly = checkOnly, !.queue = Readings]
    /\ touched' = {} /\ UNCHANGED <<clock, mtime>>

\* No opinion where there is no artefact or no source; out of date is strictly older.
Verdict(artefact, newest) ==
    [note |-> artefact = 0 \/ newest = 0, stale |-> artefact # 0 /\ newest # 0 /\ newest > artefact]

ReadTime ==
    /\ build.pc \in {"before", "after"} /\ build.queue # <<>> /\ UNCHANGED <<clock, mtime, touched>>
    /\ LET files    == Head(build.queue)
           file     == Head(files)
           artefact == IF file \in DOMAIN SourcesOf THEN mtime[file] ELSE build.artefact
           newest   == IF file \in DOMAIN SourcesOf THEN build.newest ELSE Max({build.newest, mtime[file]})
       IN  build' = IF Len(files) > 1
                    THEN [build EXCEPT !.queue = <<Tail(files)>> \o Tail(@), !.newest = newest, !.artefact = artefact]
                    ELSE [build EXCEPT !.queue = Tail(@), !.newest = 0, !.artefact = 0,
                                       !.verdicts = Append(@, Verdict(artefact, newest))]

VerdictCode(verdicts) ==
    IF \E i \in DOMAIN verdicts : verdicts[i].stale THEN 1
    ELSE IF \E i \in DOMAIN verdicts : verdicts[i].note THEN 2 ELSE 0

\* The first reading is over: report, stop, or build.
Decide ==
    /\ build.pc = "before" /\ build.queue = <<>>
    /\ LET code == VerdictCode(build.verdicts)
       IN  build' = [build EXCEPT !.pc = IF build.checkOnly \/ code = 0 THEN "done" ELSE "building", !.code = code]
    /\ UNCHANGED <<clock, mtime, touched>>

(***************************************************************************)
(* The build tool: it rewrites every artefact whose own sources are newer  *)
(* and any other it sees fit to, or fails with some of them rewritten (the *)
(* message at rdc_driver.py:256 says they are unchanged: the build tool    *)
(* may have finished one target before another failed).                    *)
(***************************************************************************)
Behind == {t \in DOMAIN SourcesOf : \E i \in DOMAIN SourcesOf[t] : mtime[SourcesOf[t][i]] > mtime[t]}
Built == {written \in SUBSET DOMAIN SourcesOf : Behind \subseteq written}
Rebuild ==
    /\ build.pc = "building" /\ UNCHANGED clock
    /\ \/ /\ \E written \in SUBSET DOMAIN SourcesOf : mtime' = [f \in Files |-> IF f \in written THEN clock ELSE mtime[f]]
          /\ build' = [build EXCEPT !.pc = "done", !.code = 1]
          /\ UNCHANGED touched
       \/ /\ \E written \in Built : mtime' = [f \in Files |-> IF f \in written THEN clock ELSE mtime[f]]
          /\ touched' = {}
          /\ build' = [build EXCEPT !.pc = "after", !.queue = Readings, !.verdicts = <<>>]

\* After a build that succeeded the command ends with 0, whatever the second reading says.
Report ==
    /\ build.pc = "after" /\ build.queue = <<>> /\ build' = [build EXCEPT !.pc = "done", !.code = 0]
    /\ UNCHANGED <<clock, mtime, touched>>

(***************************************************************************)
(* The rest of the machine.                                                *)
(***************************************************************************)
Tick == clock < MaxTime /\ clock' = clock + 1 /\ UNCHANGED <<mtime, touched, build>>
Edit(f) ==
    /\ f \notin DOMAIN SourcesOf /\ mtime' = [mtime EXCEPT ![f] = clock] /\ touched' = touched \cup {f}
    /\ UNCHANGED <<clock, build>>
RemoveFile(f) == mtime' = [mtime EXCEPT ![f] = 0] /\ touched' = touched \cup {f} /\ UNCHANGED <<clock, build>>
OtherBuild(written) ==
    /\ written \in Built /\ mtime' = [f \in Files |-> IF f \in written THEN clock ELSE mtime[f]]
    /\ touched' = touched \cup written /\ UNCHANGED <<clock, build>>

BuildInit(times) == clock = 2 /\ mtime = times /\ touched = {} /\ build = Idle_

BuildNext ==
    \/ \E checkOnly \in BOOLEAN : Begin(checkOnly)
    \/ ReadTime \/ Decide \/ Rebuild \/ Report \/ Tick
    \/ \E f \in Files : Edit(f) \/ RemoveFile(f)
    \/ \E written \in SUBSET DOMAIN SourcesOf : OtherBuild(written)

(***************************************************************************)
(* A verdict of the last artefact read is true when its reading ends,      *)
(* although files change between its readings: one called out of date has  *)
(* a source newer than it unless a source was removed meanwhile, and one   *)
(* called current is not older than any source left alone since the        *)
(* reading began (rdc_driver.py:140, 155).                                 *)
(***************************************************************************)
VerdictsAreOfNow ==
    [][ \A i \in DOMAIN Targets_ :
          Len(build'.verdicts) = i /\ Len(build.verdicts) = i - 1 =>
             LET artefact == Targets_[i]
                 sources == {Lists_} \cup {SourcesOf[artefact][k] : k \in DOMAIN SourcesOf[artefact]}
                 v == build'.verdicts[i]
             IN  /\ v.stale => \E s \in sources : mtime[s] > mtime[artefact] \/ (s \in touched /\ mtime[s] = 0)
                 /\ ~v.stale /\ ~v.note => \A s \in sources : s \notin touched => mtime[s] <= mtime[artefact] ]_buildVars
=============================================================================
