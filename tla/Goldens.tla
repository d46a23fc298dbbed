------------------------------ MODULE Goldens ------------------------------
(***************************************************************************)
(* rdc_goldens: one run of `goldens` after another over a corpus that a    *)
(* killed `--write` may have left half refreshed, on a machine that has    *)
(* some of the captures, some of the bundles and perhaps a driver.  A run  *)
(* is a list of tasks, one per capture and question, in the order of the   *)
(* code; the pair is compared by a thread beside them.  A text is the      *)
(* record of what it depends on, so two are equal when the bytes are.      *)
(***************************************************************************)
EXTENDS Integers, Sequences, FiniteSets, SequencesExt

CONSTANTS Captures,     \* the corpus's captures, in its order
          Commands,     \* capture -> the commands whose transcript is pinned
          Driven,       \* the captures with driver commands
          Pair          \* the two captures of the A/B pair

Names_ == Range(Captures)
All_ == "every capture"

\* What a run asks of a capture beside its commands.
OtherTasks == {"identity", "driver", "labels", "bundle", "document"}

\* The corpus and its tables are lists; no command is named like another task,
\* and no capture like the lack of a choice.
ASSUME GoldensAssumption ==
    /\ Captures \in Seq(Names_) /\ All_ \notin Names_
    /\ \A c \in Names_ : Commands[c] \in Seq(Range(Commands[c])) /\ Range(Commands[c]) \cap OtherTasks = {}

VARIABLES here,         \* the machine: what is installed, built and dumped on it
          golden,       \* <<capture, text>> -> what the corpus holds
          run,          \* the run: [mode, only, tasks, compared, wrong]
          pairThread    \* "none", "running", or what it found: "skipped", "fails", "same", "differs"

goldenVars == <<here, golden, run, pairThread>>

Missing == "missing"
NoText == [what |-> "missing"]
TornText == [what |-> "torn"]

(***************************************************************************)
(* Texts.  What the tool prints depends on its version and on the file;    *)
(* redact and normalise_driver take out where the file lies and which      *)
(* engine replays, so that a text is the same on every machine.            *)
(***************************************************************************)
Raw(what, c) == [what |-> what, tool |-> here.tool, file |-> here.file[c], place |-> here.place, engine |-> here.engine]
Redact(text) == [text EXCEPT !.place = "<capture>"]
NormaliseDriver(text) == [text EXCEPT !.engine = "<engine>"]

\* An offline command prints no engine, the A/B document of a bundle no file.
Transcript(what, c) == NormaliseDriver(Redact(Raw(what, c)))

\* The labels are hand-written: version 1 of the tool counted them, on the corpus's own file.
Labelled(what) == [what |-> what, tool |-> 1]

(***************************************************************************)
(* The corpus names a file per capture by its digest; the local paths,     *)
(* beside it and not in the repository, say where this machine keeps it.   *)
(* A corpus of another version, a cause with a member missing or a verdict *)
(* of no meaning, a local path of no capture: the run is refused.          *)
(***************************************************************************)
TheFile == "recorded"

\* A known entry is a note, or a cause: its members, those left empty, its verdict.
CheckKnown(k) ==
    \/ DOMAIN k = {"note"}
    \/ /\ DOMAIN k = {"detector", "what", "evidence", "cause", "verdict"}
       /\ \A member \in DOMAIN k \ {"evidence"} : k[member] # ""
       /\ k.verdict \in {"confirmed", "not a defect"}

CorpusLoads ==
    /\ here.corpus.version = 1
    /\ here.local \subseteq Names_
    /\ \A k \in here.corpus.known : CheckKnown(k)

Present(c) == c \in here.local /\ here.file[c] # Missing
Selected(only) == {c \in Names_ : only \in {c, All_} /\ Present(c)}

TasksOf(c, mode) ==
    <<<<c, "identity">>>> \o [i \in 1..Len(Commands[c]) |-> <<c, Commands[c][i]>>]
      \o (IF c \in Driven THEN <<<<c, "driver">>>> ELSE <<>>)
      \o (IF mode = "write" THEN <<<<c, "document">>>> ELSE <<<<c, "labels">>, <<c, "bundle">>>>)

Tasks(mode, only) ==
    FlattenSeq([i \in 1..Len(Captures) |-> IF Captures[i] \in Selected(only) THEN TasksOf(Captures[i], mode) ELSE <<>>])

Idle == [mode |-> "idle", only |-> All_, tasks |-> <<>>, compared |-> {}, wrong |-> {}]

Refuse ==
    run.mode = "idle" /\ ~CorpusLoads /\ run' = [Idle EXCEPT !.mode = "refused"] /\ UNCHANGED <<here, golden, pairThread>>

\* The driver's own schema check runs first, where there is a driver.
Start(mode, only) ==
    /\ run.mode = "idle" /\ CorpusLoads
    /\ run' = [mode |-> mode, only |-> only, tasks |-> Tasks(mode, only), compared |-> Selected(only),
               wrong |-> IF mode = "check" /\ here.driver = "stale" THEN {<<"driver", "schema">>} ELSE {}]
    /\ pairThread' = IF mode = "check" /\ only = All_ THEN "running" ELSE "none"
    /\ UNCHANGED <<here, golden>>

(***************************************************************************)
(* The tasks.                                                              *)
(***************************************************************************)
Judge(wrong) == run' = [run EXCEPT !.tasks = Tail(@), !.wrong = @ \cup (IF wrong THEN {Head(run.tasks)} ELSE {})]

Held(c, what) == golden[<<c, what>>]
Keep(c, what, text) == golden' = [golden EXCEPT ![<<c, what>>] = text]

Identity(c, what) == what = "identity" /\ Judge(here.file[c] # TheFile) /\ UNCHANGED golden

\* A missing transcript is a mismatch like a different one.
DiffersUnlessMissing(c, what) == Held(c, what) \notin {NoText, Transcript(what, c)}
Differs(c, what) == Held(c, what) # Transcript(what, c)

CheckTranscripts(c, what) ==
    /\ what \in Range(Commands[c])
    /\ IF run.mode = "write" THEN Keep(c, what, Transcript(what, c)) /\ Judge(FALSE)
       ELSE Judge(Differs(c, what)) /\ UNCHANGED golden

\* No driver or no device: not compared.  A crash is a mismatch in either mode, and never written.
CheckDriver(c, what) ==
    /\ what = "driver"
    /\ IF here.driver \in {"absent", "no device"} THEN Judge(FALSE) /\ UNCHANGED golden
       ELSE IF here.driver = "crashes" THEN Judge(TRUE) /\ UNCHANGED golden
       ELSE IF run.mode = "write" THEN Keep(c, what, Transcript(what, c)) /\ Judge(FALSE)
       ELSE Judge(Differs(c, what)) /\ UNCHANGED golden

\* A label that could not be checked is not a passing label.
CheckLabels(c, what) ==
    /\ what = "labels"
    /\ Judge(~here.chunkMap \/ here.file[c] # TheFile \/ Labelled(what) # [what |-> what, tool |-> here.tool])
    /\ UNCHANGED golden

\* validate, report, replaydiff against itself: a broken bundle fails each of them.
Document(c) == [what |-> "document", tool |-> here.tool, bundle |-> here.bundle[c]]

CheckBundle(c, what) ==
    /\ what = "bundle"
    /\ Judge(here.bundle[c] # Missing /\
                (here.bundle[c] = "broken" \/ here.tool # 1 \/ Held(c, "document") # Document(c)))
    /\ UNCHANGED golden

WriteDocument(c, what) ==
    /\ what = "document"
    /\ IF here.bundle[c] = "whole" THEN Keep(c, what, Document(c)) ELSE UNCHANGED golden
    /\ Judge(here.bundle[c] = "broken")

Task ==
    /\ run.mode \in {"check", "write"} /\ run.tasks # <<>>
    /\ \E c \in Names_, what \in {Head(run.tasks)[2]} :
          /\ c = Head(run.tasks)[1]
          /\ \/ Identity(c, what) \/ CheckTranscripts(c, what) \/ CheckDriver(c, what)
             \/ CheckLabels(c, what) \/ CheckBundle(c, what) \/ WriteDocument(c, what)
    /\ UNCHANGED <<here, pairThread>>

CheckPair ==
    /\ pairThread = "running"
    /\ LET bundles == {here.bundle[c] : c \in Pair}
       IN  pairThread' = IF Missing \in bundles THEN "skipped" ELSE IF "broken" \in bundles THEN "fails"
                         ELSE IF here.tool # 1 THEN "differs" ELSE "same"
    /\ UNCHANGED <<here, golden, run>>

\* The exit code of a run that has joined its pair; a write never fails.
Exit ==
    CASE run.mode = "wrote" -> 0
      [] run.mode = "refused" -> 2
      [] run.compared = {} /\ pairThread \notin {"same", "differs"} -> 2
      [] OTHER -> IF run.wrong # {} \/ pairThread \in {"differs", "fails"} THEN 1 ELSE 0

Finish ==
    /\ run.mode \in {"check", "write"} /\ run.tasks = <<>> /\ pairThread # "running"
    /\ run' = [run EXCEPT !.mode = IF @ = "write" THEN "wrote" ELSE "checked"]
    /\ UNCHANGED <<here, golden, pairThread>>

\* Killed anywhere: a text is opened with 'w' before it is written.
Killed ==
    /\ run.mode \in {"check", "write"} /\ run' = Idle /\ pairThread' = "none" /\ UNCHANGED here
    /\ \/ UNCHANGED golden
       \/ /\ run.mode = "write" /\ run.tasks # <<>> /\ Head(run.tasks) \in DOMAIN golden
          /\ golden' = [golden EXCEPT ![Head(run.tasks)] = TornText]

Acknowledge ==
    run.mode \in {"checked", "wrote", "refused"} /\ run' = Idle /\ pairThread' = "none" /\ UNCHANGED <<here, golden>>

(***************************************************************************)
(* Between runs the machine changes: another build of the tool, a capture  *)
(* taken again or moved, another engine, a bundle dumped, broken or gone,  *)
(* a driver, the corpus itself.                                            *)
(***************************************************************************)
Texts == UNION {{<<c, what>> : what \in Range(Commands[c]) \cup (IF c \in Driven THEN {"driver"} ELSE {}) \cup {"document"}} :
                   c \in Names_}

GoldensInit(machine) ==
    /\ here = machine /\ golden = [t \in Texts |-> NoText] /\ run = Idle /\ pairThread = "none"

Change(machine) == run.mode = "idle" /\ here' = machine /\ UNCHANGED <<golden, run, pairThread>>

GoldensStep ==
    \/ \E mode \in {"check", "write"}, only \in Names_ \cup {All_} : Start(mode, only)
    \/ Refuse \/ Task \/ CheckPair \/ Finish \/ Killed \/ Acknowledge

\* Any run after any other, on one machine of `machines` after another.
GoldensSpec(machines) ==
    (\E machine \in machines : GoldensInit(machine))
      /\ [][GoldensStep \/ \E machine \in machines : Change(machine)]_goldenVars

(***************************************************************************)
(* The verdict of a check speaks for the corpus: it is 0 exactly when      *)
(* something was compared and, for every selected capture of this machine, *)
(* the file is the recorded one and every text this machine can produce    *)
(* was written whole, by this tool, over that file or a copy of it lying   *)
(* elsewhere, under whatever engine; however many writes were killed or    *)
(* limited to one capture before it (rdc_goldens.py:715, 1195).            *)
(***************************************************************************)
WrittenByThis(c, what) ==
    LET text == Held(c, what)
    IN  /\ text \notin {NoText, TornText} /\ text.tool = here.tool
        /\ what # "document" => text.file = TheFile

VerdictSpeaksForTheCorpus ==
    run.mode \in {"checked", "refused"} =>
        LET chosen == Selected(run.only)
            dumped(c) == here.bundle[c] # Missing
            paired == run.only = All_ /\ \A c \in Pair : dumped(c)
        IN  Exit = 0 <=>
              /\ CorpusLoads
              /\ chosen # {} \/ paired
              /\ here.tool = 1 \/ (chosen = {} /\ ~paired)
              /\ here.driver # "stale"
              /\ \A c \in chosen :
                    /\ here.file[c] = TheFile /\ here.chunkMap
                    /\ \A what \in Range(Commands[c]) : WrittenByThis(c, what)
                    /\ c \in Driven => /\ here.driver # "crashes"
                                       /\ here.driver = "works" => WrittenByThis(c, "driver")
                    /\ dumped(c) => here.bundle[c] = "whole" /\ WrittenByThis(c, "document")
              /\ paired => \A c \in Pair : here.bundle[c] = "whole"
=============================================================================
