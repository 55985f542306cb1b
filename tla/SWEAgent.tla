------------------------------ MODULE SWEAgent ------------------------------
(***************************************************************************)
(* zilli/swe: one run of SWEAgent on a working copy.  LoopRunner tries at   *)
(* most max_retries + 1 attempts; each explores the copy, asks the model    *)
(* for a diagnosis and for the new text of every target file, writes the    *)
(* files and runs the tests on the copy.  Nothing an attempt wrote is taken *)
(* back.  The model, a write, docker and the whole process may fail.        *)
(* read_text turns every line end into a newline and write_text leaves      *)
(* newlines as they are (POSIX: zilli imports fcntl).                       *)
(* Names that MetaLoop has, too, begin with Agent: MetaLoop_proofs extends  *)
(* both modules.                                                            *)
(***************************************************************************)
EXTENDS Naturals, Sequences, SequencesExt, FiniteSetsExt

CONSTANTS
    File,          \* numbers of the Python files, in the order sorted() gives
    Absent,        \* files a model may name that are not there
    None,          \* no text: a file that is absent or empty, no output yet
    Garbled,       \* what is not UTF-8
    Text,          \* texts of a file
    Universal,     \* a text as read_text gives it, with newlines for its line ends
    Original,      \* what every file starts with
    Patterns,      \* config.target_files, or "src" and ".": one search for each
    MaxIterations, \* config.max_iterations
    MaxFaults      \* bound: writes and docker commands that fail

ASSUME SWEAssumption ==
    /\ File \subseteq Nat /\ Absent \subseteq Nat
    /\ {None, Garbled} \cap Text = {} /\ None # Garbled
    /\ Universal \in [Text -> Text] /\ \A t \in Text : Universal[Universal[t]] = Universal[t]
    /\ Original \in [File -> Text \union {None, Garbled}]
    /\ {Patterns, MaxIterations, MaxFaults} \subseteq Nat

VARIABLES
    work,      \* the working copy
    step,      \* where the run is
    tries,     \* attempts begun
    explored,  \* ctx.explored_files
    targets,   \* explore.files, then the files still to be rewritten
    patch,     \* PatchFiles of this attempt
    written,   \* how many of them apply has written
    diff,      \* ctx.current_patch: the PatchFiles it was made of
    output,    \* ctx.test_output: the copy whose failure it reports
    container, \* "none", "up", or "lost" once its id is forgotten
    success,   \* LoopResult.success
    before,    \* history: the copy at the start of the attempt
    torn,      \* history: some write has failed
    faults

agentVars == <<work, step, tries, explored, targets, patch, written, diff, output,
          container, success, before, torn, faults>>

Base == [f \in File \union Absent |-> IF f \in File THEN Original[f] ELSE None]

AgentInit ==
    /\ work = Base
    /\ step = "start"
    /\ tries = 0
    /\ explored = {}
    /\ targets = <<>>
    /\ patch = <<>>
    /\ written = 0
    /\ diff = <<>>
    /\ output = None
    /\ container = "none"
    /\ success = FALSE
    /\ before = Base
    /\ torn = FALSE
    /\ faults = 0

Fault == faults < MaxFaults /\ faults' = faults + 1

\* Sandbox.ensure_container: without docker, and when docker run prints no
\* id, the run goes on without one.
EnsureContainer ==
    /\ container' \in {"none", "up"}

\* run, up to LoopRunner.run.
Run ==
    /\ step = "start"
    /\ EnsureContainer
    /\ step' = "attempt"
    /\ UNCHANGED <<work, tries, explored, targets, patch, written, diff, output,
                   success, before, torn, faults>>

\* _grep: files with one of the words of the issue, in order; a search that
\* fails finds fewer.
Grep(found) == SetToSortSeq(found, <)

\* _glob_files: every Python file, an empty one included.
GlobFiles == SetToSortSeq(File, <)

\* read_file_content: a file that is absent, empty or not UTF-8 reads "".
Readable(f) == f \in DOMAIN work /\ work[f] \in Text

\* The same search for every pattern, so a file is listed once for each;
\* files seen before are left out, unless nothing else is left.
Listed(found) ==
    LET fresh == Grep(found \ explored)
        all == FoldSeq(LAMBDA p, acc : acc \o fresh, <<>>, [p \in 1..Patterns |-> p])
    IN IF all = <<>> THEN GlobFiles ELSE all

\* What _extract_targets answers: files on the AFFECTED_FILES line that are
\* Python files, or the first three files explored.
Targets(listed) ==
    {SubSeq(listed, 1, Min({3, Len(listed)}))}
        \union {<<f>> : f \in File \union Absent}
        \union {<<f, g>> : f, g \in File \union Absent}

\* An exception ends an attempt, without the correction; the next one follows
\* unless it was the last.
AttemptRaises(attempt) == step' = IF attempt <= MaxIterations THEN "attempt" ELSE "cleanup"
AttemptFails == AttemptRaises(tries)

BeginAttempt ==
    /\ tries' = tries + 1
    /\ patch' = <<>>
    /\ written' = 0
    /\ before' = work

Narrow(listed) == explored' = explored \union ToSet(listed)

\* _explore reads the first ten files: _read_file catches an OSError, but not
\* the UnicodeDecodeError of a file that is not UTF-8.
ReadFails(listed) == \E i \in 1..Min({10, Len(listed)}) : work[listed[i]] = Garbled

Explore ==
    /\ step = "attempt"
    /\ BeginAttempt
    /\ \E found \in SUBSET {f \in File : work[f] # None} :
         LET listed == Listed(found)
         IN  \/ /\ ~ReadFails(listed)
                /\ step' = "diagnose"
                /\ targets' = listed
                /\ Narrow(listed)
             \/ /\ ReadFails(listed)
                /\ AttemptRaises(tries + 1)
                /\ targets' = <<>>
                /\ UNCHANGED explored
    /\ UNCHANGED <<work, diff, output, container, success, torn, faults>>

Diagnose ==
    /\ step = "diagnose"
    /\ \/ step' = "propose" /\ targets' \in Targets(targets)
       \/ AttemptFails /\ targets' = <<>>
    /\ UNCHANGED <<work, tries, explored, patch, written, diff, output, container,
                   success, before, torn, faults>>

\* Where a file is listed in the patch.
Entries(f) == {i \in DOMAIN patch : patch[i].path = f}

PatchFile(f, old, new) == [path |-> f, old |-> old, new |-> new]

AddFile_Chained(f, new) ==
    LET old == IF Entries(f) = {} THEN Universal[work[f]] ELSE patch[Max(Entries(f))].new
    IN Append(patch, PatchFile(f, old, new))

\* The old text is the one read from disk, even when the file is already in the patch.
AddFile(f, new) == Append(patch, PatchFile(f, Universal[work[f]], new))

\* _extract_code: what an answer that is not empty and changes the file holds.
Answers(f) == Text \ {Universal[work[f]]}

\* _propose_fix, one target at a time: a file that reads "" is skipped,
\* and so is an answer that is empty or changes nothing.
Propose ==
    /\ step = "propose" /\ targets # <<>>
    /\ targets' = Tail(targets)
    /\ LET f == Head(targets)
       IN \/ patch' = patch /\ step' = step
          \/ /\ Readable(f)
             /\ \E new \in Answers(f) : patch' = AddFile(f, new)
             /\ step' = step
          \/ Readable(f) /\ AttemptFails /\ patch' = patch
    /\ UNCHANGED <<work, tries, explored, written, diff, output, container,
                   success, before, torn, faults>>

\* SWEPatch.apply, one file at a time.
Write ==
    /\ step = "propose" /\ targets = <<>> /\ written < Len(patch)
    /\ work' = [work EXCEPT ![patch[written + 1].path] = patch[written + 1].new]
    /\ written' = written + 1
    /\ UNCHANGED <<step, tries, explored, targets, patch, diff, output, container,
                   success, before, torn, faults>>

\* write_text fails before it has truncated the file, or leaves what came of
\* the text, if need be cut inside a character; the files before it stay
\* written, and the patch is not recorded.
WriteFails ==
    /\ step = "propose" /\ targets = <<>> /\ written < Len(patch)
    /\ Fault
    /\ \/ work' = work
       \/ \E left \in Text \union {None, Garbled} :
             work' = [work EXCEPT ![patch[written + 1].path] = left]
    /\ torn' = TRUE
    /\ AttemptFails
    /\ UNCHANGED <<tries, explored, targets, patch, written, diff, output, container,
                   success, before>>

Recorded_Always == patch

\* _fix_attempt: a patch without files leaves the diff of an earlier attempt.
Recorded == IF patch # <<>> THEN patch ELSE diff

Applied ==
    /\ step = "propose" /\ targets = <<>> /\ written = Len(patch)
    /\ diff' = Recorded
    /\ step' = "verify"
    /\ UNCHANGED <<work, tries, explored, targets, patch, written, output, container,
                   success, before, torn, faults>>

\* TestSuiteVerifier.verify: exit code 0.
TestsPass ==
    /\ step = "verify"
    /\ success' = TRUE
    /\ step' = "cleanup"
    /\ UNCHANGED <<work, tries, explored, targets, patch, written, diff, output,
                   container, before, torn, faults>>

NarrowScope_FirstOnly == IF output = None THEN work ELSE output

\* _narrow_scope: the evidence of this failure replaces the one before.
NarrowScope == work

\* Another exit code, a timeout or a command that cannot run.
TestsFail ==
    /\ step = "verify"
    /\ output' = NarrowScope
    /\ AttemptFails
    /\ UNCHANGED <<work, tries, explored, targets, patch, written, diff, container,
                   success, before, torn, faults>>

\* Sandbox.cleanup: the id is forgotten whether or not docker rm worked.
Cleanup ==
    /\ step = "cleanup"
    /\ step' = "end"
    /\ \/ container' = "none" /\ UNCHANGED faults
       \/ container = "up" /\ container' = "lost" /\ Fault
    /\ UNCHANGED <<work, tries, explored, targets, patch, written, diff, output,
                   success, before, torn>>

\* The run is cancelled or the process ends: cleanup is not in a finally.
Cancel ==
    /\ step \notin {"start", "end"}
    /\ step' = "end"
    /\ container' = IF container = "up" THEN "lost" ELSE container
    /\ Fault
    /\ UNCHANGED <<work, tries, explored, targets, patch, written, diff, output,
                   success, before, torn>>

AgentNext ==
    \/ Run \/ Explore \/ Diagnose \/ Propose
    \/ Write \/ WriteFails \/ Applied
    \/ TestsPass \/ TestsFail \/ Cleanup \/ Cancel

AgentSpec == AgentInit /\ [][AgentNext]_agentVars

(***************************************************************************)
(* SWEResult.patch and SWEPatch.revert                                      *)
(***************************************************************************)

\* run reports a SWEPatch of its own, which only gets a description.
ReportedFiles == <<>>

\* revert writes the old texts in the order of the patch: of a file that is
\* listed twice the last one stays.
Reverted(copy) ==
    [f \in DOMAIN copy |-> IF Entries(f) = {} THEN copy[f] ELSE patch[Max(Entries(f))].old]

(***************************************************************************)
(* Properties                                                               *)
(***************************************************************************)

Path == File \union Absent
Copy == [Path -> Text \union {None, Garbled}]
Patch == Seq([path : Path, old : Text, new : Text])

AgentTypeOK ==
    /\ work \in Copy /\ before \in Copy
    /\ step \in {"start", "attempt", "diagnose", "propose", "verify", "cleanup", "end"}
    /\ tries \in Nat /\ faults \in Nat
    /\ patch \in Patch /\ diff \in Patch
    /\ written \in 0..Len(patch)
    /\ output \in Copy \union {None}
    /\ container \in {"none", "up", "lost"}
    /\ success \in BOOLEAN /\ torn \in BOOLEAN

\* Every entry of the patch has the text read before the attempt, and nothing
\* else of the copy has changed; the answers are asked for before the first write.
PatchOfAttempt ==
    /\ \A i \in DOMAIN patch :
          /\ before[patch[i].path] \in Text
          /\ patch[i].old = Universal[before[patch[i].path]]
    /\ \A f \in Path : work[f] # before[f] => Entries(f) # {}
    /\ (step = "diagnose" \/ (step = "propose" /\ targets # <<>>)) => written = 0
    /\ step \in {"diagnose", "propose"} /\ written = 0 => work = before

\* A copy holds what the last of the first n entries of a patch say of a file.
Holds(copy, p, n) ==
    \A i \in 1..n :
        (\A j \in (i + 1)..n : p[j].path # p[i].path) => copy[p[i].path] = p[i].new

\* While no write has failed the copy is the one the run was given, or has what
\* the diff says, but for a patch that is being written or was when a run ended.
ChangeInProgress ==
    /\ success => step \in {"cleanup", "end"}
    /\ ~torn =>
         IF step = "propose" /\ written > 0
         THEN Holds(work, patch, written)
         ELSE \/ step = "end" /\ ~success
              \/ (diff = <<>> => work = Base) /\ Holds(work, diff, Len(diff))

\* From one test failure to the first write after it, the copy is the one that failed.
OutputOfCopy ==
    /\ step = "start" => output = None
    /\ step \in {"attempt", "diagnose"} \/ (step = "propose" /\ written = 0) =>
           (output # None /\ ~torn => output = work)

\* The context of a run whose tests passed tells the last change that was made:
\* when the copy is not the one the run was given there is a diff, even when the
\* attempt that passed changed nothing, and its files have the texts the diff gave
\* them. Only a write that failed leaves it wrong (_fix_attempt, ctx.current_patch).
ContextTellsChange ==
    step = "end" /\ success /\ ~torn =>
        /\ work # Base => diff # <<>>
        /\ Holds(work, diff, Len(diff))

\* docs/howto-common-tasks.md:168 of a result: "`patch.to_diff()`: unified diff of
\* changes made". A run that succeeded by changing the copy reports its files.
PatchIsReported == step = "end" /\ success /\ work # Base => ReportedFiles # <<>>

\* A diagnosis is made of the copy whose test failure it is given: attempts
\* that raised in between have not touched the copy, unless a write failed.
DiagnosisSeesLastTest ==
    step = "diagnose" /\ output # None /\ ~torn => output = work

\* The texts of two files are equal but for their line ends.
SameText(a, b) == a = b \/ (a \in Text /\ b \in Text /\ Universal[a] = Universal[b])

\* Whatever part of an attempt's patch was written, and however a write was cut,
\* revert gives back the copy the attempt began with, a file listed twice included:
\* its texts but for their line ends, and exactly where they were newlines already.
RevertRestores ==
    \A f \in Path :
        /\ SameText(Reverted(work)[f], before[f])
        /\ before[f] \in Text /\ Universal[before[f]] = before[f] => Reverted(work)[f] = before[f]

=============================================================================
