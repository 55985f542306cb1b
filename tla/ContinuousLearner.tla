--------------------------- MODULE ContinuousLearner ---------------------------
(***************************************************************************)
(* zilli/learner/continuous_learner.py: ContinuousLearner.run over the      *)
(* files of a data directory, and zilli/data/experience_replay.py:          *)
(* TrajectoryStore.add_trajectory.  Producers write the files while the     *)
(* learner reads them; the store lives in memory and the files survive a    *)
(* crash.  Files are numbered in the order of their names.                  *)
(***************************************************************************)
EXTENDS Naturals, Sequences, FiniteSets

CONSTANTS
    File,        \* names of *.json files, a set of numbers
    Content,     \* the trajectories of a file once it is written
    Undecodable, \* files whose bytes are not UTF-8
    MaxSize,     \* TrajectoryStore.max_size
    Threshold,   \* ContinuousLearner.sft_threshold
    MaxFaults    \* bound: read, write and move errors, and crashes

Kind == {"golden", "failure", "neutral", "short", "malformed"}

ASSUME FileAssumption == File \subseteq Nat /\ Undecodable \subseteq File
ASSUME ContentAssumption == Content \in [File -> Seq(Kind)]
ASSUME SizeAssumption == MaxSize \in Nat \ {0} /\ Threshold \in Nat /\ MaxFaults \in Nat

VARIABLES
    data,      \* state of each file of data_dir
    archived,  \* files with a copy in archive_dir
    store,     \* the three lists of the TrajectoryStore
    pc,        \* where run() is
    running,   \* ContinuousLearner._running
    todo,      \* listed files still to be read
    processed, \* processed_files
    batch,     \* new_trajectories still to be added
    seen,      \* history: trajectories ever added to a store
    again,     \* history: files of which a trajectory was added twice
    excused,   \* history: files left in data_dir by an error or a crash
    faults     \* number of errors and crashes so far

files == <<data, archived>>
cycle == <<todo, processed, batch>>
history == <<seen, again, excused>>
vars == <<data, archived, store, pc, running, todo, processed, batch, seen, again, excused, faults>>

Trajectory == {t \in File \X Nat : t[2] \in DOMAIN Content[t[1]]}
KindOf(t) == Content[t[1]][t[2]]
Of(f) == [i \in 1..Len(Content[f]) |-> <<f, i>>]

Bucket == {"golden", "failure", "neutral"}
Empty == [b \in Bucket |-> <<>>]
Total(s) == Len(s["golden"]) + Len(s["failure"]) + Len(s["neutral"])

Running == {"sleeping", "awake", "reading", "adding", "training", "logging", "archiving"}
InCycle == {"adding", "training", "logging", "archiving"}

Init ==
    /\ data = [f \in File |-> "absent"]
    /\ archived = {}
    /\ store = Empty
    /\ pc = "new"
    /\ running = FALSE
    /\ todo = {}
    /\ processed = {}
    /\ batch = <<>>
    /\ seen = {}
    /\ again = {}
    /\ excused = {}
    /\ faults = 0

-----------------------------------------------------------------------------
(* The trajectory store *)

\* The first bucket that loses entries when the store is over its size.
Victim_GoldenFirst(s) ==
    CASE s["golden"] # <<>> -> "golden"
      [] s["golden"] = <<>> /\ s["failure"] # <<>> -> "failure"
      [] OTHER -> "neutral"

Victim(s) ==
    CASE s["neutral"] # <<>> -> "neutral"
      [] s["neutral"] = <<>> /\ s["failure"] # <<>> -> "failure"
      [] OTHER -> "golden"

Enforce(s) ==
    IF Total(s) <= MaxSize THEN s
    ELSE [s EXCEPT ![Victim(s)] = SubSeq(@, Total(s) - MaxSize + 1, Len(@))]

Added(s, t) ==
    IF KindOf(t) \in Bucket THEN Enforce([s EXCEPT ![KindOf(t)] = Append(@, t)]) ELSE s

-----------------------------------------------------------------------------
(* Producers and the owner of the learner *)

\* A file being written is "cut" while it ends inside a multi-byte character
\* and "partial" while it ends after one.
Unfinished == {"partial", "cut"}

Write(f) ==
    /\ data[f] \in {"absent"} \union Unfinished
    /\ \E end \in Unfinished : data' = [data EXCEPT ![f] = end]
    /\ UNCHANGED <<archived, store, pc, running, cycle, history, faults>>

FinishWrite(f) ==
    /\ data[f] \in Unfinished
    /\ data' = [data EXCEPT ![f] = "written"]
    /\ UNCHANGED <<archived, store, pc, running, cycle, history, faults>>

BeginRun ==
    /\ pc \in {"new", "stopped"}
    /\ running' = TRUE
    /\ pc' = "awake"
    /\ UNCHANGED <<files, store, cycle, history, faults>>

\* stop() runs only while run() awaits.
Stop ==
    /\ running
    /\ pc \in {"sleeping", "training", "logging"} \/ (pc = "reading" /\ todo # {})
    /\ running' = FALSE
    /\ UNCHANGED <<files, store, pc, cycle, history, faults>>

Fault ==
    /\ faults < MaxFaults
    /\ faults' = faults + 1

\* Files of which something was added and which the next cycle reads again.
LeftBehind(d) == {f \in File : d[f] = "written" /\ \E t \in seen : t[1] = f}

Crash ==
    /\ Fault
    /\ pc \in Running
    /\ pc' = "new"
    /\ running' = FALSE
    /\ store' = Empty
    /\ todo' = {}
    /\ processed' = {}
    /\ batch' = <<>>
    /\ excused' = excused \union LeftBehind(data)
    /\ UNCHANGED <<files, seen, again>>

-----------------------------------------------------------------------------
(* run() *)

\* The head of the loop and the sorted listing of *.json.
LoopTest ==
    /\ pc = "awake"
    /\ IF running
         THEN /\ pc' = "reading"
              /\ todo' = {f \in File : data[f] \in Unfinished \union {"written"}}
         ELSE /\ pc' = "stopped"
              /\ todo' = {}
    /\ UNCHANGED <<files, store, running, processed, batch, history, faults>>

Next_file(f) ==
    /\ pc = "reading"
    /\ f \in todo
    /\ \A g \in todo : f <= g

ReadFile(f) ==
    /\ Next_file(f)
    /\ data[f] = "written"
    /\ f \notin Undecodable
    /\ batch' = batch \o Of(f)
    /\ processed' = processed \union {f}
    /\ todo' = todo \ {f}
    /\ UNCHANGED <<files, store, pc, running, history, faults>>

SkipFile_Processed(f) ==
    /\ Next_file(f)
    /\ (data[f] = "partial" /\ UNCHANGED faults) \/ Fault
    /\ todo' = todo \ {f}
    /\ processed' = processed \union {f}
    /\ UNCHANGED <<files, store, pc, running, batch, history>>

SkipFile_Break(f) ==
    /\ Next_file(f)
    /\ (data[f] = "partial" /\ UNCHANGED faults) \/ Fault
    /\ todo' = {}
    /\ UNCHANGED <<files, store, pc, running, processed, batch, history>>

\* JSONDecodeError for a file that is still being written, or an IOError.
SkipFile(f) ==
    /\ Next_file(f)
    /\ (data[f] = "partial" /\ UNCHANGED faults) \/ Fault
    /\ todo' = todo \ {f}
    /\ UNCHANGED <<files, store, pc, running, processed, batch, history>>

\* The except clause around a cycle: nothing of the cycle is kept but what is
\* in the store already, and no file is moved.
CycleFails ==
    /\ pc' = "sleeping"
    /\ todo' = {}
    /\ processed' = {}
    /\ batch' = <<>>
    /\ excused' = excused \union LeftBehind(data)
    /\ UNCHANGED <<files, store, running, seen, again>>

\* UnicodeDecodeError is neither a JSONDecodeError nor an IOError: a file that is
\* not UTF-8, or not yet, ends the cycle.
ReadRaises(f) ==
    /\ Next_file(f)
    /\ data[f] = "cut" \/ (data[f] = "written" /\ f \in Undecodable)
    /\ CycleFails
    /\ UNCHANGED faults

AllRead ==
    /\ pc = "reading"
    /\ todo = {}
    /\ pc' = "adding"
    /\ UNCHANGED <<files, store, running, cycle, history, faults>>

AddTrajectory ==
    /\ pc = "adding"
    /\ batch # <<>>
    /\ KindOf(Head(batch)) # "malformed"
    /\ store' = Added(store, Head(batch))
    /\ batch' = Tail(batch)
    /\ seen' = seen \union {Head(batch)}
    /\ again' = IF Head(batch) \in seen THEN again \union {Head(batch)[1]} ELSE again
    /\ UNCHANGED <<files, pc, running, todo, processed, excused, faults>>

\* A trajectory that is no dict raises after the ones before it were added.
AddRaises ==
    /\ pc = "adding"
    /\ batch # <<>>
    /\ KindOf(Head(batch)) = "malformed"
    /\ CycleFails
    /\ UNCHANGED faults

AllAdded_ArchiveIfTrained ==
    /\ pc = "adding"
    /\ batch = <<>>
    /\ IF Total(store) >= Threshold
         THEN pc' = "training" /\ UNCHANGED processed
         ELSE pc' = "sleeping" /\ processed' = {}
    /\ UNCHANGED <<files, store, running, todo, batch, history, faults>>

AllAdded ==
    /\ pc = "adding"
    /\ batch = <<>>
    /\ pc' = IF Total(store) >= Threshold THEN "training" ELSE "archiving"
    /\ UNCHANGED <<files, store, running, cycle, history, faults>>

\* The callback returns or raises; both go on to the log.
Train ==
    /\ pc = "training"
    /\ pc' = "logging"
    /\ UNCHANGED <<files, store, running, cycle, history, faults>>

WriteLog ==
    /\ pc = "logging"
    /\ pc' = "archiving"
    /\ UNCHANGED <<files, store, running, cycle, history, faults>>

LogOrMkdirRaises ==
    /\ pc \in {"logging", "archiving"}
    /\ Fault
    /\ CycleFails

\* A move may fail before or after the copy, and the loop goes on.
Archive ==
    /\ pc = "archiving"
    /\ \E moved \in SUBSET processed :
         /\ (moved = processed /\ UNCHANGED faults) \/ (moved # processed /\ Fault)
         /\ \E copied \in SUBSET processed : moved \subseteq copied /\ archived' = archived \union copied
         /\ data' = [f \in File |-> IF f \in moved THEN "moved" ELSE data[f]]
         /\ excused' = excused \union (processed \ moved)
    /\ processed' = {}
    /\ pc' = "sleeping"
    /\ UNCHANGED <<store, running, todo, batch, seen, again>>

\* The interval, or the back-off after an error.
Wake ==
    /\ pc = "sleeping"
    /\ pc' = "awake"
    /\ UNCHANGED <<files, store, running, cycle, history, faults>>

Run ==
    \/ LoopTest
    \/ \E f \in File : ReadFile(f) \/ SkipFile(f) \/ ReadRaises(f)
    \/ AllRead
    \/ AddTrajectory
    \/ AddRaises
    \/ AllAdded
    \/ Train
    \/ WriteLog
    \/ LogOrMkdirRaises
    \/ Archive
    \/ Wake

Next ==
    \/ \E f \in File : Write(f) \/ FinishWrite(f)
    \/ BeginRun
    \/ Stop
    \/ Crash
    \/ Run

Spec == Init /\ [][Next]_vars /\ WF_vars(Run)

-----------------------------------------------------------------------------
(* Properties *)

\* Every variable has its type, at the size limit too: _enforce_max_size trims
\* one list per call, and one list is always enough.
TypeOK ==
    /\ data \in [File -> {"absent", "written", "moved"} \union Unfinished]
    /\ archived \subseteq File
    /\ store \in [Bucket -> Seq(Trajectory)]
    /\ Total(store) <= MaxSize
    /\ pc \in Running \union {"new", "stopped"}
    /\ running \in BOOLEAN
    /\ todo \subseteq File
    /\ processed \subseteq File
    /\ batch \in Seq(Trajectory)
    /\ seen \subseteq Trajectory
    /\ again \subseteq File
    /\ excused \subseteq File
    /\ faults \in 0..MaxFaults

\* A golden trajectory is dropped only when nothing else is left in the store
\* to drop: failures and neutral entries go first (_enforce_max_size).
GoldenLast ==
    [][\/ \E n \in 0..Len(store'["golden"]) : store["golden"] = SubSeq(store'["golden"], 1, n)
       \/ store'["failure"] = <<>> /\ store'["neutral"] = <<>>]_vars

\* Every trajectory of a file in archive_dir was added to a store, although
\* files are completed, skipped and moved while a cycle is under way
\* (_collect_production_trajectories, _archive_processed_data).
ArchivedWasAdded ==
    \A f \in archived : \A i \in DOMAIN Content[f] : <<f, i>> \in seen

\* A trajectory is added a second time only when an error or a crash had left
\* its file in data_dir: cycles without one never learn a file twice.
AddedOnce == again \subseteq excused

\* A file that makes every cycle fail while it stays as it is.
Poison(f) ==
    \/ data[f] = "written" /\ (f \in Undecodable \/ \E i \in DOMAIN Content[f] : Content[f][i] = "malformed")
    \/ data[f] = "cut"

\* A written file is archived in the end, whatever transient errors occur and
\* whichever files are left half written, unless the learner stops or meets a
\* file that ends the cycle: one that is malformed, that is not UTF-8, or that
\* was left cut inside a character (run, _collect_production_trajectories).
FilesArchived ==
    \A f \in File :
        (data[f] = "written" /\ running) ~> (data[f] = "moved" \/ ~running \/ \E g \in File : Poison(g))

=============================================================================
