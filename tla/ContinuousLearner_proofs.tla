------------------------ MODULE ContinuousLearner_proofs ------------------------
(***************************************************************************)
(* Proofs about ContinuousLearner for every set of files, every content,    *)
(* every size limit and every number of faults.                             *)
(***************************************************************************)
EXTENDS ContinuousLearner, SequenceTheorems, TLAPS

Stores == [Bucket -> Seq(Trajectory)]

(***************************************************************************)
(* The store.                                                              *)
(***************************************************************************)
LEMMA Buckets ==
    /\ "golden" \in Bucket /\ "failure" \in Bucket /\ "neutral" \in Bucket
    /\ \A b \in Bucket : b = "golden" \/ b = "failure" \/ b = "neutral"
    /\ "golden" # "failure" /\ "golden" # "neutral" /\ "failure" # "neutral"
BY DEF Bucket

LEMMA Sum ==
    ASSUME NEW g \in Nat, NEW f \in Nat, NEW n \in Nat
    PROVE  g + f + n \in Nat
OBVIOUS

LEMMA StoreLengths ==
    ASSUME NEW s \in Stores
    PROVE  /\ \A b \in Bucket : Len(s[b]) \in Nat /\ (s[b] = <<>> <=> Len(s[b]) = 0)
           /\ Total(s) \in Nat
<1>1. \A b \in Bucket : s[b] \in Seq(Trajectory) /\ Len(s[b]) \in Nat
    BY LenProperties DEF Stores
<1>2. \A b \in Bucket : s[b] = <<>> <=> Len(s[b]) = 0
    BY <1>1, EmptySeq
<1> DEFINE g == Len(s["golden"])
           f == Len(s["failure"])
           n == Len(s["neutral"])
<1>3. g \in Nat /\ f \in Nat /\ n \in Nat
    BY <1>1, Buckets
<1>4. Total(s) = g + f + n
    BY DEF Total
<1> HIDE DEF g, f, n
<1>5. Total(s) \in Nat
    BY <1>3, <1>4, Sum
<1>6. QED
    BY <1>1, <1>2, <1>5

\* Replacing one list changes the total by the change of its length.
LEMMA TotalExcept ==
    ASSUME NEW s \in Stores, NEW b \in Bucket, NEW q \in Seq(Trajectory)
    PROVE  /\ [s EXCEPT ![b] = q] \in Stores
           /\ Total([s EXCEPT ![b] = q]) = Total(s) - Len(s[b]) + Len(q)
<1> DEFINE r == [s EXCEPT ![b] = q]
           g == Len(s["golden"])
           f == Len(s["failure"])
           n == Len(s["neutral"])
           k == Len(q)
<1>1. r \in Stores
    BY DEF Stores
<1>2. r[b] = q /\ \A c \in Bucket : c # b => r[c] = s[c]
    BY DEF Stores
<1>3. g \in Nat /\ f \in Nat /\ n \in Nat /\ k \in Nat
    BY StoreLengths, Buckets, LenProperties
<1>4. Total(s) = g + f + n
    BY DEF Total
<1>5. CASE b = "golden"
    <2>1. Total(r) = k + f + n /\ Len(s[b]) = g
        BY <1>2, <1>5, Buckets DEF Total
    <2> HIDE DEF g, f, n, k, r
    <2>2. Total(r) = Total(s) - g + k
        BY <1>3, <1>4, <2>1
    <2>3. QED
        BY <1>1, <2>1, <2>2 DEF r, k
<1>6. CASE b = "failure"
    <2>1. Total(r) = g + k + n /\ Len(s[b]) = f
        BY <1>2, <1>6, Buckets DEF Total
    <2> HIDE DEF g, f, n, k, r
    <2>2. Total(r) = Total(s) - f + k
        BY <1>3, <1>4, <2>1
    <2>3. QED
        BY <1>1, <2>1, <2>2 DEF r, k
<1>7. CASE b = "neutral"
    <2>1. Total(r) = g + f + k /\ Len(s[b]) = n
        BY <1>2, <1>7, Buckets DEF Total
    <2> HIDE DEF g, f, n, k, r
    <2>2. Total(r) = Total(s) - n + k
        BY <1>3, <1>4, <2>1
    <2>3. QED
        BY <1>1, <2>1, <2>2 DEF r, k
<1>8. QED
    BY <1>5, <1>6, <1>7, Buckets

\* A store over its size by one entry loses its oldest entry of one list, and
\* that list has one.
LEMMA EnforceFits ==
    ASSUME NEW s \in Stores, Total(s) <= MaxSize + 1
    PROVE  Enforce(s) \in Stores /\ Total(Enforce(s)) <= MaxSize
<1>1. CASE Total(s) <= MaxSize
    BY <1>1 DEF Enforce
<1>2. CASE ~ (Total(s) <= MaxSize)
    <2> DEFINE v == Victim(s)
               rest == SubSeq(s[v], 2, Len(s[v]))
    <2>1. Total(s) \in Nat /\ MaxSize \in Nat \ {0}
        BY SizeAssumption, StoreLengths
    <2>2. Total(s) = MaxSize + 1 /\ Total(s) # 0
        BY <1>2, <2>1
    <2>3. v \in Bucket
        BY DEF Victim, Bucket
    <2>4. s["neutral"] # <<>> \/ s["failure"] # <<>> \/ s["golden"] # <<>>
        <3>1. CASE \A b \in Bucket : s[b] = <<>>
            <4>1. Len(s["golden"]) = 0 /\ Len(s["failure"]) = 0 /\ Len(s["neutral"]) = 0
                BY <3>1, Buckets, StoreLengths
            <4>2. Total(s) = 0
                BY <4>1 DEF Total
            <4>3. QED
                BY <2>2, <4>2
        <3>2. QED
            BY <3>1, Buckets
    <2>5. s[v] # <<>>
        BY <2>4 DEF Victim
    <2>6. s[v] \in Seq(Trajectory) /\ Len(s[v]) \in Nat
        BY <2>3, LenProperties DEF Stores
    <2>7. rest = Tail(s[v])
        BY <2>5, <2>6, TailIsSubSeq
    <2>8. rest \in Seq(Trajectory) /\ Len(rest) = Len(s[v]) - 1
        BY <2>5, <2>6, <2>7, HeadTailProperties
    <2>9. Total(s) - MaxSize + 1 = 2
        BY <2>1, <2>2
    <2>10. Enforce(s) = [s EXCEPT ![v] = rest]
        BY <1>2, <2>9 DEF Enforce
    <2>11. Enforce(s) \in Stores /\ Total(Enforce(s)) = Total(s) - Len(s[v]) + Len(rest)
        <3> HIDE DEF v, rest
        <3>1. /\ [s EXCEPT ![v] = rest] \in Stores
              /\ Total([s EXCEPT ![v] = rest]) = Total(s) - Len(s[v]) + Len(rest)
            BY <2>3, <2>8, TotalExcept
        <3>2. QED
            BY <2>10, <3>1
    <2> DEFINE old == Len(s[v])
               new == Len(rest)
    <2>12. new \in Nat /\ old \in Nat /\ new = old - 1
        BY <2>6, <2>8, LenProperties
    <2>13. Total(Enforce(s)) = Total(s) - old + new
        BY <2>11
    <2> HIDE DEF old, new
    <2>14. Total(Enforce(s)) <= MaxSize
        BY <2>1, <2>2, <2>12, <2>13
    <2>15. QED
        BY <2>11, <2>14
<1>3. QED
    BY <1>1, <1>2

LEMMA AppendedTotal ==
    ASSUME NEW s \in Stores, NEW t \in Trajectory, NEW b \in Bucket
    PROVE  /\ [s EXCEPT ![b] = Append(@, t)] \in Stores
           /\ Total([s EXCEPT ![b] = Append(@, t)]) = Total(s) + 1
<1> DEFINE q == Append(s[b], t)
<1>1. s[b] \in Seq(Trajectory) /\ Len(s[b]) \in Nat
    BY LenProperties DEF Stores
<1>2. q \in Seq(Trajectory) /\ Len(q) = Len(s[b]) + 1
    BY <1>1, AppendProperties
<1>3. /\ [s EXCEPT ![b] = q] \in Stores
      /\ Total([s EXCEPT ![b] = q]) = Total(s) - Len(s[b]) + Len(q)
    BY <1>2, TotalExcept
<1>4. Total(s) - Len(s[b]) + Len(q) = Total(s) + 1
    <2>1. Total(s) \in Nat
        BY StoreLengths
    <2> HIDE DEF q
    <2>2. QED
        BY <1>1, <1>2, <2>1
<1>5. QED
    BY <1>3, <1>4

LEMMA AddedFits ==
    ASSUME NEW s \in Stores, NEW t \in Trajectory, Total(s) <= MaxSize
    PROVE  Added(s, t) \in Stores /\ Total(Added(s, t)) <= MaxSize
<1>1. CASE KindOf(t) \in Bucket
    <2> DEFINE r == [s EXCEPT ![KindOf(t)] = Append(@, t)]
    <2>1. r \in Stores /\ Total(r) = Total(s) + 1
        BY <1>1, AppendedTotal
    <2>2. Added(s, t) = Enforce(r)
        BY <1>1 DEF Added
    <2>3. Total(s) \in Nat /\ MaxSize \in Nat
        BY StoreLengths, SizeAssumption
    <2> HIDE DEF r
    <2>4. Total(r) <= MaxSize + 1
        BY <2>1, <2>3
    <2>5. QED
        BY <2>1, <2>2, <2>4, EnforceFits
<1>2. CASE KindOf(t) \notin Bucket
    BY <1>2 DEF Added
<1>3. QED
    BY <1>1, <1>2

LEMMA EmptyFits == Empty \in Stores /\ Total(Empty) = 0
BY EmptySeq DEF Empty, Stores, Total, Bucket

\* The trajectories of a file.
LEMMA OfType ==
    ASSUME NEW f \in File
    PROVE  /\ Of(f) \in Seq(Trajectory)
           /\ Len(Of(f)) = Len(Content[f])
           /\ DOMAIN Content[f] = 1..Len(Content[f])
           /\ \A i \in 1..Len(Of(f)) : Of(f)[i] = <<f, i>>
<1>1. Content[f] \in Seq(Kind)
    BY ContentAssumption
<1>2. Len(Content[f]) \in Nat /\ DOMAIN Content[f] = 1..Len(Content[f])
    BY <1>1, LenProperties
<1>3. \A i \in 1..Len(Content[f]) : <<f, i>> \in Trajectory
    BY <1>2 DEF Trajectory
<1>4. Of(f) \in Seq(Trajectory)
    BY <1>2, <1>3 DEF Of
<1>5. QED
    BY <1>2, <1>4, LenProperties DEF Of

(***************************************************************************)
(* Types.                                                                  *)
(***************************************************************************)
LEMMA TypeInit == Init => TypeOK
<1> SUFFICES ASSUME Init PROVE TypeOK
    OBVIOUS
<1>1. store \in [Bucket -> Seq(Trajectory)] /\ Total(store) <= MaxSize
    BY EmptyFits, SizeAssumption DEF Init, Stores
<1>2. batch \in Seq(Trajectory)
    BY EmptySeq DEF Init
<1>3. faults \in 0..MaxFaults
    BY SizeAssumption DEF Init
<1>4. QED
    BY <1>1, <1>2, <1>3 DEF Init, TypeOK

\* The common part of the actions that leave the store and the batch alone.
LEMMA StoreKept ==
    ASSUME TypeOK, UNCHANGED <<store, batch>>
    PROVE  /\ store' \in [Bucket -> Seq(Trajectory)] /\ Total(store') <= MaxSize
           /\ batch' \in Seq(Trajectory)
BY DEF TypeOK

LEMMA CycleFailsTypes ==
    ASSUME TypeOK, CycleFails, faults' \in 0..MaxFaults
    PROVE  TypeOK'
<1>1. batch' \in Seq(Trajectory)
    BY EmptySeq DEF CycleFails
<1>2. QED
    BY <1>1 DEF TypeOK, CycleFails, files, LeftBehind, Running

LEMMA FaultType == ASSUME TypeOK, Fault PROVE faults' \in 0..MaxFaults
BY SizeAssumption DEF TypeOK, Fault

LEMMA TypeStep == TypeOK /\ [Next]_vars => TypeOK'
<1> SUFFICES ASSUME TypeOK, [Next]_vars PROVE TypeOK'
    OBVIOUS
<1> USE DEF files, cycle, history, Running
<1>1. ASSUME NEW f \in File, Write(f) PROVE TypeOK'
    BY <1>1, StoreKept DEF TypeOK, Write, Unfinished
<1>2. ASSUME NEW f \in File, FinishWrite(f) PROVE TypeOK'
    BY <1>2, StoreKept DEF TypeOK, FinishWrite
<1>3. CASE BeginRun
    BY <1>3, StoreKept DEF TypeOK, BeginRun
<1>4. CASE Stop
    BY <1>4, StoreKept DEF TypeOK, Stop
<1>5. CASE Crash
    <2>1. store' \in [Bucket -> Seq(Trajectory)] /\ Total(store') <= MaxSize
        BY <1>5, EmptyFits, SizeAssumption DEF Crash, Stores
    <2>2. batch' \in Seq(Trajectory)
        BY <1>5, EmptySeq DEF Crash
    <2>3. QED
        BY <1>5, <2>1, <2>2, FaultType DEF TypeOK, Crash, LeftBehind
<1>6. CASE LoopTest
    BY <1>6, StoreKept DEF TypeOK, LoopTest
<1>7. ASSUME NEW f \in File, ReadFile(f) PROVE TypeOK'
    <2>1. batch' \in Seq(Trajectory)
        BY <1>7, OfType, ConcatProperties DEF ReadFile, TypeOK
    <2>2. QED
        BY <1>7, <2>1 DEF TypeOK, ReadFile, Next_file
<1>8. ASSUME NEW f \in File, SkipFile(f) PROVE TypeOK'
    <2>1. faults' \in 0..MaxFaults
        BY <1>8, FaultType DEF SkipFile, TypeOK
    <2>2. QED
        BY <1>8, <2>1, StoreKept DEF TypeOK, SkipFile, Next_file
<1>9. ASSUME NEW f \in File, ReadRaises(f) PROVE TypeOK'
    BY <1>9, CycleFailsTypes DEF ReadRaises, TypeOK
<1>10. CASE AllRead
    BY <1>10, StoreKept DEF TypeOK, AllRead
<1>11. CASE AddTrajectory
    <2>1. Head(batch) \in Trajectory /\ batch' \in Seq(Trajectory)
        BY <1>11, HeadTailProperties DEF AddTrajectory, TypeOK
    <2>2. store' \in [Bucket -> Seq(Trajectory)] /\ Total(store') <= MaxSize
        BY <1>11, <2>1, AddedFits DEF AddTrajectory, TypeOK, Stores
    <2>3. Head(batch)[1] \in File
        BY <2>1 DEF Trajectory
    <2>4. seen' \subseteq Trajectory /\ again' \subseteq File
        BY <1>11, <2>1, <2>3 DEF AddTrajectory, TypeOK
    <2>5. QED
        BY <1>11, <2>1, <2>2, <2>4 DEF TypeOK, AddTrajectory
<1>12. CASE AddRaises
    BY <1>12, CycleFailsTypes DEF AddRaises, TypeOK
<1>13. CASE AllAdded
    BY <1>13, StoreKept DEF TypeOK, AllAdded
<1>14. CASE Train
    BY <1>14, StoreKept DEF TypeOK, Train
<1>15. CASE WriteLog
    BY <1>15, StoreKept DEF TypeOK, WriteLog
<1>16. CASE LogOrMkdirRaises
    BY <1>16, CycleFailsTypes, FaultType DEF LogOrMkdirRaises
<1>17. CASE Archive
    <2> PICK moved \in SUBSET processed :
          /\ (moved = processed /\ UNCHANGED faults) \/ (moved # processed /\ Fault)
          /\ \E copied \in SUBSET processed : moved \subseteq copied /\ archived' = archived \union copied
          /\ data' = [f \in File |-> IF f \in moved THEN "moved" ELSE data[f]]
          /\ excused' = excused \union (processed \ moved)
        BY <1>17 DEF Archive
    <2>1. faults' \in 0..MaxFaults
        BY FaultType DEF TypeOK
    <2>2. archived' \subseteq File /\ excused' \subseteq File
        BY DEF TypeOK
    <2>3. data' \in [File -> {"absent", "written", "moved"} \union Unfinished]
        BY DEF TypeOK
    <2>4. QED
        BY <1>17, <2>1, <2>2, <2>3, StoreKept DEF TypeOK, Archive
<1>18. CASE Wake
    BY <1>18, StoreKept DEF TypeOK, Wake
<1>19. CASE UNCHANGED vars
    BY <1>19, StoreKept DEF TypeOK, vars
<1>20. QED
    BY <1>1, <1>2, <1>3, <1>4, <1>5, <1>6, <1>7, <1>8, <1>9, <1>10, <1>11, <1>12,
       <1>13, <1>14, <1>15, <1>16, <1>17, <1>18, <1>19 DEF Next, Run

\* Type correctness, with the size limit of the store, for every content and
\* every limit: _enforce_max_size keeps the three lists together within it.
THEOREM TypeCorrect == Spec => []TypeOK
<1>1. QED
    BY TypeInit, TypeStep, PTL DEF Spec

(***************************************************************************)
(* What is archived has been added.                                        *)
(***************************************************************************)
InBatch(t) == \E i \in DOMAIN batch : batch[i] = t

\* Of a processed file every trajectory is still to be added or was added, and
\* none is left to be added when the files are archived.
BatchInv ==
    /\ \A f \in processed : \A i \in DOMAIN Content[f] : InBatch(<<f, i>>) \/ <<f, i>> \in seen
    /\ pc \notin {"reading", "adding"} => batch = <<>>
    /\ ArchivedWasAdded

\* The batch grows by the trajectories of the file that was read.
LEMMA BatchGrows ==
    ASSUME TypeOK, NEW f \in File, batch' = batch \o Of(f)
    PROVE  /\ \A t : InBatch(t)' <=> (InBatch(t) \/ \E i \in DOMAIN Content[f] : t = <<f, i>>)
           /\ Len(batch') = Len(batch) + Len(Of(f))
           /\ \A i \in 1..Len(batch') :
                 batch'[i] = IF i <= Len(batch) THEN batch[i] ELSE <<f, i - Len(batch)>>
<1> DEFINE old == Len(batch)
           new == Len(Of(f))
<1>1. batch \in Seq(Trajectory) /\ Of(f) \in Seq(Trajectory)
    BY OfType DEF TypeOK
<1>2. old \in Nat /\ new \in Nat /\ DOMAIN batch = 1..old /\ DOMAIN Content[f] = 1..new
    BY <1>1, LenProperties, OfType
<1>3. batch' \in Seq(Trajectory) /\ Len(batch') = old + new
    BY <1>1, ConcatProperties
<1>4. DOMAIN batch' = 1..(old + new)
    BY <1>3, LenProperties
<1>5. \A i \in 1..(old + new) : batch'[i] = IF i <= old THEN batch[i] ELSE <<f, i - old>>
    <2>1. \A i \in 1..(old + new) : batch'[i] = IF i <= old THEN batch[i] ELSE Of(f)[i - old]
        BY <1>1, ConcatProperties
    <2>2. \A i \in 1..(old + new) : ~ (i <= old) => i - old \in 1..new
        BY <1>2
    <2>3. QED
        BY <2>1, <2>2, OfType
<1>6. ASSUME NEW t PROVE InBatch(t)' <=> (InBatch(t) \/ \E i \in DOMAIN Content[f] : t = <<f, i>>)
    <2> HIDE DEF old, new
    <2>1. ASSUME InBatch(t)' PROVE InBatch(t) \/ \E i \in DOMAIN Content[f] : t = <<f, i>>
        <3>1. PICK i \in 1..(old + new) : batch'[i] = t
            BY <2>1, <1>4 DEF InBatch
        <3>2. CASE i <= old
            BY <1>2, <1>5, <3>1, <3>2 DEF InBatch
        <3>3. CASE ~ (i <= old)
            <4>1. i - old \in DOMAIN Content[f]
                BY <1>2, <3>3
            <4>2. QED
                BY <1>5, <3>1, <3>3, <4>1
        <3>4. QED
            BY <3>2, <3>3
    <2>2. ASSUME InBatch(t) PROVE InBatch(t)'
        <3>1. PICK i \in 1..old : batch[i] = t
            BY <2>2, <1>2 DEF InBatch
        <3>2. i \in 1..(old + new) /\ i <= old
            BY <1>2
        <3>3. QED
            BY <1>4, <1>5, <3>1, <3>2 DEF InBatch
    <2>3. ASSUME NEW i \in DOMAIN Content[f], t = <<f, i>> PROVE InBatch(t)'
        <3>1. old + i \in 1..(old + new) /\ ~ (old + i <= old) /\ (old + i) - old = i
            BY <1>2
        <3>2. QED
            BY <1>4, <1>5, <2>3, <3>1 DEF InBatch
    <2>4. QED
        BY <2>1, <2>2, <2>3
<1>7. QED
    BY <1>3, <1>5, <1>6

\* The batch shrinks by the trajectory that was added.
LEMMA BatchShrinks ==
    ASSUME TypeOK, batch # <<>>, batch' = Tail(batch)
    PROVE  /\ Head(batch) = batch[1] /\ 1 \in DOMAIN batch /\ Head(batch) \in Trajectory
           /\ DOMAIN batch' \subseteq Nat
           /\ \A i \in DOMAIN batch' : i + 1 \in DOMAIN batch /\ batch'[i] = batch[i + 1]
           /\ \A t : InBatch(t) => t = Head(batch) \/ InBatch(t)'
<1> DEFINE n == Len(batch)
<1>1. batch \in Seq(Trajectory)
    BY DEF TypeOK
<1>2. n \in Nat \ {0} /\ DOMAIN batch = 1..n
    BY <1>1, EmptySeq, LenProperties
<1>3. /\ Head(batch) \in Trajectory /\ batch' \in Seq(Trajectory) /\ Len(batch') = n - 1
      /\ \A i \in 1..Len(batch') : batch'[i] = batch[i + 1]
    BY <1>1, HeadTailProperties
<1>4. DOMAIN batch' = 1..(n - 1) /\ \A i \in 1..(n - 1) : batch'[i] = batch[i + 1]
    BY <1>3, LenProperties
<1>5. Head(batch) = batch[1]
    BY <1>1
<1> HIDE DEF n
<1>6. ASSUME NEW t, InBatch(t), t # Head(batch) PROVE InBatch(t)'
    <2>1. PICK i \in 1..n : batch[i] = t
        BY <1>2, <1>6 DEF InBatch
    <2>2. i # 1
        BY <1>5, <1>6, <2>1
    <2>3. i - 1 \in 1..(n - 1) /\ (i - 1) + 1 = i
        BY <1>2, <2>2
    <2>4. QED
        BY <1>4, <2>1, <2>3 DEF InBatch
<1>7. \A i \in 1..(n - 1) : i + 1 \in 1..n /\ i \in Nat
    BY <1>2
<1>8. 1 \in 1..n
    BY <1>2
<1>9. QED
    BY <1>2, <1>3, <1>4, <1>5, <1>6, <1>7, <1>8

LEMMA BatchKept ==
    ASSUME BatchInv, UNCHANGED <<archived, processed, batch, seen>>,
           pc' \notin {"reading", "adding"} => batch = <<>>
    PROVE  BatchInv'
BY DEF BatchInv, InBatch, ArchivedWasAdded

LEMMA BatchCleared ==
    ASSUME BatchInv, UNCHANGED <<archived, seen>>, processed' = {}, batch' = <<>>
    PROVE  BatchInv'
BY DEF BatchInv, InBatch, ArchivedWasAdded

LEMMA BatchStep == TypeOK /\ BatchInv /\ [Next]_vars => BatchInv'
<1> SUFFICES ASSUME TypeOK, BatchInv, [Next]_vars PROVE BatchInv'
    OBVIOUS
<1> USE DEF files, cycle, history
<1>1. ASSUME NEW f \in File, Write(f) PROVE BatchInv'
    BY <1>1, BatchKept DEF Write, Unfinished, BatchInv
<1>2. ASSUME NEW f \in File, FinishWrite(f) PROVE BatchInv'
    BY <1>2, BatchKept DEF FinishWrite, BatchInv
<1>3. CASE BeginRun
    BY <1>3, BatchKept DEF BeginRun, BatchInv
<1>4. CASE Stop
    BY <1>4, BatchKept DEF Stop, BatchInv
<1>5. CASE Crash
    BY <1>5, BatchCleared DEF Crash
<1>6. CASE LoopTest
    BY <1>6, BatchKept DEF LoopTest, BatchInv
<1>7. ASSUME NEW f \in File, ReadFile(f) PROVE BatchInv'
    <2>1. \A t : InBatch(t)' <=> (InBatch(t) \/ \E i \in DOMAIN Content[f] : t = <<f, i>>)
        BY <1>7, BatchGrows DEF ReadFile
    <2>2. ASSUME NEW g \in processed', NEW i \in DOMAIN Content[g]
          PROVE  InBatch(<<g, i>>)' \/ <<g, i>> \in seen'
        BY <1>7, <2>1, <2>2 DEF ReadFile, BatchInv
    <2>3. pc' = "reading" /\ ArchivedWasAdded'
        BY <1>7 DEF ReadFile, Next_file, BatchInv, ArchivedWasAdded
    <2>4. QED
        BY <2>2, <2>3 DEF BatchInv
<1>8. ASSUME NEW f \in File, SkipFile(f) PROVE BatchInv'
    BY <1>8, BatchKept DEF SkipFile, Next_file, BatchInv
<1>9. ASSUME NEW f \in File, ReadRaises(f) PROVE BatchInv'
    BY <1>9, BatchCleared DEF ReadRaises, CycleFails
<1>10. CASE AllRead
    BY <1>10, BatchKept DEF AllRead, BatchInv
<1>11. CASE AddTrajectory
    <2>1. \A t : InBatch(t) => t = Head(batch) \/ InBatch(t)'
        BY <1>11, BatchShrinks DEF AddTrajectory
    <2>2. ASSUME NEW f \in processed', NEW i \in DOMAIN Content[f]
          PROVE  InBatch(<<f, i>>)' \/ <<f, i>> \in seen'
        BY <1>11, <2>1, <2>2 DEF AddTrajectory, BatchInv
    <2>3. pc' = "adding" /\ ArchivedWasAdded'
        BY <1>11 DEF AddTrajectory, BatchInv, ArchivedWasAdded
    <2>4. QED
        BY <2>2, <2>3 DEF BatchInv
<1>12. CASE AddRaises
    BY <1>12, BatchCleared DEF AddRaises, CycleFails
<1>13. CASE AllAdded
    BY <1>13, BatchKept DEF AllAdded
<1>14. CASE Train
    BY <1>14, BatchKept DEF Train, BatchInv
<1>15. CASE WriteLog
    BY <1>15, BatchKept DEF WriteLog, BatchInv
<1>16. CASE LogOrMkdirRaises
    BY <1>16, BatchCleared DEF LogOrMkdirRaises, CycleFails
<1>17. CASE Archive
    <2>1. batch = <<>> /\ batch' = <<>> /\ processed' = {} /\ seen' = seen
        BY <1>17 DEF Archive, BatchInv
    <2>2. \A f \in processed : \A i \in DOMAIN Content[f] : <<f, i>> \in seen
        <3>1. \A t : ~ InBatch(t)
            BY <2>1 DEF InBatch
        <3>2. QED
            BY <3>1 DEF BatchInv
    <2>3. archived' \subseteq archived \union processed
        BY <1>17 DEF Archive
    <2>4. ArchivedWasAdded'
        BY <2>1, <2>2, <2>3 DEF BatchInv, ArchivedWasAdded
    <2>5. QED
        BY <2>1, <2>4 DEF BatchInv
<1>18. CASE Wake
    BY <1>18, BatchKept DEF Wake, BatchInv
<1>19. CASE UNCHANGED vars
    BY <1>19, BatchKept DEF vars, BatchInv
<1>20. QED
    BY <1>1, <1>2, <1>3, <1>4, <1>5, <1>6, <1>7, <1>8, <1>9, <1>10, <1>11, <1>12,
       <1>13, <1>14, <1>15, <1>16, <1>17, <1>18, <1>19 DEF Next, Run

\* Whatever is in archive_dir was added to a store, whichever files are
\* completed during a cycle and whichever step of it fails.
THEOREM ArchiveSafe == Spec => []ArchivedWasAdded
<1>1. Init => BatchInv
    BY DEF Init, BatchInv, ArchivedWasAdded
<1>2. TypeOK /\ BatchInv /\ [Next]_vars => BatchInv'
    BY BatchStep
<1>3. BatchInv => ArchivedWasAdded
    BY DEF BatchInv
<1>4. QED
    BY <1>1, <1>2, <1>3, TypeCorrect, PTL DEF Spec

(***************************************************************************)
(* Nothing is added twice without an error.                                *)
(***************************************************************************)
FilesInv ==
    /\ \A f \in processed : data[f] = "written" /\ f \notin todo
    /\ pc # "reading" => todo = {}
    /\ pc \notin InCycle \union {"reading"} => processed = {}

\* A trajectory that was added belongs to a moved file, to a file excused by an
\* error, or to a file of the current cycle and then it is not added again.
OnceInv ==
    /\ \A i, j \in DOMAIN batch : batch[i] = batch[j] => i = j
    /\ \A i \in DOMAIN batch : batch[i][1] \in processed
    /\ \A t \in seen : \/ t[1] \in excused
                       \/ data[t[1]] = "moved"
                       \/ t[1] \in processed /\ ~ InBatch(t)
    /\ AddedOnce

LEMMA FilesStep == TypeOK /\ FilesInv /\ [Next]_vars => FilesInv'
<1> SUFFICES ASSUME TypeOK, FilesInv, [Next]_vars PROVE FilesInv'
    OBVIOUS
<1> USE DEF files, cycle, history, FilesInv, InCycle
<1>0. data \in [File -> {"absent", "written", "moved"} \union Unfinished] /\ processed \subseteq File
    BY DEF TypeOK
<1>1. ASSUME NEW f \in File, Write(f) PROVE FilesInv'
    BY <1>0, <1>1 DEF Write, Unfinished
<1>2. ASSUME NEW f \in File, FinishWrite(f) PROVE FilesInv'
    BY <1>0, <1>2 DEF FinishWrite, Unfinished
<1>3. CASE BeginRun
    BY <1>3 DEF BeginRun
<1>4. CASE Stop
    BY <1>4 DEF Stop
<1>5. CASE Crash
    BY <1>5 DEF Crash
<1>6. CASE LoopTest
    BY <1>6 DEF LoopTest
<1>7. ASSUME NEW f \in File, ReadFile(f) PROVE FilesInv'
    BY <1>7 DEF ReadFile, Next_file
<1>8. ASSUME NEW f \in File, SkipFile(f) PROVE FilesInv'
    BY <1>8 DEF SkipFile, Next_file
<1>9. ASSUME NEW f \in File, ReadRaises(f) PROVE FilesInv'
    BY <1>9 DEF ReadRaises, CycleFails
<1>10. CASE AllRead
    BY <1>10 DEF AllRead
<1>11. CASE AddTrajectory
    BY <1>11 DEF AddTrajectory
<1>12. CASE AddRaises
    BY <1>12 DEF AddRaises, CycleFails
<1>13. CASE AllAdded
    BY <1>13 DEF AllAdded
<1>14. CASE Train
    BY <1>14 DEF Train
<1>15. CASE WriteLog
    BY <1>15 DEF WriteLog
<1>16. CASE LogOrMkdirRaises
    BY <1>16 DEF LogOrMkdirRaises, CycleFails
<1>17. CASE Archive
    BY <1>17 DEF Archive
<1>18. CASE Wake
    BY <1>18 DEF Wake
<1>19. CASE UNCHANGED vars
    BY <1>19 DEF vars
<1>20. QED
    BY <1>1, <1>2, <1>3, <1>4, <1>5, <1>6, <1>7, <1>8, <1>9, <1>10, <1>11, <1>12,
       <1>13, <1>14, <1>15, <1>16, <1>17, <1>18, <1>19 DEF Next, Run

\* Steps that leave the cycle alone and move no file.
LEMMA OnceKept ==
    ASSUME OnceInv, UNCHANGED <<processed, batch, seen, again, excused>>,
           \A t \in seen : data[t[1]] = "moved" => data'[t[1]] = "moved"
    PROVE  OnceInv'
BY DEF OnceInv, InBatch, AddedOnce

\* A cycle that ends early leaves no trajectory without an excuse.
LEMMA OnceAborted ==
    ASSUME TypeOK, FilesInv, OnceInv, UNCHANGED <<data, seen, again>>,
           processed' = {}, batch' = <<>>,
           excused' = excused \union LeftBehind(data)
    PROVE  OnceInv'
<1>1. ASSUME NEW t \in seen PROVE t[1] \in excused' \/ data'[t[1]] = "moved"
    <2>1. CASE t[1] \in processed
        BY <2>1 DEF TypeOK, FilesInv, LeftBehind
    <2>2. QED
        BY <2>1 DEF OnceInv
<1>2. QED
    BY <1>1 DEF OnceInv, AddedOnce

LEMMA OnceStep == TypeOK /\ BatchInv /\ FilesInv /\ OnceInv /\ [Next]_vars => OnceInv'
<1> SUFFICES ASSUME TypeOK, BatchInv, FilesInv, OnceInv, [Next]_vars PROVE OnceInv'
    OBVIOUS
<1> USE DEF files, cycle, history
<1>0. /\ data \in [File -> {"absent", "written", "moved"} \union Unfinished]
      /\ processed \subseteq File
      /\ \A t \in seen : t[1] \in File
    BY DEF TypeOK, Trajectory
<1>1. ASSUME NEW f \in File, Write(f) PROVE OnceInv'
    BY <1>0, <1>1, OnceKept DEF Write, Unfinished
<1>2. ASSUME NEW f \in File, FinishWrite(f) PROVE OnceInv'
    BY <1>0, <1>2, OnceKept DEF FinishWrite, Unfinished
<1>3. CASE BeginRun
    BY <1>3, OnceKept DEF BeginRun
<1>4. CASE Stop
    BY <1>4, OnceKept DEF Stop
<1>5. CASE Crash
    BY <1>5, OnceAborted DEF Crash
<1>6. CASE LoopTest
    BY <1>6, OnceKept DEF LoopTest
<1>7. ASSUME NEW f \in File, ReadFile(f) PROVE OnceInv'
    <2> DEFINE old == Len(batch)
    <2>1. /\ batch' = batch \o Of(f) /\ processed' = processed \union {f} /\ f \notin processed
          /\ UNCHANGED <<data, seen, again, excused>>
        BY <1>7 DEF ReadFile, Next_file, FilesInv
    <2>2. /\ \A t : InBatch(t)' <=> (InBatch(t) \/ \E i \in DOMAIN Content[f] : t = <<f, i>>)
          /\ \A i \in 1..Len(batch') : batch'[i] = IF i <= old THEN batch[i] ELSE <<f, i - old>>
        BY <2>1, BatchGrows
    <2>3. /\ old \in Nat /\ DOMAIN batch = 1..old
          /\ DOMAIN batch' = 1..Len(batch') /\ Len(batch') \in Nat
        BY <2>1, OfType, ConcatProperties, LenProperties DEF TypeOK
    <2> HIDE DEF old
    <2>4. \A i \in DOMAIN batch' :
             \/ i \in DOMAIN batch /\ batch'[i] = batch[i] /\ batch'[i][1] # f
             \/ ~ (i <= old) /\ batch'[i] = <<f, i - old>> /\ batch'[i][1] = f
        <3> TAKE i \in DOMAIN batch'
        <3>1. CASE i <= old
            <4>1. i \in DOMAIN batch /\ batch'[i] = batch[i]
                BY <2>2, <2>3, <3>1
            <4>2. QED
                BY <2>1, <4>1 DEF OnceInv
        <3>2. CASE ~ (i <= old)
            BY <2>2, <2>3, <3>2
        <3>3. QED
            BY <3>1, <3>2
    <2>5. ASSUME NEW i \in DOMAIN batch', NEW j \in DOMAIN batch', batch'[i] = batch'[j]
          PROVE  i = j
        <3>1. CASE batch'[i][1] # f
            BY <2>4, <2>5, <3>1 DEF OnceInv
        <3>2. CASE batch'[i][1] = f
            <4>1. i - old = j - old
                BY <2>4, <2>5, <3>2
            <4>2. QED
                BY <2>3, <4>1
        <3>3. QED
            BY <3>1, <3>2
    <2>6. \A i \in DOMAIN batch' : batch'[i][1] \in processed'
        BY <2>1, <2>4 DEF OnceInv
    <2>7. ASSUME NEW t \in seen'
          PROVE  t[1] \in excused' \/ data'[t[1]] = "moved" \/ (t[1] \in processed' /\ ~ InBatch(t)')
        <3>1. CASE t[1] \in processed /\ ~ InBatch(t)
            BY <2>1, <2>2, <3>1
        <3>2. QED
            BY <2>1, <3>1 DEF OnceInv
    <2>8. QED
        BY <2>1, <2>5, <2>6, <2>7 DEF OnceInv, AddedOnce
<1>8. ASSUME NEW f \in File, SkipFile(f) PROVE OnceInv'
    BY <1>8, OnceKept DEF SkipFile
<1>9. ASSUME NEW f \in File, ReadRaises(f) PROVE OnceInv'
    BY <1>9, OnceAborted DEF ReadRaises, CycleFails
<1>10. CASE AllRead
    BY <1>10, OnceKept DEF AllRead
<1>11. CASE AddTrajectory
    <2> PICK h : h = Head(batch)
        OBVIOUS
    <2>1. /\ h = batch[1] /\ 1 \in DOMAIN batch
          /\ DOMAIN batch' \subseteq Nat
          /\ \A i \in DOMAIN batch' : i + 1 \in DOMAIN batch /\ batch'[i] = batch[i + 1]
        BY <1>11, BatchShrinks DEF AddTrajectory
    <2>2. /\ processed' = processed /\ seen' = seen \union {h} /\ UNCHANGED <<data, excused>>
          /\ again' = IF h \in seen THEN again \union {h[1]} ELSE again
        BY <1>11 DEF AddTrajectory
    <2>3. InBatch(h) /\ h[1] \in processed /\ data[h[1]] # "moved"
        BY <2>1 DEF OnceInv, InBatch, FilesInv
    <2>4. again' \subseteq excused'
        BY <2>2, <2>3 DEF OnceInv, AddedOnce
    <2>5. ASSUME NEW i \in DOMAIN batch', NEW j \in DOMAIN batch', batch'[i] = batch'[j]
          PROVE  i = j
        <3>1. i + 1 = j + 1
            BY <2>1, <2>5 DEF OnceInv
        <3>2. QED
            BY <2>1, <3>1
    <2>6. \A i \in DOMAIN batch' : batch'[i][1] \in processed'
        BY <2>1, <2>2 DEF OnceInv
    <2>7. ~ InBatch(h)'
        <3>1. SUFFICES ASSUME NEW i \in DOMAIN batch', batch'[i] = h PROVE FALSE
            BY DEF InBatch
        <3>2. i + 1 = 1 /\ i \in DOMAIN batch'
            BY <2>1, <3>1 DEF OnceInv
        <3>3. batch \in Seq(Trajectory) /\ batch' \in Seq(Trajectory)
            BY <1>11, HeadTailProperties DEF AddTrajectory, TypeOK
        <3>4. i \in 1..Len(batch') /\ Len(batch') \in Nat
            BY <3>3, LenProperties
        <3>5. QED
            BY <3>2, <3>4
    <2>8. ASSUME NEW t \in seen'
          PROVE  t[1] \in excused' \/ data'[t[1]] = "moved" \/ (t[1] \in processed' /\ ~ InBatch(t)')
        <3>1. CASE t = h
            BY <2>2, <2>3, <2>7, <3>1
        <3>2. CASE t # h
            <4>1. InBatch(t)' => InBatch(t)
                BY <2>1 DEF InBatch
            <4>2. QED
                BY <2>2, <3>2, <4>1 DEF OnceInv
        <3>3. QED
            BY <3>1, <3>2
    <2>9. QED
        BY <2>4, <2>5, <2>6, <2>8 DEF OnceInv, AddedOnce
<1>12. CASE AddRaises
    BY <1>12, OnceAborted DEF AddRaises, CycleFails
<1>13. CASE AllAdded
    BY <1>13, OnceKept DEF AllAdded
<1>14. CASE Train
    BY <1>14, OnceKept DEF Train
<1>15. CASE WriteLog
    BY <1>15, OnceKept DEF WriteLog
<1>16. CASE LogOrMkdirRaises
    BY <1>16, OnceAborted DEF LogOrMkdirRaises, CycleFails
<1>17. CASE Archive
    <2> PICK moved \in SUBSET processed :
          /\ data' = [f \in File |-> IF f \in moved THEN "moved" ELSE data[f]]
          /\ excused' = excused \union (processed \ moved)
        BY <1>17 DEF Archive
    <2>1. UNCHANGED <<seen, again>> /\ processed' = {} /\ batch' = <<>>
        BY <1>17 DEF Archive, BatchInv
    <2>2. ASSUME NEW t \in seen PROVE t[1] \in excused' \/ data'[t[1]] = "moved"
        BY <1>0, <2>2 DEF OnceInv
    <2>3. again \subseteq excused'
        BY DEF OnceInv, AddedOnce
    <2>4. QED
        BY <1>17, <2>1, <2>2, <2>3 DEF OnceInv, AddedOnce
<1>18. CASE Wake
    BY <1>18, OnceKept DEF Wake
<1>19. CASE UNCHANGED vars
    BY <1>19, OnceKept DEF vars
<1>20. QED
    BY <1>1, <1>2, <1>3, <1>4, <1>5, <1>6, <1>7, <1>8, <1>9, <1>10, <1>11, <1>12,
       <1>13, <1>14, <1>15, <1>16, <1>17, <1>18, <1>19 DEF Next, Run

\* A trajectory is added again only when an error or a crash had left its file
\* behind: run() itself never learns a file twice.
THEOREM LearnedOnce == Spec => []AddedOnce
<1>1. Init => BatchInv /\ FilesInv /\ OnceInv
    BY DEF Init, BatchInv, FilesInv, OnceInv, ArchivedWasAdded, AddedOnce
<1>2. TypeOK /\ BatchInv /\ FilesInv /\ OnceInv /\ [Next]_vars => (BatchInv /\ FilesInv /\ OnceInv)'
    BY BatchStep, FilesStep, OnceStep
<1>3. OnceInv => AddedOnce
    BY DEF OnceInv
<1>4. QED
    BY <1>1, <1>2, <1>3, TypeCorrect, PTL DEF Spec

(***************************************************************************)
(* Golden trajectories go last.                                            *)
(***************************************************************************)
GoldenStep ==
    \/ \E n \in 0..Len(store'["golden"]) : store["golden"] = SubSeq(store'["golden"], 1, n)
    \/ store'["failure"] = <<>> /\ store'["neutral"] = <<>>

LEMMA GoldenPrefix ==
    ASSUME NEW s \in Stores, NEW r \in Stores, NEW t \in Trajectory,
           r["golden"] = s["golden"] \/ r["golden"] = Append(s["golden"], t)
    PROVE  \E n \in 0..Len(r["golden"]) : s["golden"] = SubSeq(r["golden"], 1, n)
<1> DEFINE g == s["golden"]
           n == Len(g)
<1>1. g \in Seq(Trajectory) /\ n \in Nat
    BY Buckets, LenProperties DEF Stores
<1>2. CASE r["golden"] = g
    <2>1. n \in 0..Len(r["golden"]) /\ SubSeq(r["golden"], 1, n) = g
        BY <1>1, <1>2, SubSeqFull
    <2>2. QED
        BY <2>1
<1>3. CASE r["golden"] = Append(g, t)
    <2>1. Len(Append(g, t)) = n + 1 /\ SubSeq(Append(g, t), 1, n) = g
        BY <1>1
    <2>2. n \in 0..Len(r["golden"])
        BY <1>1, <1>3, <2>1
    <2>3. QED
        BY <1>3, <2>1, <2>2
<1>4. QED
    BY <1>2, <1>3

LEMMA GoldenKept ==
    ASSUME NEW s \in Stores, NEW t \in Trajectory, Total(s) <= MaxSize
    PROVE  LET r == Added(s, t) IN
           \/ r["golden"] = s["golden"]
           \/ r["golden"] = Append(s["golden"], t)
           \/ r["failure"] = <<>> /\ r["neutral"] = <<>>
<1>1. CASE KindOf(t) \notin Bucket
    BY <1>1 DEF Added
<1>2. CASE KindOf(t) \in Bucket
    <2> DEFINE k == KindOf(t)
               a == [s EXCEPT ![k] = Append(@, t)]
               v == Victim(a)
               q == SubSeq(a[v], Total(a) - MaxSize + 1, Len(a[v]))
    <2>1. a["golden"] = s["golden"] \/ a["golden"] = Append(s["golden"], t)
        BY <1>2, Buckets DEF Stores
    <2>2. a \in Stores
        BY <1>2, AppendedTotal
    <2>3. Added(s, t) = Enforce(a)
        BY <1>2 DEF Added
    <2> HIDE DEF a
    <2>4. CASE Total(a) <= MaxSize
        BY <2>1, <2>3, <2>4 DEF Enforce
    <2>5. CASE ~ (Total(a) <= MaxSize)
        <3>1. Added(s, t) = [a EXCEPT ![v] = q]
            BY <2>3, <2>5 DEF Enforce
        <3>2. CASE v = "golden"
            <4>1. a["failure"] = <<>> /\ a["neutral"] = <<>>
                BY <3>2 DEF Victim
            <4>2. QED
                BY <2>2, <3>1, <3>2, <4>1, Buckets DEF Stores
        <3>3. CASE v # "golden"
            BY <2>1, <2>2, <3>1, <3>3, Buckets DEF Stores
        <3>4. QED
            BY <3>2, <3>3
    <2>6. QED
        BY <2>4, <2>5
<1>3. QED
    BY <1>1, <1>2

LEMMA GoldenOfStep == TypeOK /\ [Next]_vars => GoldenStep
<1> SUFFICES ASSUME TypeOK, [Next]_vars PROVE GoldenStep
    OBVIOUS
<1>1. store \in Stores /\ Total(store) <= MaxSize
    BY DEF TypeOK, Stores
<1>2. CASE UNCHANGED store
    <2>1. store["golden"] \in Seq(Trajectory)
        BY <1>1, Buckets DEF Stores
    <2>2. Len(store["golden"]) \in 0..Len(store["golden"])
        BY <2>1, LenProperties
    <2>3. SubSeq(store["golden"], 1, Len(store["golden"])) = store["golden"]
        BY <2>1, SubSeqFull
    <2>4. QED
        BY <1>2, <2>2, <2>3 DEF GoldenStep
<1>3. CASE Crash
    BY <1>3, Buckets DEF Crash, GoldenStep, Empty
<1>4. CASE AddTrajectory
    <2> DEFINE t == Head(batch)
    <2>1. t \in Trajectory /\ store' = Added(store, t)
        BY <1>4, BatchShrinks DEF AddTrajectory
    <2> HIDE DEF t
    <2>2. store' \in Stores
        BY <1>1, <2>1, AddedFits
    <2>3. \/ store'["golden"] = store["golden"]
          \/ store'["golden"] = Append(store["golden"], t)
          \/ store'["failure"] = <<>> /\ store'["neutral"] = <<>>
        BY <1>1, <2>1, GoldenKept
    <2>4. QED
        BY <1>1, <2>1, <2>2, <2>3, GoldenPrefix DEF GoldenStep
<1>5. QED
    <2>1. ASSUME Next, ~ Crash, ~ AddTrajectory PROVE UNCHANGED store
        BY <2>1 DEF Next, Run, Write, FinishWrite, BeginRun, Stop, LoopTest, ReadFile, SkipFile,
           ReadRaises, CycleFails, AllRead, AddRaises, AllAdded, Train, WriteLog, LogOrMkdirRaises,
           Archive, Wake, files, cycle, history
    <2>2. QED
        BY <1>2, <1>3, <1>4, <2>1 DEF vars

\* No step drops a golden trajectory while a failure or a neutral one is left
\* to drop.
THEOREM GoldenProtected == Spec => GoldenLast
<1>1. TypeOK /\ [Next]_vars => [GoldenStep]_vars
    BY GoldenOfStep
<1>2. QED
    BY <1>1, TypeCorrect, PTL DEF Spec, GoldenLast, GoldenStep

=============================================================================
