----------------------------- MODULE MCSWEAgent -----------------------------
(* Two files and one that is not there, three attempts, two searches. The texts are *)
(* one with newlines, the same with other line ends, and another one.              *)
EXTENDS SWEAgent

MCFile == {1, 2}
MCAbsent == {3}
MCText == {0, 1, 2}
MCUniversal == [t \in MCText |-> IF t = 1 THEN 0 ELSE t]
MCOriginal == [f \in MCFile |-> f - 1]

=============================================================================
