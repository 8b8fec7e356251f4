---------------------------- MODULE MCFileWrites -----------------------------
(* Instances of FileWrites for TLC. *)
EXTENDS FileWrites, TLC

CONSTANTS o1, o2

\* Every version is one unit.
Units == [v \in Ids |-> 1]

\* Two requests: one on the file that exists, one on that file or a new one.
\* Either operation may instead be one of maintenance.
Pair == o1 :> {"overwrite", "trash", "move"} @@ o2 :> {"upload", "move", "restore", "purge"}
Overwrites == o1 :> {"overwrite"}

\* A second mishap only befalls a history of one operation.
PairBudget == <<2, 1>>
OneBudget == <<2>>
=============================================================================
