-------------------------- MODULE MCSourceParsing --------------------------
(* Small instances of SourceParsing for TLC. *)
EXTENDS SourceParsing, TLC

CONSTANTS s1, s2

\* A text of two chunks and a PDF, which extractText refuses.
TwoKinds == [s \in Sources |-> IF s = s1 THEN 2 ELSE 1]
=============================================================================
