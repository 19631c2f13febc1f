------------------------------ MODULE MCConfig ------------------------------
(***************************************************************************)
(* Instances of ConfigParser for TLC: all files up to a length.            *)
(***************************************************************************)
EXTENDS ConfigGrammar

CONSTANTS MaxChars, MaxMarks

\* What tells the states of ParseToken apart ("\"" is treated as "'", "\t" as " ").
CharAlphabet == Char \ {"\t", "\""}

\* One-character tokens: blocks up to three deep.
MarkAlphabet == {"a", ";", "{", "}"}

MCText == BoundedSeq(CharAlphabet, MaxChars) \cup BoundedSeq(MarkAlphabet, MaxMarks)

WordText == BoundedSeq({"a", " ", ";"}, MaxChars)
=============================================================================
