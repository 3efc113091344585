----------------------------- MODULE MCTargetFiles -----------------------------
(***************************************************************************)
(* The instance of TargetFiles for TLC: file 1 is SKILL.md, 2 a file some  *)
(* releases have, 3 one only a user writes.                                *)
(***************************************************************************)
EXTENDS TargetFiles

CONSTANTS old, new

Tree(a, b) == [f \in Files |-> IF f = 1 THEN a ELSE IF f = 2 THEN b ELSE None]

MCOrigins == {NoTree, Tree(old, old)}

\* An upgrade, one that drops a file and keeps the other, the bytes that are there,
\* and a removal, of what may be gone.
MCResults == {NoTree, Tree(new, new), Tree(old, None), Tree(old, old)}
=============================================================================
