--------------------------- MODULE MCFileEntryCache ---------------------------
(***************************************************************************)
(* Instances of FileEntryCache for TLC.                                    *)
(***************************************************************************)
EXTENDS FileEntryCache, TLC

CONSTANTS a, b, long

\* Two texts of the same size, which may change places, and one of another.
MCTexts == {a, b, long}
MCSizeOf == [t \in MCTexts |-> IF t = long THEN 2 ELSE 1]

Symmetry == Permutations({a, b})
=============================================================================
