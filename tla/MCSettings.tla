---------------------------- MODULE MCSettings -----------------------------
(* Small instances of SettingsChanges: two settings that must stay in order *)
(* and one that a profile changes.                                          *)
EXTENDS SettingsChanges, TLC

CONSTANTS lower, upper, other, a1, a2, a3, r1, r2

Uses == [a \in Admins |-> IF a = a1 THEN 2 ELSE 1]

Asked == [k \in Settings |-> IF k = upper THEN {2, 3} ELSE {2}]

Versions == [k \in Settings |-> IF k = upper THEN 3 ELSE 2]

Catalog == [k \in Settings |-> IF k = upper THEN 3 ELSE 1]

OtherProfile == other :> 2

OtherKeys == <<other>>

RequestSymmetry == Permutations({r1, r2})
============================================================================
