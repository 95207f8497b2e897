---- MODULE MCHidReport ----
(* Values for TLC: A and B; no modifier, left Control, left Shift.           *)
EXTENDS HidReport
MCKeys == {4, 5}
MCMods == {0, 1, 2}
====
