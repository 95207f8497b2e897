---------------------------- MODULE MCInputPath ----------------------------
(* One typing key, both octave keys, one modifier and one piano key.  The   *)
(* typing key is N, whose code is the prefix of the function buttons.       *)
EXTENDS InputPath

Key(c, x)  == [code |-> c, ext |-> x]
KeyN       == Key(\h31, FALSE)
OctaveUp   == Key(\h62, TRUE)
OctaveDown == Key(\h63, TRUE)
LeftShift  == Key(\h12, FALSE)

MCKeys      == {KeyN, OctaveUp, OctaveDown}
MCModifiers == {LeftShift}
=============================================================================
