---------------------------- MODULE MCScanStream ----------------------------
(* A keyboard with few keys, one of every kind the decoder tells apart.     *)
EXTENDS ScanStream

Key(c, x) == [code |-> c, ext |-> x]
KeyA       == Key(\h1C, FALSE)
KeyN       == Key(\h31, FALSE)    \* its code is the button prefix
KeyUp      == Key(\h75, TRUE)
LeftShift  == Key(\h12, FALSE)
RightShift == Key(\h59, FALSE)
AltGr      == Key(\h11, TRUE)

MCKeys      == {KeyA, KeyN, KeyUp}
MCModifiers == {LeftShift, RightShift, AltGr}
MCNotes     == {60}
MCButtons   == {\h7C}
MCWheel     == {\h31}
MCReplies   == {D!Ack}
=============================================================================
