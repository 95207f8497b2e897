-------------------------- MODULE MCProdikeysSketch --------------------------
(* The sketch with the real octave and channels, called in any order.       *)
EXTENDS ProdikeysSketch

Call(cb, codes, exts, args) == [cb: {cb}, code: codes, ext: exts, arg: args]

(* The octave keys with no modifier, each of them, two together and Ctrl    *)
(* under Caps Lock; a typing key; both ends of the note range and of the    *)
(* wheel.  A released octave key is reported as extended or not.            *)
MCInputs ==
    Call("KeyPress", {OctaveUp, OctaveDown}, {TRUE}, {0, 1, 2, 4, 5, 9})
    \cup Call("KeyRelease", {OctaveUp, OctaveDown}, BOOLEAN, {0})
    \cup Call("KeyPress", {\h1C}, {FALSE}, {0, 4})
    \cup Call("FuncPress", {PingButton, \h70}, {FALSE}, {0})
    \cup Call("FuncRelease", {PingButton}, {FALSE}, {0})
    \cup Call("MidiPress", {0, 127}, {FALSE}, {100})
    \cup Call("MidiRelease", {0, 127}, {FALSE}, {0})
    \cup Call("PitchBend", {-64, 0, 64}, {FALSE}, {0})

MCExtras == {0, 3}
=============================================================================
