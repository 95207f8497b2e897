---- MODULE MCSketchMain ----
(* Values for TLC: Caps Lock on, Num Lock only, a ping; a piano key; a plain *)
(* key.                                                                     *)
EXTENDS SketchMain
MCPackets == {[intf |-> 75, cmd |-> 76, data1 |-> 2], [intf |-> 75, cmd |-> 76, data1 |-> 1],
              [intf |-> 105, cmd |-> 63, data1 |-> 0]}
MCEvents == {<<\hE0, \h51, \h3C, \h40>>}
MCKeyEvents == {<<\h1C>>}
====
