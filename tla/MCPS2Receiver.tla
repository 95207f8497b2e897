---- MODULE MCPS2Receiver ----
(* Values for TLC: a plain key, and the prefixes E0 and F0, whose bytes end  *)
(* in many ones.                                                             *)
EXTENDS PS2Receiver
MCBytes == {Bits(\h1C), Bits(\hE0), Bits(\hF0)}
====
