---------------------------- MODULE MCPS2Decoder ----------------------------
(* The decoder fed with arbitrary byte streams.                             *)
EXTENDS PS2Decoder

(* One byte of every kind the decoder tells apart, with the two message     *)
(* prefixes (31 alone is the N key) and two typing keys.                    *)
MCWire == {BreakPrefix, ExtendPrefix, Ack, \hFC, Resend, SelfTestOk,
           \h12, AltCode, CtrlCode, CapsCode, ButtonFn, NoteFn, \h1C, \h7C}
=============================================================================
