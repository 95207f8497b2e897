----------------------------- MODULE MCLufaLink -----------------------------
(* Packets that differ in every field, a small alphabet for the bytes.      *)
EXTENDS LufaLink

MCPackets    == {<<1, 2, 2, 1>>, <<1, 1, 1, 2>>}
ManyPackets  == {<<1, 2, 3, 4>>, <<1, 3, 2, 2>>, <<4, 2, 3, 1>>, <<4, 4, 4, 4>>,
                 <<2, 1, 4, 3>>}
MCText       == {5}
=============================================================================
