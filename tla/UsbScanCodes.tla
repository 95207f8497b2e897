---------------------------- MODULE UsbScanCodes ----------------------------
(***************************************************************************)
(* The translation of PS/2 scan codes to USB usage codes that              *)
(* ps2ScanCodeToUsb() makes: rows of a scan code and its usage code, some  *)
(* of which have a second entry for the extended (E0) key.  0 means "no    *)
(* such key".                                                              *)
(***************************************************************************)
EXTENDS Integers, Sequences

(* Rows whose USB codes follow each other: F1..F12, the letters in          *)
(* alphabetical order, the digits 1..9, 0.                                  *)
Run(codes, first) == {<<codes[i], first - 1 + i>> : i \in DOMAIN codes}

FunctionKeys == Run(<<\h05, \h06, \h04, \h0C, \h03, \h0B, \h83, \h0A, \h01, \h09, \h78, \h07>>, \h3A)
Letters == Run(<<\h1C, \h32, \h21, \h23, \h24, \h2B, \h34, \h33, \h43, \h3B, \h42, \h4B, \h3A,
                 \h31, \h44, \h4D, \h15, \h2D, \h1B, \h2C, \h3C, \h2A, \h1D, \h22, \h35, \h1A>>, \h04)
Digits == Run(<<\h16, \h1E, \h26, \h25, \h2E, \h36, \h3D, \h3E, \h46, \h45>>, \h1E)

Punctuation == {
    <<\h0E, \h32>>, <<\h41, \h36>>, <<\h49, \h37>>, <<\h4A, \h38>>, <<\h4C, \h33>>,
    <<\h52, \h34>>, <<\h54, \h2F>>, <<\h5B, \h30>>, <<\h4E, \h2D>>, <<\h55, \h2E>>,
    <<\h29, \h2C>>, <<\h0D, \h2B>>, <<\h5A, \h28>>, <<\h66, \h2A>>}

Keypad == {
    <<\h69, \h59>>, <<\h6B, \h5C>>, <<\h6C, \h5F>>, <<\h70, \h62>>, <<\h71, \h63>>,
    <<\h72, \h5A>>, <<\h73, \h5D>>, <<\h74, \h5E>>, <<\h75, \h60>>, <<\h76, \h29>>,
    <<\h79, \h57>>, <<\h7A, \h5B>>, <<\h7B, \h56>>, <<\h7C, \h55>>, <<\h7D, \h61>>,
    <<\h7E, \h47>>, <<\h77, \h53>>}

ModifierRows == {<<\h11, \hE6>>, <<\h12, \hE1>>, <<\h59, \hE5>>, <<\h14, \hE0>>}

Plain == FunctionKeys \cup Letters \cup Digits \cup Punctuation \cup Keypad \cup ModifierRows

(* Rows with an entry of their own for the extended key.                    *)
Extended ==
    {<<row[1], 0>> : row \in FunctionKeys} \cup {<<c, 0>> : c \in {\h0E, \h7E, \h12, \h59}} \cup {
    <<\h32, \h80>>, <<\h21, \h81>>, <<\h23, \h7F>>, <<\h34, \hE8>>, <<\h3B, \hF3>>,
    <<\h4D, \hEB>>, <<\h15, \hEA>>, <<\h1F, \hE3>>, <<\h27, \hE7>>, <<\h5A, \h58>>,
    <<\h6B, \h50>>, <<\h6C, \h4A>>, <<\h70, \h49>>, <<\h71, \h4C>>, <<\h72, \h51>>,
    <<\h74, \h4F>>, <<\h75, \h52>>, <<\h7A, \h4E>>, <<\h7C, \h46>>, <<\h7D, \h4B>>,
    <<\h77, \h53>>, <<\h11, \hE2>>, <<\h14, \hE4>>, <<\h2F, \h76>>, <<\h61, \h65>>}

Codes(table) == {row[1] : row \in table}
Entry(table, code) == (CHOOSE row \in table : row[1] = code)[2]

UsbCode(code, ext) ==
    IF ext /\ code \in Codes(Extended) THEN Entry(Extended, code)
    ELSE IF code \in Codes(Plain) THEN Entry(Plain, code) ELSE 0

=============================================================================
