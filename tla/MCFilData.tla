----------------------------- MODULE MCFilData -----------------------------
(* Files for the model checker: of one and two polarisations in both       *)
(* orders, of all sizes of values; a byte over 127 in the 8-bit ones.      *)
EXTENDS FilData

MCFile(n, p, b, t, o) ==
  [samples |-> n, nifs |-> p, nbits |-> b, tsamp |-> t, order |-> o,
   high |-> IF b = 8 THEN {0, 8 * Nchans * p} ELSE {}]

MCFiles == {MCFile(4, 2, 8, 1, "chan_if"), MCFile(4, 2, 32, 2, "if_chan"),
            MCFile(4, 1, 1, 1, "chan_if"), MCFile(2, 1, 16, 1, "chan_if")}


MCShifts == {-1, 1}
=============================================================================
