----------------------------- MODULE MCDataPath -----------------------------
(* The readings DataPath is checked with.                                  *)
EXTENDS DataPath

\* Below, at and above the limits of each type when a word has two bits.
MCReadings == {-3, -1, 2, 5, 17}

=============================================================================
