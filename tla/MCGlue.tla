------------------------------- MODULE MCGlue -------------------------------
(* Model values for Glue: BAR 0 is active (size 0x100), BAR 1 is not.      *)
EXTENDS Glue

MCBars == {0, 1}
MCBarSize == [b \in 0 .. 5 |-> IF b = 0 THEN 256 ELSE 0]
\* Bytes at the edges of the sign bit and of the byte; the widths of spec 4.1.
MCByteVals == {0, 1, \h7f, \h80, \hff}
MCWidths == {1, 2, 4, 8}
MCReqOps == {"READ_MEM", "WRITE_MEM", "READ_CONFIG", "WRITE_CONFIG"}
=============================================================================
