----------------------------- MODULE MCKDmaFile -----------------------------
(* Instances of KDmaFile: the DMA design's BAR1 of 0x100 bytes on two PCI *)
(* devices sharing the two slots of KDMA_DEV_COUNT, and the main loop's    *)
(* register access as the one READ_BAR/WRITE_BAR request.                  *)
EXTENDS KDmaFile

CONSTANTS d1, d2, q1, q2, b1, b2

MCAddrMod == 2 ^ 16

MCBarLen == [p \in {d1, d2} |-> [b \in 0 .. 5 |-> IF b = 1 THEN \h100 ELSE 0]]
MCBase == [p \in {d1, d2} |-> [b \in 0 .. 5 |-> IF p = d1 THEN \h8000 ELSE \h4000]]

\* A dword of BAR1, as dma_start_read writes the DMA registers.
RegReqs == {[bar |-> 1, off |-> 0, n |-> 1]}
====
