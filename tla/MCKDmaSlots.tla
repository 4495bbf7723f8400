----------------------------- MODULE MCKDmaSlots -----------------------------
(* Instances of KDmaSlots: three PCI devices for the two slots of         *)
(* KDMA_DEV_COUNT, BAR lengths of the DMA design (BAR1 holds the registers *)
(* dma/u/main.c accesses), and addresses modulo 2^16.                      *)
EXTENDS KDmaSlots

CONSTANTS d1, d2, d3

MCAddrMod == 2 ^ 16

\* BAR1 of 0x100 bytes, BAR2 absent; d1's BAR1 ends at the top of the
\* address space so that an offset can wrap.
MCBarLen == [p \in {d1, d2, d3} |-> [b \in 0 .. 5 |-> IF b = 1 THEN \h100 ELSE 0]]
MCBase ==
  [p \in {d1, d2, d3} |->
     [b \in 0 .. 5 |-> CASE p = d1 -> \hff00
                         [] p = d2 -> \h8000
                         [] OTHER  -> \h4000]]

Rq(b, o, n) == [bar |-> b, off |-> o, n |-> n]

\* In-range, last dword, past the end, misaligned, wrapping and invalid-BAR
\* requests on BAR1.
RangeReqs ==
  {Rq(1, 0, 1), Rq(1, \hfc, 1), Rq(1, \hfc, 2), Rq(1, \h100, 1), Rq(1, 2, 1),
   Rq(1, MCAddrMod - 4, 1), Rq(1, MCAddrMod - 4, 2), Rq(6, 0, 1)}
====
