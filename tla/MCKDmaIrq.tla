------------------------------ MODULE MCKDmaIrq ------------------------------
(* The user loop of dma/u/main.c against the C DMA device, as a model of   *)
(* KDmaIrq; the number of transfers is the bound.                          *)
EXTENDS KDmaIrq
====
