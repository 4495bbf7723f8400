------------------------------- MODULE KDmaIrq -------------------------------
(***************************************************************************)
(* Completion of a DMA transfer as the user program of dma/u/main.c waits  *)
(* for it through the kdma driver (dma/sw/k/kdma.c).                        *)
(*                                                                         *)
(* The user loop starts a transfer by writing CTL (dma_start_read) and     *)
(* waits in dma_wait_io: select on the device file until kdma_file_poll    *)
(* sees bit 31 in irq_context.sta, then GET_IRQCONTEXT, which reads the    *)
(* captured status and clears it in two steps; it loops until the status  *)
(* read has bit 31.  The interrupt handler reads STA (read_sta) and, if    *)
(* bit 31 is set, stores it in irq_context.sta and wakes the wait queue.   *)
(* The device is the one of dma/d_in_c/main_dma.c: a CTL write with bit 31 *)
(* clears STA and starts a transfer, whose end sets STA's done bit and     *)
(* sends an MSI (CTL bit 30 is set by dma_start_read); before that it      *)
(* sends the buffer as Pages WRITE_MEM messages, which reach host memory   *)
(* in order and before the MSI.  The CTL write is posted: it reaches the   *)
(* device some time after the ioctl returns.  The driver requires MSI       *)
(* (kdma_pci_probe fails without it), so the handler runs once per MSI.    *)
(*                                                                         *)
(* A status is a record: the done bit and, as a history field, the number  *)
(* of the transfer whose end wrote it.                                     *)
(***************************************************************************)
EXTENDS Naturals

CONSTANTS
  MaxXfer,    \* bound on the transfers the user loop starts
  Pages       \* WRITE_MEM messages of one transfer (BRAM size / page size)

VARIABLES
  ust,        \* where the user loop is
  xfer,       \* transfers started by the user
  usta,       \* the status GET_IRQCONTEXT returned (io->sta)
  posted,     \* the CTL write is on its way to the device
  busy,       \* the device is transferring (the task is scheduled)
  sta,        \* the device's STA register
  finished,   \* transfers the device has ended (history)
  mem,        \* pages of the buffer written since reset_buffer
  msi,        \* an MSI is pending at the CPU
  hpc,        \* whether irq_handler has read STA and not returned
  hsta,       \* irq_handler's local sta
  ctx         \* dev->irq_context.sta

vars == <<ust, xfer, usta, posted, busy, sta, finished, mem, msi, hpc, hsta, ctx>>
user_vars == <<ust, xfer, usta>>
dev_vars == <<posted, busy, sta, finished, mem, msi>>
irq_vars == <<hpc, hsta>>

Zero == [done |-> FALSE, id |-> 0]
Status == [done : BOOLEAN, id : 0 .. MaxXfer]

-----------------------------------------------------------------------------
(* The user loop of main.                                                  *)

\* reset_buffer, then dma_start_read: BAZ, ADH, ADL, then
\* CTL = start | msi | size.
UserStart ==
  /\ ust = "start" /\ xfer < MaxXfer
  /\ xfer' = xfer + 1
  /\ mem' = 0
  /\ posted' = TRUE
  /\ ust' = "poll"
  /\ UNCHANGED <<usta, busy, sta, finished, msi, irq_vars, ctx>>

\* poll_int_blocking: select returns once kdma_file_poll reports POLLIN
\* (poll_wait is registered before the test, so no wake-up is missed).
UserPoll ==
  /\ ust = "poll" /\ ctx.done
  /\ ust' = "get"
  /\ UNCHANGED <<xfer, usta, dev_vars, irq_vars, ctx>>

UserGetReadCleared ==
  /\ ust = "get"
  /\ usta' = Zero /\ ctx' = Zero
  /\ ust' = "clear"
  /\ UNCHANGED <<xfer, dev_vars, irq_vars>>

\* GET_IRQCONTEXT: arg.sta = dev->irq_context.sta ...
UserGetRead ==
  /\ ust = "get"
  /\ usta' = ctx
  /\ ust' = "clear"
  /\ UNCHANGED <<xfer, dev_vars, irq_vars, ctx>>

UserGetNoClear ==
  /\ ust = "clear"
  /\ ust' = IF usta.done THEN "check" ELSE "poll"
  /\ UNCHANGED <<xfer, usta, dev_vars, irq_vars, ctx>>

\* ... barrier, dev->irq_context.sta = 0; dma_wait_io leaves its loop if
\* the status read has bit 31.
UserGetClear ==
  /\ ust = "clear"
  /\ ctx' = Zero
  /\ ust' = IF usta.done THEN "check" ELSE "poll"
  /\ UNCHANGED <<xfer, usta, dev_vars, irq_vars>>

\* dma_sync_pmem, the report and check_io, then the next iteration.
UserCheck ==
  /\ ust = "check"
  /\ ust' = "start"
  /\ UNCHANGED <<xfer, usta, dev_vars, irq_vars, ctx>>

-----------------------------------------------------------------------------
(* The device (main_dma.c) and the interrupt handler.                      *)

\* on_write of CTL with bit 31: STA = 0 and finalize_transfer scheduled.
DevLatch ==
  /\ posted
  /\ posted' = FALSE /\ busy' = TRUE /\ sta' = Zero
  /\ UNCHANGED <<user_vars, finished, mem, msi, irq_vars, ctx>>

\* finalize_transfer: one WRITE_MEM per page reaches host memory ...
DevPage ==
  /\ busy /\ mem < Pages
  /\ mem' = mem + 1
  /\ UNCHANGED <<user_vars, posted, busy, sta, finished, msi, irq_vars, ctx>>

\* ... then STA = done | count, then the MSI (CTL bit 30).
DevFinish ==
  /\ busy /\ mem = Pages
  /\ busy' = FALSE
  /\ finished' = finished + 1
  /\ sta' = [done |-> TRUE, id |-> finished + 1]
  /\ msi' = TRUE
  /\ UNCHANGED <<user_vars, posted, mem, irq_vars, ctx>>

\* irq_handler entered: sta = read_sta(dev).
HandlerRead ==
  /\ hpc = "idle"
  /\ hpc' = "read" /\ hsta' = sta

IrqMsi ==
  /\ msi /\ HandlerRead
  /\ msi' = FALSE
  /\ UNCHANGED <<user_vars, posted, busy, sta, finished, mem, ctx>>

\* If bit 31 of sta is set: irq_context.sta = sta, barrier, wake up the
\* wait queue, IRQ_HANDLED; otherwise IRQ_NONE.
IrqStore ==
  /\ hpc = "read"
  /\ hpc' = "idle"
  /\ ctx' = IF hsta.done THEN hsta ELSE ctx
  /\ UNCHANGED <<user_vars, dev_vars, hsta>>

-----------------------------------------------------------------------------

Init ==
  /\ ust = "start" /\ xfer = 0 /\ usta = Zero
  /\ posted = FALSE /\ busy = FALSE /\ sta = Zero /\ finished = 0 /\ mem = 0
  /\ msi = FALSE /\ hpc = "idle" /\ hsta = Zero /\ ctx = Zero

User == UserStart \/ UserPoll \/ UserGetRead \/ UserGetClear \/ UserCheck

Next ==
  \/ User
  \/ DevLatch \/ DevPage \/ DevFinish
  \/ IrqMsi \/ IrqStore

\* The user loop, the device's task and a pending MSI all make progress.
Spec ==
  /\ Init /\ [][Next]_vars
  /\ WF_vars(User)
  /\ WF_vars(DevLatch) /\ WF_vars(DevPage) /\ WF_vars(DevFinish)
  /\ WF_vars(IrqMsi) /\ WF_vars(IrqStore)
-----------------------------------------------------------------------------
(* Properties.                                                             *)

(***************************************************************************)
(* When dma_wait_io returns and check_io runs, the status the user got is  *)
(* the end of the transfer it started last, and the device has ended that  *)
(* transfer: no status captured for an earlier transfer is taken for it.  *)
(* It depends on the posted CTL write, STA's reset, the handler's capture *)
(* and the clear of GET_IRQCONTEXT.                                        *)
(***************************************************************************)
NoStaleCompletion ==
  ust = "check" => usta.id = xfer /\ finished = xfer

(***************************************************************************)
(* dma_wait_io returns: once the user waits for a transfer, it reaches     *)
(* check_io, through the MSI, the handler's capture, poll's wake-up and    *)
(* GET_IRQCONTEXT.                                                         *)
(***************************************************************************)
WaitReturns == (ust = "poll") ~> (ust = "check")

=============================================================================
