------------------------------ MODULE TaskLoop ------------------------------
(***************************************************************************)
(* The C build of the DMA device (dma/d_in_c/main_dma.c) on the endpoint   *)
(* runtime: pcie_net_loop with its single deferred-task slot, the          *)
(* READ_MEM/WRITE_MEM cases of on_msg_recv, and the device's on_read,      *)
(* on_write and finalize_transfer.  Everything runs on one thread; the     *)
(* concurrency is between that thread and the peer, whose requests arrive  *)
(* while a task waits for the timeout of select.                           *)
(*                                                                         *)
(* Data is abstracted: CTL is a record of its start bit (31), MSI bit (30) *)
(* and byte count (15:0); STA of its done bit (31) and count; ADL is a     *)
(* host address from a small set.  ADH and BAZ are latched exactly like    *)
(* ADL and only change the payload, so they are not distinguished.         *)
(***************************************************************************)
EXTENDS Integers, Sequences, SequencesExt

CONSTANTS
  Addrs,         \* host addresses the peer writes to ADL
  Counts,        \* byte counts the peer writes to CTL[15:0]
  MaxReq,        \* bound on the requests the peer sends
  PeerMayClose,  \* may the peer close the connection?
  AllOnes,       \* the all-ones data of an unserved read
  NULL

ASSUME MaxReq \in Nat /\ PeerMayClose \in BOOLEAN /\ Counts \subseteq Nat

VARIABLES
  net_in,     \* requests the peer wrote and the loop has not read
  net_out,    \* messages the peer received, in order
  peer_open,  \* the peer has not closed the connection
  recvd,      \* requests the loop has handled, in order (history)
  loop_pc,    \* "run" while pcie_net_loop loops, "exited" after the break
  regs,       \* dma->regs: CTL, STA, ADL
  saved,      \* dma->saved_ctl and dma->saved_adl
  task,       \* net->task_fn: NULL or "finalize"
  task_id,    \* which schedule the pending task comes from (history)
  sched,      \* number of pcie_net_add_task calls (history)
  ran,        \* schedules whose task has run (history)
  adl0        \* the value ADL held before any write (history)

vars == <<net_in, net_out, peer_open, recvd, loop_pc, regs, saved, task,
          task_id, sched, ran, adl0>>

\* finalize_transfer: 32 KiB of bram sent one 4 KiB page per message.
PageSize == 4096
BramSize == 8 * 4096
Pages == BramSize \div PageSize
TailSize == BramSize % PageSize

CtlVals == [go : BOOLEAN, msi : BOOLEAN, count : Counts]
StaVals == [done : BOOLEAN, count : Counts \cup {0}]
StaZero == [done |-> FALSE, count |-> 0]

\* Only BAR 0 is set by main (pcie_set_bar(&dma.dev, 0, 0x100, ...)).
BarActive(bar) == bar = 0

Rd(bar, reg) == [op |-> "READ_MEM", bar |-> bar, reg |-> reg, val |-> NULL]
Wr(bar, reg, v) == [op |-> "WRITE_MEM", bar |-> bar, reg |-> reg, val |-> v]

\* The accesses of the kdma driver: program ADL and CTL, poll STA; and an
\* access outside the register file and one to the unset BAR 1.
PeerReqs ==
  {Wr(0, "CTL", c) : c \in CtlVals} \cup {Wr(0, "ADL", a) : a \in Addrs}
    \cup {Rd(0, "STA"), Rd(0, "OTHER"), Rd(1, "STA"), Wr(1, "CTL", NULL)}

\* A message as the peer sees it; at is the number of requests the loop
\* had handled when it was sent (history).
Out(kind, base, page, val) ==
  [kind |-> kind, base |-> base, page |-> page, val |-> val, at |-> Len(recvd)]

\* pcie_net_send_msg / pcie_net_send_reply: lost once the peer closed.
Send(msgs) == net_out' = IF peer_open THEN net_out \o msgs ELSE net_out

-----------------------------------------------------------------------------
(* The peer.                                                               *)

PeerSend(m) ==
  /\ peer_open /\ Len(recvd) + Len(net_in) < MaxReq
  /\ net_in' = Append(net_in, m)
  /\ UNCHANGED <<net_out, peer_open, recvd, loop_pc, regs, saved, task,
                 task_id, sched, ran, adl0>>

PeerClose ==
  /\ PeerMayClose /\ peer_open
  /\ peer_open' = FALSE
  /\ UNCHANGED <<net_in, net_out, recvd, loop_pc, regs, saved, task,
                 task_id, sched, ran, adl0>>

-----------------------------------------------------------------------------
(* The device and the task slot.                                           *)

\* pcie_add_task -> pcie_net_add_task: store tm, fn and data in the slot,
\* whatever it held.
AddTaskNoFn ==
  /\ sched' = sched + 1
  /\ UNCHANGED <<task, task_id>>

AddTask ==
  /\ task' = "finalize"
  /\ task_id' = sched + 1
  /\ sched' = sched + 1

\* on_read: a register, or 0xff bytes outside the register file.
OnRead(reg) == IF reg \in DOMAIN regs THEN regs[reg] ELSE AllOnes

OnWriteNoClear(reg, v) ==
  LET w == [regs EXCEPT ![reg] = v] IN
  IF reg = "CTL" /\ v.go
  THEN /\ saved' = [ctl |-> v, adl |-> w.ADL]
       /\ regs' = w
       /\ AddTask
  ELSE /\ regs' = w
       /\ UNCHANGED <<saved, task, task_id, sched>>

\* on_write: store the register; CTL[31] latches CTL and ADL, clears STA
\* and schedules finalize_transfer in 1 ms.
OnWrite(reg, v) ==
  LET w == [regs EXCEPT ![reg] = v] IN
  IF reg = "CTL" /\ v.go
  THEN /\ saved' = [ctl |-> v, adl |-> w.ADL]
       /\ regs' = [w EXCEPT !.STA = StaZero]
       /\ AddTask
  ELSE /\ regs' = w
       /\ UNCHANGED <<saved, task, task_id, sched>>

\* pcie_send_msi: op MSI, 8 zero bytes.
Msi == Out("msi", NULL, NULL, NULL)

Block(base) == [p \in 1 .. Pages |-> Out("wmem", base, p - 1, NULL)]
TailPage(base) == IF TailSize # 0 THEN <<Out("wmem", base, Pages, NULL)>> ELSE <<>>
MsiIf(ctl) == IF ctl.msi THEN <<Msi>> ELSE <<>>

FinalizeUnlatched ==
  /\ Send(Block(regs.ADL) \o TailPage(regs.ADL) \o MsiIf(saved.ctl))
  /\ regs' = [regs EXCEPT !.STA = [done |-> TRUE, count |-> saved.ctl.count]]

FinalizeMsiFirst ==
  /\ Send(MsiIf(saved.ctl) \o Block(saved.adl) \o TailPage(saved.adl))
  /\ regs' = [regs EXCEPT !.STA = [done |-> TRUE, count |-> saved.ctl.count]]

FinalizeNoMask ==
  /\ Send(Block(saved.adl) \o TailPage(saved.adl) \o MsiIf(saved.ctl))
  /\ regs' = [regs EXCEPT !.STA = [done |-> TRUE, msi |-> saved.ctl.msi,
                                    count |-> saved.ctl.count]]

\* finalize_transfer: the pages to the latched address, then STA[31] and
\* the count, then the MSI if CTL[30] was latched.
FinalizeTransfer ==
  /\ Send(Block(saved.adl) \o TailPage(saved.adl) \o MsiIf(saved.ctl))
  /\ regs' = [regs EXCEPT !.STA = [done |-> TRUE, count |-> saved.ctl.count]]

\* on_msg_recv, READ_MEM and WRITE_MEM cases, with the reply the loop
\* sends when must_reply is set.
MsgRecv(m) ==
  \/ /\ m.op = "READ_MEM"
     /\ Send(<<Out("reply", NULL, NULL,
                   IF BarActive(m.bar) THEN OnRead(m.reg) ELSE AllOnes)>>)
     /\ UNCHANGED <<regs, saved, task, task_id, sched>>
  \/ /\ m.op = "WRITE_MEM" /\ BarActive(m.bar)
     /\ OnWrite(m.reg, m.val)
     /\ UNCHANGED net_out
  \/ /\ m.op = "WRITE_MEM" /\ ~BarActive(m.bar)
     /\ UNCHANGED <<net_out, regs, saved, task, task_id, sched>>

-----------------------------------------------------------------------------
(* pcie_net_loop on the device thread.                                     *)

\* select reports the socket readable: receive one frame and dispatch it.
LoopRecv ==
  /\ loop_pc = "run" /\ net_in # <<>>
  /\ LET m == Head(net_in) IN
       /\ net_in' = Tail(net_in)
       /\ recvd' = Append(recvd, m)
       /\ MsgRecv(m)
  /\ UNCHANGED <<peer_open, loop_pc, ran, adl0>>

\* select returns 0: a task is set and nothing became readable before its
\* timeout (an open, idle socket).  The slot is cleared, then the task runs.
LoopTimeout ==
  /\ loop_pc = "run" /\ task # NULL
  /\ net_in = <<>> /\ peer_open
  /\ task' = NULL
  /\ ran' = ran \cup {task_id}
  /\ FinalizeTransfer
  /\ UNCHANGED <<net_in, peer_open, recvd, loop_pc, saved, task_id, sched,
                 adl0>>

\* The peer closed: the header recv returns 0, pcie_net_recv_msg fails and
\* the loop breaks with must_stop; main then calls pcie_fini and returns.
LoopEof ==
  /\ loop_pc = "run" /\ net_in = <<>> /\ ~peer_open
  /\ loop_pc' = "exited"
  /\ UNCHANGED <<net_in, net_out, peer_open, recvd, regs, saved, task,
                 task_id, sched, ran, adl0>>

-----------------------------------------------------------------------------

\* main: pcie_init_net sets task_fn to NULL; dma is a stack variable whose
\* registers are never initialised, so STA and ADL hold any value.  CTL
\* and saved_ctl/adl are overwritten before they are first read, so one
\* arbitrary value stands for all of theirs.
Init ==
  /\ net_in = <<>> /\ net_out = <<>> /\ peer_open = TRUE /\ recvd = <<>>
  /\ loop_pc = "run"
  /\ regs \in [CTL : {CHOOSE c \in CtlVals : TRUE}, STA : StaVals, ADL : Addrs]
  /\ saved = [ctl |-> CHOOSE c \in CtlVals : TRUE, adl |-> CHOOSE a \in Addrs : TRUE]
  /\ task = NULL /\ task_id = 0 /\ sched = 0 /\ ran = {}
  /\ adl0 = regs.ADL

Next ==
  \/ LoopRecv \/ LoopTimeout \/ LoopEof
  \/ \E m \in PeerReqs : PeerSend(m)
  \/ PeerClose

(***************************************************************************)
(* The loop thread is always scheduled and select's timeout always         *)
(* expires; the peer is free.                                              *)
(***************************************************************************)
Spec == Init /\ [][Next]_vars
          /\ WF_vars(LoopRecv) /\ WF_vars(LoopTimeout) /\ WF_vars(LoopEof)

-----------------------------------------------------------------------------
(* Properties.                                                             *)

TypeOK ==
  /\ net_in \in Seq(PeerReqs)
  /\ \A k \in 1 .. Len(net_out) :
       net_out[k] \in [kind : {"reply", "wmem", "msi"},
                       base : Addrs \cup {NULL}, page : (0 .. Pages) \cup {NULL},
                       val : CtlVals \cup StaVals \cup Addrs \cup {AllOnes, NULL},
                       at : 0 .. MaxReq]
  /\ peer_open \in BOOLEAN /\ recvd \in Seq(PeerReqs)
  /\ loop_pc \in {"run", "exited"}
  /\ regs \in [CTL : CtlVals, STA : StaVals, ADL : Addrs]
  /\ saved \in [ctl : CtlVals, adl : Addrs]
  /\ task \in {NULL, "finalize"} /\ task_id \in 0 .. sched
  /\ sched \in 0 .. MaxReq /\ ran \subseteq 1 .. sched

IsStart(m) == m.op = "WRITE_MEM" /\ BarActive(m.bar) /\ m.reg = "CTL" /\ m.val.go
IsAdlWrite(m) == m.op = "WRITE_MEM" /\ BarActive(m.bar) /\ m.reg = "ADL"

\* The value ADL held when the i-th handled request arrived.
AdlBefore(i) ==
  LET j == SelectLastInSubSeq(recvd, 1, i - 1, IsAdlWrite)
  IN IF j = 0 THEN adl0 ELSE recvd[j].val

(***************************************************************************)
(* Every DMA write and MSI the peer receives belongs to the last start the *)
(* device had received when it was sent: the pages go to the address ADL   *)
(* held when CTL[31] was written, even if ADL has been rewritten since,    *)
(* and an MSI only follows a start with CTL[30] set (on_write latches the  *)
(* context into saved_ctl/adl, finalize_transfer reads only those).            *)
(***************************************************************************)
LatchedTarget ==
  \A k \in 1 .. Len(net_out) :
    net_out[k].kind \in {"wmem", "msi"} =>
      LET s == SelectLastInSubSeq(recvd, 1, net_out[k].at, IsStart) IN
        /\ s > 0
        /\ net_out[k].kind = "wmem" => net_out[k].base = AdlBefore(s)
        /\ net_out[k].kind = "msi" => recvd[s].val.msi

(***************************************************************************)
(* The transfer reaches the peer whole and in order: pages 0 .. Pages-1 of *)
(* one address back to back, and an MSI only right after the last page     *)
(* (spec: 8 WRITE_MEM messages, followed by one MSI).                      *)
(***************************************************************************)
IsPage(k, p) == net_out[k].kind = "wmem" /\ net_out[k].page = p

BlockOrder ==
  \A k \in 1 .. Len(net_out) :
    /\ net_out[k].kind = "wmem" /\ net_out[k].page > 0 =>
         k > 1 /\ IsPage(k - 1, net_out[k].page - 1)
               /\ net_out[k - 1].base = net_out[k].base
    /\ net_out[k].kind = "wmem" /\ net_out[k].page < Pages - 1 =>
         k < Len(net_out) /\ IsPage(k + 1, net_out[k].page + 1)
    /\ net_out[k].kind = "msi" => k > 1 /\ IsPage(k - 1, Pages - 1)

(***************************************************************************)
(* Once a transfer has been started, STA[31] is set exactly when no        *)
(* finalize_transfer is pending, and then STA[15:0] is the latched count:  *)
(* a driver polling STA never sees a stale "done" from an earlier          *)
(* transfer or from the uninitialised register.                            *)
(***************************************************************************)
StaTracksTask ==
  sched > 0 =>
    /\ regs.STA.done = (task = NULL)
    /\ regs.STA.done => regs.STA.count = saved.ctl.count

(***************************************************************************)
(* After a start, STA[31] is eventually set, unless the loop has exited:   *)
(* the task slot is served by select's timeout.                            *)
(***************************************************************************)
TransferCompletes ==
  (sched > 0 /\ ~regs.STA.done) ~> (regs.STA.done \/ loop_pc = "exited")

(***************************************************************************)
(* Every scheduled task runs or is the one still pending (spec 4.2: a      *)
(* deferred task, once scheduled, runs exactly once).                      *)
(***************************************************************************)
TaskNotLost == \A k \in 1 .. sched : k \in ran \/ k = task_id

=============================================================================
