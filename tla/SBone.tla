-------------------------------- MODULE SBone --------------------------------
(***************************************************************************)
(* The sbone kernel driver (sbone/k/sbone.c) with the test program of      *)
(* sbone/u/main.c.                                                         *)
(*                                                                         *)
(* The driver: probe and remove of PCI devices over the lock-free slot     *)
(* table (sbone_dev_alloc/sbone_dev_free on sbone_driver.bits), the error *)
(* unwinding of sbone_pci_probe, the interrupt handler that counts         *)
(* interrupts in the slot's irq_count, and the file operations open,       *)
(* GET_IRQCOUNT (a fetch-and-and with 0), poll and close.                  *)
(*                                                                         *)
(* The test program opens /dev/sbone (minor 0), clears the count, writes   *)
(* the interrupt-triggering register of the device at a fixed PCI address  *)
(* (Target) through its /dev/mem mapping, selects until the file is        *)
(* readable, reads the count and closes.  The device answers the write     *)
(* with one MSI.  Each access to bits is a step of its own; irq_handler is *)
(* one step, as free_irq waits for a running handler.                      *)
(***************************************************************************)
EXTENDS Integers

CONSTANTS
  Pci,        \* the PCI devices matching sbone_pci_ids
  NDev,       \* SBONE_DEV_COUNT
  Target,     \* the device at 00:04.0 the test program writes to
  MayFail,    \* map_bars, enable_msi, request_irq or cdev_add may fail
  MayRemove,  \* the PCI core may remove a probed device
  MaxRuns,    \* bound on the runs of the test program
  NULL

Slots == 0 .. NDev - 1

VARIABLES
  bits,     \* sbone_driver.bits, as the set of allocated slots
  pc,       \* pc[p]: where the probe or remove of p is
  x,        \* x[p]: the bitmap sbone_dev_alloc captured
  i,        \* i[p]: the bit sbone_dev_alloc is looking at
  slot,     \* slot[p]: the device sbone_dev_alloc returned (drvdata)
  irqdev,   \* irqdev[p]: dev_id of p's registered handler, or NULL
  cdev,     \* cdev[s]: the PCI device whose cdev is added at minor s
  count,    \* count[s]: sbone_driver.devs[s].irq_count
  pend,     \* pend[p]: p has an MSI to send
  ust,      \* where the test program is
  ufile,    \* the program's file->private_data (a slot) or NULL
  nirqs,    \* the count the program printed last
  runs,     \* runs of the test program started
  uowner,   \* the PCI device whose file the program opened, NULL once removed
  handled,  \* handled[p]: interrupts of p handled since p's slot was allocated
  got       \* got[s]: counts GET_IRQCOUNT returned since slot s was zeroed

vars == <<bits, pc, x, i, slot, irqdev, cdev, count, pend, ust, ufile,
          nirqs, runs, uowner, handled, got>>
probe_vars == <<pc, x, i, slot>>
user_vars == <<ust, ufile, nirqs, runs, uowner>>

PcSet == {"absent", "scan", "map", "irq", "cdev", "live", "rm_irq", "rm_free"}

-----------------------------------------------------------------------------
(* Probe and remove.                                                       *)

\* sbone_dev_alloc fails: sbone_pci_probe returns -ENOMEM.
AllocNull(p) ==
  /\ pc' = [pc EXCEPT ![p] = "absent"]
  /\ UNCHANGED <<bits, x, i, slot, count, handled, got>>

WinOffByOne(p, k) ==
  /\ pc' = [pc EXCEPT ![p] = "map"]
  /\ slot' = [slot EXCEPT ![p] = k + 1]
  /\ count' = [count EXCEPT ![k] = 0]
  /\ got' = [got EXCEPT ![k] = 0]
  /\ handled' = [handled EXCEPT ![p] = 0]
  /\ UNCHANGED <<x, i>>

\* The fetch-and-or of bit k found it clear: p owns slot k, and
\* sbone_dev_init zeroes its irq_count.
Win(p, k) ==
  /\ pc' = [pc EXCEPT ![p] = "map"]
  /\ slot' = [slot EXCEPT ![p] = k]
  /\ count' = [count EXCEPT ![k] = 0]
  /\ got' = [got EXCEPT ![k] = 0]
  /\ handled' = [handled EXCEPT ![p] = 0]
  /\ UNCHANGED <<x, i>>

NextBit(p, k) ==
  /\ i' = [i EXCEPT ![p] = k + 1]
  /\ UNCHANGED <<pc, x, slot, count, handled, got>>

\* sbone_pci_probe calls sbone_dev_alloc, which reads the bitmap.
ProbeStart(p) ==
  /\ pc[p] = "absent"
  /\ pc' = [pc EXCEPT ![p] = "scan"]
  /\ x' = [x EXCEPT ![p] = bits]
  /\ i' = [i EXCEPT ![p] = 0]
  /\ UNCHANGED <<bits, slot, irqdev, cdev, count, pend, user_vars, handled, got>>

\* One iteration of sbone_dev_alloc's loop on the captured x: NULL when
\* bits i..ndev-1 of x are all set; if bit i of x is clear, fetch-and-or
\* it and own the slot if it was clear; otherwise the next bit.  NULL
\* after the last bit.
ScanStep(p) ==
  LET k == i[p] IN
  /\ pc[p] = "scan"
  /\ IF (k .. NDev - 1) \subseteq x[p] THEN AllocNull(p)
     ELSE IF k \notin x[p]
     THEN /\ bits' = bits \cup {k}
          /\ IF k \notin bits THEN Win(p, k)
             ELSE IF k + 1 < NDev THEN NextBit(p, k)
             ELSE AllocNull(p)
     ELSE NextBit(p, k) /\ UNCHANGED bits
  /\ UNCHANGED <<irqdev, cdev, pend, user_vars>>

\* The labels on_error_2 .. on_error_1 of sbone_pci_probe: unmap the
\* BARs, disable the device, sbone_dev_free (a fetch-and-and).
Unwind(p) ==
  /\ bits' = bits \ {slot[p]}
  /\ pc' = [pc EXCEPT ![p] = "absent"]
  /\ UNCHANGED <<x, i, slot, count, handled, got>>

\* pci_enable_device and sbone_dev_map_bars.
ProbeMap(p) ==
  /\ pc[p] = "map"
  /\ \/ /\ pc' = [pc EXCEPT ![p] = "irq"]
        /\ UNCHANGED <<bits, x, i, slot, count, handled, got>>
     \/ MayFail /\ Unwind(p)
  /\ UNCHANGED <<irqdev, cdev, pend, user_vars>>

\* pci_enable_msi and request_irq with dev_id the slot's device; a
\* failure unwinds (on_error_3 disables MSI first).
ProbeIrq(p) ==
  /\ pc[p] = "irq"
  /\ \/ /\ irqdev' = [irqdev EXCEPT ![p] = slot[p]]
        /\ pc' = [pc EXCEPT ![p] = "cdev"]
        /\ UNCHANGED <<bits, x, i, slot, count, handled, got>>
     \/ MayFail /\ Unwind(p) /\ UNCHANGED irqdev
  /\ UNCHANGED <<cdev, pend, user_vars>>

\* sbone_cdev_init; on failure on_error_4 frees the irq and unwinds.
ProbeCdev(p) ==
  /\ pc[p] = "cdev"
  /\ \/ /\ cdev' = [cdev EXCEPT ![slot[p]] = p]
        /\ pc' = [pc EXCEPT ![p] = "live"]
        /\ UNCHANGED <<bits, x, i, slot, irqdev, count, handled, got>>
     \/ /\ MayFail
        /\ irqdev' = [irqdev EXCEPT ![p] = NULL]
        /\ Unwind(p)
        /\ UNCHANGED cdev
  /\ UNCHANGED <<pend, user_vars>>

\* sbone_pci_remove: sbone_cdev_fini ...
RemoveCdev(p) ==
  /\ MayRemove /\ pc[p] = "live"
  /\ cdev' = [cdev EXCEPT ![slot[p]] = NULL]
  /\ pc' = [pc EXCEPT ![p] = "rm_irq"]
  /\ uowner' = IF uowner = p THEN NULL ELSE uowner
  /\ UNCHANGED <<bits, x, i, slot, irqdev, count, pend, ust, ufile, nirqs,
                 runs, handled, got>>

RemoveIrqKeep(p) ==
  /\ pc[p] = "rm_irq"
  /\ pc' = [pc EXCEPT ![p] = "rm_free"]
  /\ UNCHANGED <<bits, x, i, slot, irqdev, cdev, count, pend, user_vars, handled, got>>

\* ... free_irq, pci_disable_msi, unmap, pci_disable_device ...
RemoveIrq(p) ==
  /\ pc[p] = "rm_irq"
  /\ irqdev' = [irqdev EXCEPT ![p] = NULL]
  /\ pc' = [pc EXCEPT ![p] = "rm_free"]
  /\ UNCHANGED <<bits, x, i, slot, cdev, count, pend, user_vars, handled, got>>

\* ... and sbone_dev_free.
RemoveFree(p) ==
  /\ pc[p] = "rm_free"
  /\ bits' = bits \ {slot[p]}
  /\ pc' = [pc EXCEPT ![p] = "absent"]
  /\ UNCHANGED <<x, i, slot, irqdev, cdev, count, pend, user_vars, handled, got>>

-----------------------------------------------------------------------------
(* The device's MSI and irq_handler.                                       *)

\* A sleeper on the wait queue of slot s is woken.
WakeUp(s) == ust' = IF ust = "sleep" /\ ufile = s THEN "select" ELSE ust

IrqHandlerNoWake(p) ==
  /\ pend[p]
  /\ pend' = [pend EXCEPT ![p] = FALSE]
  /\ IF irqdev[p] # NULL
     THEN /\ count' = [count EXCEPT ![irqdev[p]] = @ + 1]
          /\ handled' = [handled EXCEPT ![p] = @ + 1]
     ELSE UNCHANGED <<count, handled>>
  /\ UNCHANGED <<bits, probe_vars, irqdev, cdev, user_vars, got>>

\* The device sends its MSI.  With a handler registered, irq_handler
\* increments irq_count of its dev_id (a fetch-and-add) and wakes the
\* wait queue; with MSI disabled the message is dropped.
IrqHandler(p) ==
  /\ pend[p]
  /\ pend' = [pend EXCEPT ![p] = FALSE]
  /\ IF irqdev[p] # NULL
     THEN /\ count' = [count EXCEPT ![irqdev[p]] = @ + 1]
          /\ handled' = [handled EXCEPT ![p] = @ + 1]
          /\ WakeUp(irqdev[p])
     ELSE UNCHANGED <<count, handled, ust>>
  /\ UNCHANGED <<bits, probe_vars, irqdev, cdev, ufile, nirqs, runs, got, uowner>>

-----------------------------------------------------------------------------
(* The test program.                                                       *)

\* sbone_file_open on the cdev of minor s: the device must be valid and
\* allocated (a plain read of bits).
FileOpenOk(s) == cdev[s] # NULL /\ s \in bits

\* sbone_dev_open_pcie ends with open("/dev/sbone"), minor 0; if it
\* fails main returns -1.
UserOpen ==
  /\ ust = "idle" /\ runs < MaxRuns
  /\ runs' = runs + 1
  /\ IF FileOpenOk(0)
     THEN ufile' = 0 /\ ust' = "clear" /\ uowner' = cdev[0]
     ELSE UNCHANGED <<ufile, ust, uowner>>
  /\ UNCHANGED <<bits, probe_vars, irqdev, cdev, count, pend, nirqs, handled, got>>

\* SBONE_IOCTL_GET_IRQCOUNT: arg.count = atomic32_and(&irq_count, 0).
GetIrqCount(s) ==
  /\ count' = [count EXCEPT ![s] = 0]
  /\ got' = [got EXCEPT ![s] = @ + count[s]]

\* clear_irqcount.
UserClear ==
  /\ ust = "clear"
  /\ GetIrqCount(ufile)
  /\ ust' = "trigger"
  /\ UNCHANGED <<bits, probe_vars, irqdev, cdev, pend, ufile, nirqs, runs, handled, uowner>>

\* w(&dev, 0x20, 0): the device's interrupt-triggering register.
UserTrigger ==
  /\ ust = "trigger"
  /\ pend' = [pend EXCEPT ![Target] = TRUE]
  /\ ust' = "select"
  /\ UNCHANGED <<bits, probe_vars, irqdev, cdev, count, ufile, nirqs, runs, handled, got, uowner>>

\* select calls sbone_file_poll: poll_wait registers on the wait queue,
\* then the file is readable if irq_count is not 0; otherwise the
\* program sleeps until a wake-up and polls again.
UserSelect ==
  /\ ust = "select"
  /\ ust' = IF count[ufile] # 0 THEN "get" ELSE "sleep"
  /\ UNCHANGED <<bits, probe_vars, irqdev, cdev, count, pend, ufile, nirqs, runs, handled, got, uowner>>

\* get_irqcount, the printf of nirqs, and sbone_dev_close.
UserGet ==
  /\ ust = "get"
  /\ GetIrqCount(ufile)
  /\ nirqs' = count[ufile]
  /\ ufile' = NULL
  /\ ust' = "idle"
  /\ UNCHANGED <<bits, probe_vars, irqdev, cdev, pend, runs, handled, uowner>>

-----------------------------------------------------------------------------

Init ==
  /\ bits = {}
  /\ pc = [p \in Pci |-> "absent"]
  /\ x = [p \in Pci |-> {}]
  /\ i = [p \in Pci |-> 0]
  /\ slot = [p \in Pci |-> NULL]
  /\ irqdev = [p \in Pci |-> NULL]
  /\ cdev = [s \in Slots |-> NULL]
  /\ count = [s \in Slots |-> 0]
  /\ pend = [p \in Pci |-> FALSE]
  /\ ust = "idle" /\ ufile = NULL /\ nirqs = 0 /\ runs = 0 /\ uowner = NULL
  /\ handled = [p \in Pci |-> 0]
  /\ got = [s \in Slots |-> 0]

\* The steps of a probe or remove once it has started.
Busy(p) ==
  ScanStep(p) \/ ProbeMap(p) \/ ProbeIrq(p) \/ ProbeCdev(p)
    \/ RemoveIrq(p) \/ RemoveFree(p)

User == UserClear \/ UserTrigger \/ UserSelect \/ UserGet

Next ==
  \/ \E p \in Pci : ProbeStart(p) \/ Busy(p) \/ RemoveCdev(p) \/ IrqHandler(p)
  \/ UserOpen \/ User

\* Kernel threads in probe or remove run on; a pending MSI is delivered;
\* a started test program runs on.  Starting a probe, a remove or a run
\* is up to the PCI core and the operator.
Spec ==
  /\ Init /\ [][Next]_vars
  /\ \A p \in Pci : WF_vars(Busy(p)) /\ WF_vars(IrqHandler(p))
  /\ WF_vars(User)
-----------------------------------------------------------------------------
(* Properties.                                                             *)

\* The probe states in which p's handler is registered on its slot.
IrqOn == {"cdev", "live", "rm_irq"}

TypeOK ==
  /\ bits \subseteq Slots
  /\ pc \in [Pci -> PcSet]
  /\ slot \in [Pci -> Slots \cup {NULL}]
  /\ irqdev \in [Pci -> Slots \cup {NULL}]
  /\ cdev \in [Slots -> Pci \cup {NULL}]
  /\ count \in [Slots -> 0 .. MaxRuns]
  /\ ust \in {"idle", "clear", "trigger", "select", "sleep", "get"}
  /\ ufile \in Slots \cup {NULL}
  /\ nirqs \in 0 .. MaxRuns

(***************************************************************************)
(* Every interrupt of a probed device is counted once, in its own slot:    *)
(* while p's handler is registered, the irq_count of p's slot plus what    *)
(* GET_IRQCOUNT has returned from it since sbone_dev_init equals the       *)
(* interrupts of p the handler took.  A handler left registered on a slot *)
(* that another probe reuses, or a count read without being cleared,      *)
(* breaks it.                                                              *)
(***************************************************************************)
IrqCounted ==
  \A p \in Pci : pc[p] \in IrqOn => count[slot[p]] + got[slot[p]] = handled[p]

(***************************************************************************)
(* The test program's select returns: once it waits on the char device of *)
(* the device it triggers, it reaches get_irqcount unless that device is   *)
(* removed.  It rests on poll_wait registering before the test and on the  *)
(* handler's wake-up.                                                      *)
(***************************************************************************)
WaitReturns ==
  (ust \in {"select", "sleep"} /\ uowner = Target)
    ~> (ust = "get" \/ uowner = NULL)
====
