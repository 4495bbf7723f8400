------------------------------ MODULE KDmaSlots ------------------------------
(***************************************************************************)
(* The kdma kernel driver (dma/sw/k/kdma.c): probe and remove of PCI       *)
(* devices sharing the driver's device table, with the lock-free slot      *)
(* allocator kdma_dev_alloc/kdma_dev_free over the bitmap kdma_driver.bits, *)
(* kdma_dev_map_bars and the error unwinding of kdma_pci_probe, and the    *)
(* BAR range check check_bar_access of READ_BAR and WRITE_BAR.  The file   *)
(* interface that uses them is in KDmaFile.                               *)
(*                                                                         *)
(* Each probe or remove runs on its own kernel thread; every access to     *)
(* bits is one step (the read of the bitmap, each fetch-and-or, the        *)
(* fetch-and-and of free), so probes and removes interleave there.         *)
(* Steps that touch only the device's own state are merged.  Addresses are *)
(* uintptr_t values modulo AddrMod.                                        *)
(***************************************************************************)
EXTENDS Integers, FiniteSets

CONSTANTS
  Pci,        \* the PCI devices matching kdma_pci_ids
  NDev,       \* KDMA_DEV_COUNT
  BarLen,     \* [Pci -> [0..5 -> Nat]]: pci_resource_len of each BAR (0: none)
  Base,       \* [Pci -> [0..5 -> Nat]]: the address ioremap_nocache returns
  AddrMod,    \* uintptr_t arithmetic is modulo AddrMod
  MayFail,    \* request_region, ioremap, msi, request_irq or cdev_add may fail
  MayRemove,  \* the PCI core may remove a probed device
  UserReqs,   \* READ_BAR/WRITE_BAR arguments a user may pass
  NULL

Slots == 0 .. NDev - 1
Bars == 0 .. 5

VARIABLES
  bits,       \* kdma_driver.bits, as the set of allocated slots
  pc,         \* pc[p]: where the probe or remove of p is
  x,          \* x[p]: the bitmap kdma_dev_alloc captured
  i,          \* i[p]: the bit kdma_dev_alloc is looking at
  slot,       \* slot[p]: the device kdma_dev_alloc returned (drvdata)
  vadr,       \* vadr[s][b]: kdma_driver.devs[s].vadr[b]
  len,        \* len[s][b]:  kdma_driver.devs[s].len[b]
  cdev,       \* cdev[s]: the PCI device whose cdev is added at minor s
  seen_full,  \* seen_full[p]: bits was full during p's allocation (history)
  enomem      \* PCI devices whose last probe failed in kdma_dev_alloc

vars == <<bits, pc, x, i, slot, vadr, len, cdev, seen_full, enomem>>
probe_vars == <<pc, x, i, slot>>

\* The probe states: reading bits, scanning, mapping BARs, registering the
\* interrupt and char device, probed, and the three steps of remove.
PcSet == {"absent", "scan", "map", "reg", "live", "rm_irq", "rm_free"}

\* A bitmap change seen by every probe still allocating.
Observe(b) ==
  seen_full' = [q \in Pci |-> seen_full[q] \/ (pc[q] = "scan" /\ b = Slots)]

NoBars == [b \in Bars |-> 0]

\* kdma_dev_map_bars: each memory BAR with an address and a length.
Mapped(p) == [b \in Bars |-> IF BarLen[p][b] # 0 THEN Base[p][b] ELSE 0]

\* kdma_pci_probe: kdma_dev_alloc reads the bitmap (atomic32_read).
ProbeStart(p) ==
  /\ pc[p] = "absent"
  /\ pc' = [pc EXCEPT ![p] = "scan"]
  /\ x' = [x EXCEPT ![p] = bits]
  /\ i' = [i EXCEPT ![p] = 0]
  /\ seen_full' = [seen_full EXCEPT ![p] = (bits = Slots)]
  /\ enomem' = enomem \ {p}
  /\ UNCHANGED <<bits, slot, vadr, len, cdev>>

\* kdma_dev_alloc fails: kdma_pci_probe returns -ENOMEM.
AllocNull(p) ==
  /\ pc' = [pc EXCEPT ![p] = "absent"]
  /\ enomem' = enomem \cup {p}
  /\ UNCHANGED <<bits, x, i, slot, vadr, len, seen_full>>

WinOffByOne(p, k) ==
  /\ pc' = [pc EXCEPT ![p] = "map"]
  /\ slot' = [slot EXCEPT ![p] = k + 1]
  /\ vadr' = [vadr EXCEPT ![k + 1] = NoBars]
  /\ len' = [len EXCEPT ![k + 1] = NoBars]
  /\ UNCHANGED <<x, i, enomem>>

\* The fetch-and-or of bit k found it clear: p owns slot k, which
\* kdma_dev_init zeroes.
Win(p, k) ==
  /\ pc' = [pc EXCEPT ![p] = "map"]
  /\ slot' = [slot EXCEPT ![p] = k]
  /\ vadr' = [vadr EXCEPT ![k] = NoBars]
  /\ len' = [len EXCEPT ![k] = NoBars]
  /\ UNCHANGED <<x, i, enomem>>

\* Bit k of the captured x is set, or its fetch-and-or lost: next bit.
NextBit(p, k) ==
  /\ i' = [i EXCEPT ![p] = k + 1]
  /\ UNCHANGED <<pc, x, slot, vadr, len, enomem>>

ScanStepNoRace(p) ==
  LET k == i[p] IN
  /\ pc[p] = "scan"
  /\ IF (k .. NDev - 1) \subseteq x[p] THEN AllocNull(p)
     ELSE IF k \notin x[p]
     THEN bits' = bits \cup {k} /\ Observe(bits') /\ Win(p, k)
     ELSE NextBit(p, k) /\ UNCHANGED <<bits, seen_full>>
  /\ UNCHANGED cdev

ScanStepRetry(p) ==
  LET k == i[p] IN
  /\ pc[p] = "scan"
  /\ IF (k .. NDev - 1) \subseteq x[p] THEN AllocNull(p)
     ELSE IF k \notin x[p]
     THEN /\ bits' = bits \cup {k}
          /\ Observe(bits')
          /\ IF k \notin bits THEN Win(p, k)
             ELSE UNCHANGED <<pc, x, i, slot, vadr, len, enomem>>
     ELSE NextBit(p, k) /\ UNCHANGED <<bits, seen_full>>
  /\ UNCHANGED cdev

\* One iteration of the loop of kdma_dev_alloc on the captured x: give up
\* when bits i..ndev-1 of x are all set; if bit i of x is clear, set it
\* with a fetch-and-or and own the slot if it was clear before; otherwise
\* go on with the next bit.  After the last bit the loop returns NULL.
ScanStep(p) ==
  LET k == i[p] IN
  /\ pc[p] = "scan"
  /\ IF (k .. NDev - 1) \subseteq x[p] THEN AllocNull(p)
     ELSE IF k \notin x[p]
     THEN /\ bits' = bits \cup {k}
          /\ Observe(bits')
          /\ IF k \notin bits THEN Win(p, k)
             ELSE IF k + 1 < NDev THEN NextBit(p, k)
             ELSE /\ pc' = [pc EXCEPT ![p] = "absent"]
                  /\ enomem' = enomem \cup {p}
                  /\ UNCHANGED <<x, i, slot, vadr, len>>
     ELSE NextBit(p, k) /\ UNCHANGED <<bits, seen_full>>
  /\ UNCHANGED cdev

\* kdma_pci_probe's error labels: unmap the BARs, disable the device, free
\* the slot with a fetch-and-and (also used when kdma_dev_map_bars fails,
\* having unmapped what it mapped).
Unwind(p) ==
  /\ bits' = bits \ {slot[p]}
  /\ Observe(bits')
  /\ vadr' = [vadr EXCEPT ![slot[p]] = NoBars]
  /\ len' = [len EXCEPT ![slot[p]] = NoBars]
  /\ pc' = [pc EXCEPT ![p] = "absent"]
  /\ UNCHANGED <<x, i, slot, enomem>>

\* pci_enable_device and kdma_dev_map_bars.
ProbeMap(p) ==
  /\ pc[p] = "map"
  /\ \/ /\ vadr' = [vadr EXCEPT ![slot[p]] = Mapped(p)]
        /\ len' = [len EXCEPT ![slot[p]] = BarLen[p]]
        /\ pc' = [pc EXCEPT ![p] = "reg"]
        /\ UNCHANGED <<bits, x, i, slot, seen_full, enomem>>
     \/ MayFail /\ Unwind(p)
  /\ UNCHANGED cdev

\* pci_enable_msi, request_irq and kdma_cdev_init: on success the char
\* device of minor slot[p] is live; a failure unwinds.
ProbeRegister(p) ==
  /\ pc[p] = "reg"
  /\ \/ /\ cdev' = [cdev EXCEPT ![slot[p]] = p]
        /\ pc' = [pc EXCEPT ![p] = "live"]
        /\ UNCHANGED <<bits, x, i, slot, vadr, len, seen_full, enomem>>
     \/ MayFail /\ Unwind(p) /\ UNCHANGED cdev

RemoveCdevFreeEarly(p) ==
  /\ MayRemove /\ pc[p] = "live"
  /\ cdev' = [cdev EXCEPT ![slot[p]] = NULL]
  /\ bits' = bits \ {slot[p]}
  /\ Observe(bits')
  /\ pc' = [pc EXCEPT ![p] = "rm_irq"]
  /\ UNCHANGED <<x, i, slot, vadr, len, enomem>>

\* kdma_pci_remove: kdma_cdev_fini ...
RemoveCdev(p) ==
  /\ MayRemove /\ pc[p] = "live"
  /\ cdev' = [cdev EXCEPT ![slot[p]] = NULL]
  /\ pc' = [pc EXCEPT ![p] = "rm_irq"]
  /\ UNCHANGED <<bits, x, i, slot, vadr, len, seen_full, enomem>>

\* ... free_irq, pci_disable_msi, kdma_dev_unmap_bars, pci_disable_device ...
RemoveUnmap(p) ==
  /\ pc[p] = "rm_irq"
  /\ vadr' = [vadr EXCEPT ![slot[p]] = NoBars]
  /\ len' = [len EXCEPT ![slot[p]] = NoBars]
  /\ pc' = [pc EXCEPT ![p] = "rm_free"]
  /\ UNCHANGED <<bits, x, i, slot, cdev, seen_full, enomem>>

\* ... and kdma_dev_free.
RemoveFree(p) ==
  /\ pc[p] = "rm_free"
  /\ bits' = bits \ {slot[p]}
  /\ Observe(bits')
  /\ pc' = [pc EXCEPT ![p] = "absent"]
  /\ UNCHANGED <<x, i, slot, vadr, len, cdev, enomem>>
-----------------------------------------------------------------------------
(* check_bar_access, the range check of READ_BAR and WRITE_BAR.            *)

\* The BAR range check; uintptr_t sums wrap modulo AddrMod.
CheckBarAccessNoWrap(s, r) ==
  IF r.bar > 5 THEN -1
  ELSE IF vadr[s][r.bar] = 0 THEN 0
  ELSE IF r.n > (AddrMod - 1) \div 4 THEN -1
  ELSE IF (r.off + 4 * r.n) % AddrMod > len[s][r.bar] THEN -1
  ELSE IF r.off % 4 # 0 THEN -1
  ELSE 0

\* check_bar_access: an invalid BAR fails and an unmapped one passes;
\* then the word count, the two overflow tests, the BAR length and the
\* offset's alignment.  0 means the access may be done.
CheckBarAccess(s, r) ==
  LET v == vadr[s][r.bar]
      size == 4 * r.n
      bar_addr == (v + r.off) % AddrMod
  IN  IF r.bar > 5 THEN -1
      ELSE IF v = 0 THEN 0
      ELSE IF r.n > (AddrMod - 1) \div 4 THEN -1
      ELSE IF bar_addr < v THEN -1
      ELSE IF (bar_addr + size) % AddrMod < bar_addr THEN -1
      ELSE IF (r.off + size) % AddrMod > len[s][r.bar] THEN -1
      ELSE IF r.off % 4 # 0 THEN -1
      ELSE 0

\* The probe states in which the device's BARs are mapped.
MappedPc == {"reg", "live", "rm_irq"}

-----------------------------------------------------------------------------

Init ==
  /\ bits = {}
  /\ pc = [p \in Pci |-> "absent"]
  /\ x = [p \in Pci |-> {}]
  /\ i = [p \in Pci |-> 0]
  /\ slot = [p \in Pci |-> NULL]
  /\ vadr = [s \in Slots |-> NoBars]
  /\ len = [s \in Slots |-> NoBars]
  /\ cdev = [s \in Slots |-> NULL]
  /\ seen_full = [p \in Pci |-> FALSE]
  /\ enomem = {}

\* The steps of a probe or remove once it has started.
Busy(p) ==
  ScanStep(p) \/ ProbeMap(p) \/ ProbeRegister(p) \/ RemoveUnmap(p)
    \/ RemoveFree(p)

Next ==
  \/ \E p \in Pci : ProbeStart(p) \/ Busy(p) \/ RemoveCdev(p)

\* A kernel thread that has entered probe or remove runs on to its end;
\* starting a probe or a remove is up to the PCI core.
Spec == Init /\ [][Next]_vars /\ \A p \in Pci : WF_vars(Busy(p))

-----------------------------------------------------------------------------
(* Properties.                                                             *)

Holding == {"map", "reg", "live", "rm_irq", "rm_free"}

TypeOK ==
  /\ bits \subseteq Slots
  /\ pc \in [Pci -> PcSet]
  /\ x \in [Pci -> SUBSET Slots]
  /\ i \in [Pci -> 0 .. NDev]
  /\ slot \in [Pci -> Slots \cup {NULL}]
  /\ vadr \in [Slots -> [Bars -> 0 .. AddrMod - 1]]
  /\ len \in [Slots -> [Bars -> Nat]]
  /\ cdev \in [Slots -> Pci \cup {NULL}]
  /\ seen_full \in [Pci -> BOOLEAN]
  /\ enomem \subseteq Pci

(***************************************************************************)
(* kdma_dev_alloc hands a slot of kdma_driver.devs to one probe at a time: *)
(* two PCI devices between allocation and kdma_dev_free never hold the     *)
(* same slot, and a held slot is marked in bits.  It rests on the          *)
(* fetch-and-or's returned value, with probes and removes interleaved.     *)
(***************************************************************************)
NoSharedSlot ==
  \A p, q \in Pci :
    /\ pc[p] \in Holding => slot[p] \in bits
    /\ (p # q /\ pc[p] \in Holding /\ pc[q] \in Holding) => slot[p] # slot[q]

(***************************************************************************)
(* While a device is probed (BARs mapped, until remove unmaps them) its    *)
(* slot holds its own BAR mappings: no other probe's kdma_dev_init or      *)
(* unmap touches them.  It depends on remove freeing the slot last.       *)
(***************************************************************************)
ProbeOwnsBars ==
  \A p \in Pci : pc[p] \in MappedPc =>
    /\ vadr[slot[p]] = Mapped(p)
    /\ len[slot[p]] = BarLen[p]

(***************************************************************************)
(* Every probe and every remove that has started ends, with the device    *)
(* probed or absent: kdma_dev_alloc's loop is bounded even when it loses  *)
(* races.                                                                 *)
(***************************************************************************)
ProbeTerminates ==
  \A p \in Pci : (pc[p] \notin {"absent", "live"}) ~> (pc[p] \in {"absent", "live"})

(***************************************************************************)
(* kdma_dev_alloc returns NULL only when no bit is available ("no more bit *)
(* avail"): a probe that fails with -ENOMEM saw every slot allocated at    *)
(* some moment while it was allocating.                                    *)
(***************************************************************************)
AllocFailsOnlyWhenFull == \A p \in enomem : seen_full[p]

\* The dword addresses READ_BAR/WRITE_BAR r touches through slot s.
Words(s, r) == {(vadr[s][r.bar] + r.off + 4 * j) % AddrMod : j \in 0 .. r.n - 1}

\* Address a is an aligned dword inside one of p's BARs.
InBar(p, a) ==
  \E b \in Bars : /\ BarLen[p][b] # 0
                  /\ a \in Base[p][b] .. Base[p][b] + BarLen[p][b] - 4
                  /\ (a - Base[p][b]) % 4 = 0

(***************************************************************************)
(* check_bar_access admits only aligned dwords inside one of the device's  *)
(* BARs: in every state, for every probed device with its BARs mapped and *)
(* every request a user may pass (offsets past the end, misaligned, or     *)
(* wrapping the uintptr_t sum), a request it lets through on a mapped BAR  *)
(* of that device's slot touches only the device's own BAR dwords.        *)
(***************************************************************************)
CheckBarAccessSound ==
  \A p \in Pci, r \in UserReqs :
    (pc[p] \in MappedPc /\ CheckBarAccess(slot[p], r) = 0 /\ r.bar <= 5
       /\ vadr[slot[p]][r.bar] # 0)
      => \A a \in Words(slot[p], r) : InBar(p, a)
=============================================================================
