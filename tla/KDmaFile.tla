------------------------------ MODULE KDmaFile ------------------------------
(***************************************************************************)
(* The file interface of the kdma driver (dma/sw/k/kdma.c) driven by       *)
(* instances of the user program dma/u/main.c, over the devices that       *)
(* KDmaSlots probes and removes.                                           *)
(*                                                                         *)
(* Each program opens /dev/kdma0 (dma_open), allocates its DMA buffer with *)
(* KDMA_IOCTL_PMEM_ALLOC and maps it (dma_alloc_buf), then loops issuing   *)
(* READ_BAR/WRITE_BAR ioctls until it exits: main's loop has no normal     *)
(* end, it returns on a check_io error or the process is killed, and the   *)
(* kernel then unmaps the buffer and releases the file.  The driver keeps *)
(* the buffers of CONFIG_PMEM_DYNAMIC in the global list pmem_head, and   *)
(* kdma_file_close frees every node of it.                                *)
(*                                                                         *)
(* Physical memory is a set of Blocks, each the page block of one          *)
(* CONFIG_MEM_SIZE buffer; every buffer has that size, so a node is its   *)
(* paddr.  An ioctl, mmap or release handler is a step of the program's   *)
(* thread; one iteration of free_pmem_nodes is one step.                  *)
(***************************************************************************)
EXTENDS Integers, Sequences, SequencesExt

CONSTANTS
  Pci, NDev, BarLen, Base, AddrMod, MayFail, MayRemove, UserReqs, NULL,
  Procs,       \* processes running dma/u/main.c
  Blocks,      \* the page blocks __get_free_pages may return
  MayFailMem   \* kmalloc of a node or remap_pfn_range may fail

VARIABLES
  bits, pc, x, i, slot, vadr, len, cdev, seen_full, enomem,
  upc,    \* upc[q]: where program q is
  ufile,  \* ufile[q]: file->private_data of q's file (a slot) or NULL
  uowner, \* uowner[q]: the PCI device q opened (history)
  acc,    \* the last BAR range read or written by an ioctl (history)
  ubuf,   \* ubuf[q]: buf->paddr, the block PMEM_ALLOC returned to q
  umap,   \* umap[q]: q's mmap of its buffer is in place
  pmem,   \* the list pmem_head, first node first
  inuse   \* the blocks the page allocator has handed out

K == INSTANCE KDmaSlots

slot_vars == <<bits, pc, x, i, slot, vadr, len, cdev, seen_full, enomem>>
file_vars == <<upc, ufile, uowner, acc, ubuf, umap, pmem, inuse>>
vars == <<slot_vars, file_vars>>

\* The minor pci_dev_open opens: "/dev/kdma0".
Minor == 0

\* The steps of a program: open, allocate, map, the ioctl loop, release.
UpcSet == {"open", "alloc", "mmap", "run", "close", "done"}

Set(f, q, v) == [f EXCEPT ![q] = v]
-----------------------------------------------------------------------------

\* kdma_file_open succeeds: the char device of the minor is added (else
\* the open fails in the VFS) and its slot is allocated.
FileOpenOk == cdev[Minor] # NULL /\ Minor \in bits

\* del_pmem_node: unlink the first node for paddr b, if there is one.
DelPmemNode(b) == pmem' = RemoveFirst(pmem, b)

\* add_pmem_node: push a node for paddr b at the head of pmem_head.
AddPmemNode(b) == pmem' = <<b>> \o pmem

\* pmem_alloc succeeds with block b: __get_free_pages, then add_pmem_node.
PmemAllocOk(b) ==
  /\ inuse' = inuse \cup {b}
  /\ AddPmemNode(b)

\* pmem_free: free_pages, then del_pmem_node.
PmemFree(b) ==
  /\ inuse' = inuse \ {b}
  /\ DelPmemNode(b)

\* dma_open: open("/dev/kdma0") reaches kdma_file_open when the char device
\* of minor 0 is added, and kdma_file_open checks the slot is allocated;
\* otherwise dma_open fails and main returns (on_error_0).
DmaOpen(q) ==
  /\ upc[q] = "open"
  /\ \/ /\ FileOpenOk
        /\ ufile' = Set(ufile, q, Minor)
        /\ uowner' = Set(uowner, q, cdev[Minor])
        /\ upc' = Set(upc, q, "alloc")
     \/ /\ ~FileOpenOk
        /\ upc' = Set(upc, q, "done")
        /\ UNCHANGED <<ufile, uowner>>
  /\ UNCHANGED <<acc, ubuf, umap, pmem, inuse>>

\* dma_alloc_buf's KDMA_IOCTL_PMEM_ALLOC: pmem_alloc takes a free block
\* (__get_free_pages) and add_pmem_node pushes it at the head of pmem_head;
\* if kmalloc of the node fails the block is freed again.  Any failure is
\* -ENOMEM, and main goes to on_error_2: dma_close releases the file.
PmemAlloc(q) ==
  /\ upc[q] = "alloc"
  /\ \/ \E b \in Blocks \ inuse :
          /\ PmemAllocOk(b)
          /\ ubuf' = Set(ubuf, q, b)
          /\ upc' = Set(upc, q, "mmap")
     \/ /\ inuse = Blocks \/ MayFailMem
        /\ upc' = Set(upc, q, "close")
        /\ UNCHANGED <<ubuf, pmem, inuse>>
  /\ UNCHANGED <<ufile, uowner, acc, umap>>

\* dma_alloc_buf's mmap at offset paddr: kdma_file_mmap remaps the pages
\* whatever the offset.  If it fails, KDMA_IOCTL_PMEM_FREE frees the block
\* and main goes to on_error_2.
MMap(q) ==
  /\ upc[q] = "mmap"
  /\ \/ /\ umap' = Set(umap, q, TRUE)
        /\ upc' = Set(upc, q, "run")
        /\ UNCHANGED <<pmem, inuse>>
     \/ /\ MayFailMem
        /\ PmemFree(ubuf[q])
        /\ upc' = Set(upc, q, "close")
        /\ UNCHANGED umap
  /\ UNCHANGED <<ufile, uowner, acc, ubuf>>

\* KDMA_IOCTL_READ_BAR and KDMA_IOCTL_WRITE_BAR from main's loop: after
\* check_bar_access passes, read_bar_safe/write_bar_safe access r.n dwords
\* from vadr[bar] + off.  A failed check returns -EFAULT.
Ioctl(q, r) ==
  /\ upc[q] = "run"
  /\ K!CheckBarAccess(ufile[q], r) = 0
  /\ acc' = [owner |-> uowner[q],
             mapped |-> pc[uowner[q]] \in K!MappedPc /\ slot[uowner[q]] = ufile[q],
             words |-> K!Words(ufile[q], r)]
  /\ UNCHANGED <<upc, ufile, uowner, ubuf, umap, pmem, inuse>>

\* main returns from its loop (check_io failed) or the process is killed:
\* exit_mm removes the mapping, and the last reference to the file goes.
Exit(q) ==
  /\ upc[q] = "run"
  /\ umap' = Set(umap, q, FALSE)
  /\ upc' = Set(upc, q, "close")
  /\ UNCHANGED <<ufile, uowner, acc, ubuf, pmem, inuse>>

\* One iteration of free_pmem_nodes: pmem_free of the head node.
FreePmemNode ==
  /\ pmem # <<>>
  /\ PmemFree(Head(pmem))

\* kdma_file_close: free_pmem_nodes until pmem_head is NULL, then
\* private_data is cleared.
Release(q) ==
  /\ upc[q] = "close"
  /\ \/ /\ FreePmemNode
        /\ UNCHANGED <<upc, ufile>>
     \/ /\ pmem = <<>>
        /\ ufile' = Set(ufile, q, NULL)
        /\ upc' = Set(upc, q, "done")
        /\ UNCHANGED <<pmem, inuse>>
  /\ UNCHANGED <<uowner, acc, ubuf, umap>>

-----------------------------------------------------------------------------

Init ==
  /\ K!Init
  /\ upc = [q \in Procs |-> "open"]
  /\ ufile = [q \in Procs |-> NULL]
  /\ uowner = [q \in Procs |-> NULL]
  /\ acc = NULL
  /\ ubuf = [q \in Procs |-> NULL]
  /\ umap = [q \in Procs |-> FALSE]
  /\ pmem = <<>>
  /\ inuse = {}

Program(q) ==
  DmaOpen(q) \/ PmemAlloc(q) \/ MMap(q) \/ Exit(q) \/ Release(q)
    \/ \E r \in UserReqs : Ioctl(q, r)

Next ==
  \/ K!Next /\ UNCHANGED file_vars
  \/ \E q \in Procs : Program(q) /\ UNCHANGED slot_vars

Spec == Init /\ [][Next]_vars

-----------------------------------------------------------------------------
(* Properties.                                                             *)

(***************************************************************************)
(* READ_BAR and WRITE_BAR touch only the device the file was opened on,   *)
(* while it is mapped, and only aligned dwords inside one of its BARs.    *)
(* It is what check_bar_access is for, with remove running meanwhile.     *)
(***************************************************************************)
AccessInBar ==
  acc # NULL => acc.mapped /\ \A a \in acc.words : K!InBar(acc.owner, a)

(***************************************************************************)
(* The buffer a program has mapped, and the device writes into, stays      *)
(* allocated to it until its mapping goes: its block is not back in the   *)
(* page allocator and no other program has it mapped.  It is what the     *)
(* pmem_head list of PMEM_ALLOC, PMEM_FREE and release must keep.          *)
(***************************************************************************)
DmaBufferOwned ==
  \A q \in Procs : umap[q] =>
    /\ ubuf[q] \in inuse
    /\ \A p \in Procs \ {q} : umap[p] => ubuf[p] # ubuf[q]
=============================================================================
