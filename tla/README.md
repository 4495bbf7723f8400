# TLA+ models of vpcie

This directory holds TLA+ models of the vpcie endpoint runtime (`src/src/pcie/`)
and of the parts of the repository around it. The models are checked with TLC.
Every module was written from the C source. `PROJECT.json` maps each definition
to the lines it models and lists the runs, the mutants that show each property
can fail, and the hazards the properties aim at.

## 1. Inventory

### Components

| Component | Source | State it keeps | Operations |
|---|---|---|---|
| Transport | `pcie/pcie_net.c`, `pcie/pcie_net.h` | socket fds; the receive buffer `msg`, allocated once per `pcie_net_loop` call and reused | `pcie_net_init`/`open_tcp_socket` (bind, listen, accept), `pcie_net_send_buf`, `pcie_net_send_msg`, `pcie_net_send_reply`, `pcie_net_recv_buf` (2-byte header then `size-2` bytes) |
| EventLoop | `pcie/pcie_net.c` (`pcie_net_loop`, `pcie_net_add_task`, `pcie_net_add_ev`) | one task slot `task_fn/task_tm/task_data`; one event fd and handler | `select` over {socket, event pipe, task timeout}; timeout runs the task after clearing the slot; socket → receive, dispatch, reply; pipe → read up to 32 keys, call the handler on each |
| Endpoint | `pcie/pcie.c`, `pcie/pcie.h` | 4 KiB config space; `bar_size/readfn/writefn/data[6]` | `init_common`, `pcie_set_bar`, `on_msg_recv` (route by op), `on_write_config` (BAR masking, ROM drop), `on_read_config`, config accessors with `pcie_check_config`, `pcie_send_msi`, `pcie_add_task`, `pcie_add_event` |
| Bridge (glue) | `pcie/pcie_glue.c`, `main/main_ghdl.c` | `rx_fifo`, `tx_fifo` (mutex each), `reply_node`, per-node `is_replied`, event pipe `ev_fds`, `state` | IO thread: `thread_entry`, `on_bar_read` (push node, spin on `is_replied`, copy, free), `on_bar_write`, `on_event` (QUIT, or drain `tx_fifo`); simulator thread: `pcie_glue_poll_rx_fifo`, `pcie_glue_send_reply`, `pcie_glue_send_msi`, `pcie_glue_send_write(_buf)`; main: `pcie_glue_create_thread`, `pcie_glue_join_thread` |
| DMA device in C | `dma/d_in_c/main_dma.c` | `regs[5]`, `saved_ctl/adl/adh/baz`, 32 KiB bram | `on_read`, `on_write` (CTL[31] latches and schedules `finalize_transfer` in 1 ms), `finalize_transfer` (8 WRITE_MEM messages, STA update, optional MSI) |
| kdma kernel driver | `dma/sw/k/kdma.c`, `kdma_ioctl.h` | device slot bitmap `bits`, per device `vadr/len[6]`, `irq_context.sta`, wait queue | `kdma_dev_alloc/free` (lock-free bitmap), `check_bar_access`, READ/WRITE_BAR, GET_IRQCONTEXT, `irq_handler`, `kdma_file_poll`, the `pmem_head` list of PMEM_ALLOC/PMEM_FREE, `mmap`, release |
| sbone kernel driver | `sbone/k/sbone.c` | slot bitmap, `irq_count` | `sbone_dev_alloc/free`, `irq_handler` (count++), GET_IRQCOUNT (fetch-and-clear), poll |
| User-space clients | `dma/u/main.c`, `sbone/u/*.c` | file descriptors, buffers | DMA start/wait/check, benchmarks, BAR access through libpci/mmap |

### How they interact

- The peer (root complex) writes framed requests to the socket. The EventLoop
  thread receives one frame, `on_msg_recv` routes it by op, and a reply is sent
  on the same socket for READ_CONFIG, READ_MEM and READ_IO.
- In the C DMA device, BAR handlers run on the EventLoop thread. Writing CTL[31]
  stores a task in the single task slot. The task runs when `select` times out.
  It sends WRITE_MEM messages and an MSI on the same socket.
- In the GHDL build (`main_ghdl.c` + `pcie_glue.c`), the EventLoop runs on its own
  IO thread. BAR accesses go through `rx_fifo` to the simulator thread, which
  polls the fifo on its own schedule. For a read, the IO thread blocks: it spins
  on `is_replied` until the simulator thread calls `pcie_glue_send_reply`.
  The simulator sends DMA writes and MSIs by pushing a node on `tx_fifo` and
  writing a PUSH key to the event pipe. The IO thread drains `tx_fifo` when it
  reads a key. `pcie_glue_join_thread` sets `state = 0`, writes QUIT, and joins.
- The kernel drivers talk to the endpoint through the (external) root complex.
  Their shared state is touched by concurrent ioctls, the IRQ handler and
  device probe.

### Hard behaviours

- Two threads in the bridge: the simulator can push, poll and reply between any
  two steps of the IO thread.
- The IO thread blocks inside a handler. While it spins, it reads neither the
  socket nor the event pipe, and QUIT cannot reach it.
- A tx message and its PUSH key are written in two steps. A drain can fall
  between them.
- One task slot. A second schedule overwrites the first.
- The timeout of `select` is the only clock. Socket traffic and the timer compete.
- Frames are taken from the header's `size`. A short header leaves stale bytes of
  the reused receive buffer in the message.
- Lock-free slot allocation and non-atomic read-then-clear in the drivers.

### What makes each component correct

- Transport: one frame delivered per header; a malformed header is fatal; no
  stale bytes reach `on_msg_recv`.
- Endpoint: each read request gets exactly one reply, in request order. A BAR
  register always holds a value masked to the BAR size. Inactive BARs read as
  all-ones.
- EventLoop: a scheduled task runs exactly once; QUIT stops the loop; requests
  are handled in arrival order.
- Bridge: the simulator sees BAR accesses in the order the peer sent them. Every
  reply answers the read that is waiting. No node is touched after it is freed.
  Every tx message reaches the socket. Join terminates.
- DMA device: each start is followed by completion (STA[31] set, then an MSI
  if CTL[30] is set). The data goes to the latched address.
- Drivers: no two probes get the same slot. An interrupt is not lost between
  the handler and GET_IRQCONTEXT. A BAR access is only done on a mapped BAR.
  A DMA buffer stays allocated while the program that owns it has it mapped.

## 2. Plan and progress

| Module | Models | State |
|---|---|---|
| `Glue` | the bridge of the GHDL build: IO thread, simulator thread, main's create/join, a peer that may close | done |
| `TaskLoop` | `pcie_net_loop` with its task slot, and the C DMA device `main_dma.c` | done |
| `ConfigSpace` | `on_write_config`/`on_read_config`, the config accessors, `init_common`, and `pcie_net_recv_buf` on every class of header size | done |
| `KDmaSlots` | kdma probe and remove, the lock-free slot bitmap, and `check_bar_access` | done |
| `KDmaFile` | the kdma file interface (open, READ/WRITE_BAR, PMEM_ALLOC, PMEM_FREE, mmap, release with `free_pmem_nodes`) driven by instances of `dma/u/main.c`, over `KDmaSlots` | done |
| `KDmaIrq` | the user DMA loop of `dma/u/main.c`, `irq_handler`, `kdma_file_poll`, GET_IRQCONTEXT, and the C device's transfer | done |
| `BarChannel` | an abstract spec of the endpoint's promise (FIFO service, one reply per read), with `Glue` refining it | done |
| `GlueCodec` | the std_logic conversions of `pcie_glue.c` and the byte copies of the BAR write, BAR read and DMA paths, against reference definitions | done |
| `SBone` | sbone probe and remove over its slot bitmap, `irq_handler`'s counter, GET_IRQCOUNT, poll, and the test program of `sbone/u/main.c` | done |

Not planned: the user
clients' benchmarking and buffer checks (sequential I/O), socket setup and
environment parsing.

## 3. Modules and runs

Every run lists its properties in `PROJECT.json`. Every property of a passing
run has a mutant there: a plausible bug in the code that TLC must catch.

### Glue (`Glue.tla`, `MCGlue.tla`)

**State.**
- `net_in` and `net_out` are the socket in each direction. `peer_open` says
  whether the peer is still connected.
- The IO thread's position is `io_pc`: init, select, wait (spinning in
  `on_bar_read` on `awaited`), or exited.
- The shared structures are `rx_fifo`, `tx_fifo`, `reply_node`, the
  `is_replied` flags (`replied`), `node_data` and `freed`.
- The simulator thread and main each have a program counter.
- `reqs`, `recvd` and `hw_seen` are histories.

**Actions.** There is one action per step whose order matters:
- `IoRecv*` is one dispatch of `on_msg_recv` for a received frame.
- `IoReplyReady` is the end of the spin in `on_bar_read`, with the copy, the
  reply and the free.
- `IoEvent` is `on_event` on a batch of at most 32 keys.
- `IoRecvEof` is the peer closing the connection.
- `SimPoll*`, `SimReply`, `SimSend` and `SimPushKey` are the `pcie_glue_*`
  calls. `SimSend` and `SimPushKey` are separate, because the node and its
  PUSH key are written separately.
- `Main*` is create, then the two steps of join.

**Bounds.** `MCGlue` uses:
- BAR 0 active (size 0x100) and BAR 1 unset;
- at most 3 requests and 2 simulator messages.

Three requests are enough for a read to wait while a write and another read
are queued behind it. The peer's ops are config and memory reads and writes.

**Run.** `glue` checks, with join and the peer's close both enabled:
- `RepliesInOrder`: each read's reply goes out in the order the reads were
  received, with the value answered for that read;
- `AccessOrder`: the simulator sees the active-BAR accesses in the order they
  arrived;
- `NoUseAfterFree`: no node is used after it is freed;
- `NoTxLostOnQuit`: at exit, every message the simulator sent has reached a
  connected peer;
- `ImplementsBarChannel`: the bridge refines `BarChannel` (below);
- `ReadsAnswered` and `TxDelivered`: every read is answered and every
  simulator message reaches the socket, unless the peer has closed or
  `ghdl_main` has returned (`SimRunning` is false): after that nobody polls.

Its fairness:
- Both threads run: each is a pthread that loops for as long as the process
  lives.
- The simulator is assumed to keep polling while `ghdl_main` runs. This is
  the GHDL design's cycle loop.

- `WriteDataDelivered` and `ReadDataDelivered`: once a host write has been
  polled, or a simulator reply has reached the peer, the conversions of that path (`GlueCodec`, below)
  deliver every value of the bounded domain intact.

The run sets `CHECK_DEADLOCK FALSE`: after the join, or when the join hangs
(below), nothing more happens.

- `glue_join` is a **violation**. `JoinTerminates` fails when `ghdl_main`
  returns after polling a read but before replying to it. The IO thread spins
  on `is_replied` and never reads QUIT, so `pthread_join` waits forever.

### GlueCodec (`GlueCodec.tla`)

GHDL hands a `std_logic_vector` to C as one byte per level, leftmost
(most significant) first; `glue_levels` gives '0' as 2 and '1' as 3. The
bridge converts in three places; two are checked, and `GlueCodec` states each as an operator
taken from the C:
- host BAR write: `on_bar_write` copies `width` bytes into the node and
  `pcie_glue_poll_rx_fifo` copies them into a zeroed `uint64_t` (`memcpy`,
  little endian, `BytesToUint`) and drives it with `uint64_to_logic`
  (`UintToLogic`) — `PollWriteData`;
- BAR read reply: `pcie_glue_send_reply` decodes the port with
  `logic_to_uint64` (`LogicToUint`) and stores the eight bytes
  (`UintToBytes`); `on_msg_recv` zeroes `reply->data` and `on_bar_read`
  copies `width` bytes into it — `HostReadReply`.

The third, the DMA write of `pcie_glue_send_write` (`logic_to_buf`, byte k
from levels 8k-7 .. 8k), is not modelled: whether that stride is right
depends on how the VHDL design lays out its byte array, and the VHDL is not
in the repository, so any reference for it would only restate the C.

The reference definitions say position by position what spec 4.1 (little
endian data, the first `width` bytes of the reply) and the port order
require: `PortLevels` for a numeric port. The two `*CodecOk` definitions compare the two over every byte sequence of
`ByteVals` = {0, 1, 0x7f, 0x80, 0xff} and widths 1, 2, 4 (writes) and 1, 2,
4, 8 (reads), with reply values of 3 bytes.
TLC's integers stop at 2^31, so a 4-byte write with the top bit set is left
out, and values wider than 3 bytes are not tried on the reply port. `Glue`
checks them once its state shows that the path was taken; TLC evaluates the
quantified part once, as it is constant.

A level other than '0' or '1' ('U', 'X', 'Z', 'H', ...) reads as 0 in
`logic_to_uint`; the properties only drive '0' and '1'.
`pcie_glue_send_write_buf` decodes byte i from levels i .. i+7, not
8i .. 8i+7 as `logic_to_buf` does. That is right only if the VHDL buffer
has one level per element, and the VHDL is not in the repository, so it is
not checked either.

### BarChannel (`BarChannel.tla`)

This is the abstract endpoint as the peer sees it. Its state is:
- the requests not yet taken off the socket (`inq`) and those taken
  (`taken`);
- the BAR read being served (`wait`);
- what the peer has received (`out`);
- whether the peer is connected (`open`).

It has four actions:
- `Take` routes one request. A read of an active BAR blocks until
  `Answer`. Any other read is answered at once. A write is not answered.
- `Answer` replies with the value of the read it serves.
- `Emit(k)` sends the device's next k messages in creation order.
- `Send` and `Close` are the peer.

`Glue` instantiates it as `Chan`. The mapping is:
- `inq` and `out` are the socket directions;
- `taken` is `recvd`;
- `open` is `peer_open`;
- `wait` is `awaited` while the IO thread spins in `on_bar_read`, else NULL.

The `glue` run checks `Chan!Spec` as `ImplementsBarChannel`. Every `Glue`
step is then a `BarChannel` step or a stutter:
- the simulator's steps, main's steps and the fifo handling stutter;
- a drain of `tx_fifo` is one `Emit`.

The mutant in which `on_bar_read` returns without waiting breaks it.

### TaskLoop (`TaskLoop.tla`, `MCTaskLoop.tla`)

**State.**
- The loop and the peer.
- The device's `regs`, its `saved` (latched) registers, and the single task
  slot.
- Ghost counters: `sched` counts the tasks scheduled, and `ran` records the
  ones that ran.

**Actions.**
- `LoopRecv` receives one frame and runs the whole `on_msg_recv`, including
  the device's `on_read`/`on_write` and the reply.
- `LoopTimeout` is select's timeout. It clears the slot, then runs
  `finalize_transfer`: the 8 WRITE_MEM pages, STA, and the MSI if CTL[30] is
  set.
- `LoopEof` is the peer closing the connection.

**Bounds.** Two ADL addresses and two byte counts, with 3 requests. That is
enough for a start, an ADL rewrite and a second start to fall before one
timeout.

**Runs.**
- `taskloop` checks four properties:
  - `LatchedTarget`: pages go to the ADL latched at the start.
  - `BlockOrder`: pages are contiguous and in order, before STA/MSI.
  - `StaTracksTask`: STA's done bit is clear exactly while a task is pending.
  - `TransferCompletes`: liveness. Its fairness is weak fairness on the loop's
    three steps: the loop is the process's only thread and never blocks
    except in select.
- `taskloop_lost` is a **violation**. `TaskNotLost` fails because a second
  CTL start before the 1 ms timeout overwrites the slot, so the first
  transfer never completes.

### ConfigSpace (`ConfigSpace.tla`, `MCConfigSpace.tla`)

**State.**
- Config space is a function from byte offset to byte. It holds the header
  with the MSI capability and the last dword.
- `rxbuf` is the reused receive buffer: the op, width and addr fields and
  the first four data bytes. `pcie_net_loop` mallocs it once and never
  clears it, so its initial fields are any that a frame could carry and its
  data any byte values.
- `lstate` is the loop: running, blocked in a `recv` that swallows the
  stream, or stopped.
- `last` and `hsz` record the last frame dispatched and its header size.

Each frame the peer sends carries a header size (`hsize`). A well-formed frame
has `15 + data length`.

**Actions.**
- `Handle(m)`: a frame whose header size is at least 2 and at most
  `PCIE_NET_MSG_MAX_SIZE`. `pcie_net_recv_buf` writes only the bytes the
  header size covers (`Received`). `on_msg_recv` then dispatches what the
  buffer holds, as a READ_CONFIG or a WRITE_CONFIG. A short frame therefore
  dispatches stale fields.
- `RecvOversize(m)`: a header size over the maximum. `pcie_net_recv_buf`
  returns -1 and the loop stops.
- `RecvUnderflow(m)`: a header size below 2. `rem_size` wraps, and `recv`
  with `MSG_WAITALL` blocks.
- `Swallow(m)`: a later frame consumed by that `recv` and never dispatched.

A frame never ends inside `addr`, because the model keeps fields whole.

**Runs.**
- `config_host` uses the accesses a host PCI core makes:
  - dword reads and writes, all-ones or zero, of BAR0, BAR1, BAR5, the ROM
    register and the last dword;
  - the command word and the interrupt line;
  - one access of an unsupported width (8);
  - two corrupt headers, one of size 0 and one over the maximum. Each ends
    the dispatching, so the run fires the error paths.

  BAR 0 has 0x100 bytes and BAR 5 has 0x1000; the other BARs are unset. The
  run is 4 requests deep.

  It checks:
  - `DecodedRegisters`: BARs masked to their size, ROM reads 0;
  - `RoundTrip`: a read right after a write returns the value written;
  - `WriteStaysInRange`: an action property.
- `config_narrow` is a **violation**. `WriteStaysInRange` fails on a 1-byte
  write to a BAR register: `on_write_config` writes the whole dword of
  `*(uint32_t*)msg->data`, so stale buffer bytes from an earlier frame land in
  the BAR. The run's peer also sends write frames cut short, with header
  size 2, 5 or 15. These break the same property: for example, a frame
  ending before `addr` writes at the address of an earlier frame.
- The overrun after a header size below 2 needs about 180 further frames.
  It is beyond the bounds; the model shows the loop swallowing the frames.
- A single-byte write at 0x25..0x27 is a related bug: it skips the mask
  entirely. It is recorded as a hazard and not given its own run.

### KDmaSlots (`KDmaSlots.tla`, `MCKDmaSlots.tla`)

**State.**
- `bits` is the slot bitmap.
- Per probe `p` (a PCI device from `Pci`):
  - `pc` is where it is in probe or remove;
  - `x` and `i` are `kdma_dev_alloc`'s snapshot and loop index;
  - `slot` is the slot it holds;
  - `vadr` and `len` are the mapped BARs;
  - `cdev` is the registered char device.
- Ghost state: `seen_full` and `enomem` record allocation failures.

**Actions.**
- `ProbeStart` is the `atomic32_read` of `bits`.
- `ScanStep` is one iteration of the scan loop. `atomic32_or` returns the
  previous value, and the iteration wins or moves on depending on it.
- `ProbeMap`: BAR mapping, which may fail when `MayFail` is set. A failure
  unwinds.
- `ProbeRegister`: cdev registration, which also unwinds on failure.
- Remove is three steps in the code's order: `RemoveCdev`, then
  `RemoveUnmap`, then `RemoveFree`.
- `CheckBarAccess` is `check_bar_access` in 16-bit `uintptr_t` arithmetic,
  and `Words` the dwords `read_bar_safe`/`write_bar_safe` touch. The file
  interface that calls them is in `KDmaFile`.

**Bounds.** Two slots (`NDev`) and three PCI devices. That is the smallest
setting where all slots are taken while a third probe scans.

**Runs.**
- `kdma_slots` checks `NoSharedSlot`, `ProbeOwnsBars`, `CheckBarAccessSound`
  and `ProbeTerminates`. Its fairness is weak fairness per probe: each probe
  is a kernel thread of its own. `CheckBarAccessSound` checks the pure
  operator `CheckBarAccess` in every reached state: for every probed device
  and each boundary request (offsets 0, 0xfc, 0x100, 2 and 2^16-4, one or two
  dwords, and BAR 6) on a BAR1 of 0x100 bytes mapped at 0xff00, a request it
  lets through touches only that BAR's aligned dwords. It shows that the
  overflow tests stop a wrapped `off + size`.
- `kdma_alloc_full` is a **violation**. `AllocFailsOnlyWhenFull` fails
  because the scan works on a stale snapshot: a probe gets ENOMEM while a slot
  is free.

### KDmaFile (`KDmaFile.tla`, `MCKDmaFile.tla`)

`KDmaFile` takes the probe and remove of `KDmaSlots` as `K!Next` (an
`INSTANCE` with the same variables) and adds the programs, each a process
running `dma/u/main.c`, and the driver's file handlers, as steps of that
program's thread (`.unlocked_ioctl` takes no lock).

**State.**
- Per program `q` (from `Procs`): `upc` (open, alloc, mmap, run, close,
  done); `ufile`, the slot in `private_data`; `ubuf`, the block PMEM_ALLOC
  returned; `umap`, whether its mmap is in place.
- `pmem` is the list `pmem_head`, first node first. Every buffer has the size
  `CONFIG_MEM_SIZE`, so a node is its block.
- `inuse` is the set of blocks the page allocator has handed out.
- Ghost state: `uowner` and `acc`, the last BAR access.

**Actions.**
- `DmaOpen` opens `/dev/kdma0`. It fails, and main returns, unless minor 0
  is added and allocated (`FileOpenOk`).
- `PmemAlloc` is `dma_alloc_buf`'s PMEM_ALLOC. `pmem_alloc` takes a free
  block and `add_pmem_node` pushes it at the head. On -ENOMEM main goes to
  `on_error_2` and closes.
- `MMap` is the mmap. When it fails, PMEM_FREE frees the block.
- `Ioctl` is a READ_BAR/WRITE_BAR of main's loop.
- `Exit` is the end of main's loop (a `check_io` error or a signal). The
  kernel unmaps the buffer, then drops the file.
- `Release` is `kdma_file_close`. It is one `FreePmemNode` step per
  iteration of `free_pmem_nodes`, then `private_data` is cleared.

**Runs.** Both are **violations**. There is no fairness, and
`CHECK_DEADLOCK FALSE` is set because the programs end.
- `kdma_stale_file`: `AccessInBar` fails with one program and device
  removal. A file opened before `kdma_pci_remove` keeps its `private_data`.
  `check_bar_access` passes on the zeroed `vadr`, and the access goes to
  address 0 + off.
- `kdma_pmem_shared`: `DmaBufferOwned` fails with two programs, two blocks
  and no failures. Program 1 exits. Its release frees the head of
  `pmem_head`, which is program 2's freshly allocated buffer. Program 2 then
  maps and DMAs into freed pages: `free_pmem_nodes` frees every node of the
  global list, not those of the file being closed.
- The list operations are single steps. The races between them (a node lost
  by two concurrent `add_pmem_node`, two releases freeing the same head) are
  listed as a hazard and not explored.

### KDmaIrq (`KDmaIrq.tla`, `MCKDmaIrq.tla`)

**State.**
- The user loop: `ust`, `xfer` and `usta`.
- The C device's CTL write in flight (`posted`), `busy`, `sta`, the pages
  written (`mem`) and the pending MSI.
- `irq_handler`'s read step (`hpc` and `hsta`).
- `irq_context.sta` (`ctx`).

GET_IRQCONTEXT is two actions, the read and the clear. The handler is two
actions too, the read of STA and the store. They are split so that TLC may
interleave them, but with one MSI per transfer, sent before the user can
pass the poll, no handler store ever falls between the read and the clear
of GET_IRQCONTEXT: the race of `kdma.c:1124-1126` is not reachable in this
program's single-transfer loop, and no property here shows it.

**Run.** `kdmairq` runs 6 transfers of 8 pages each and checks:
- `NoStaleCompletion`: the status the user acts on is that of its own
  transfer;
- `WaitReturns`: liveness.

Its fairness is weak fairness on each actor: the user process, the device's
timer task, and the interrupt delivery of a pending MSI. The run has only 103
states: the protocol is sequential per transfer.

### SBone (`SBone.tla`, `MCSBone.tla`)

The sbone driver keeps the same lock-free slot bitmap as kdma, but counts
interrupts: `irq_handler` increments the slot's `irq_count` and wakes its
wait queue, GET_IRQCOUNT reads and clears it with one fetch-and-and, and poll
registers on the wait queue before it reads the count. The device itself is
not in the repository: writing its register 0x20 makes it send one MSI.

**State.**
- The probe and remove of each PCI device: `pc`, the captured bitmap `x`,
  the loop index `i` and the slot won (`slot`), as in `KDmaSlots`.
- `irqdev[p]`: the `dev_id` of p's registered handler; `cdev[s]`: the device
  whose cdev is minor s; `count[s]`: `irq_count`; `pend[p]`: an MSI to send.
- The test program: `ust`, its file (`ufile`), the count it printed
  (`nirqs`).
- Histories: `handled[p]` (interrupts of p handled since it took its slot),
  `got[s]` (counts GET_IRQCOUNT returned), and `uowner` (the device whose
  minor the program opened, NULL once it is removed).

`irq_handler` is one step: `free_irq` waits for a running handler, so no
step of remove falls inside it.

**Run.** `sbone` has three devices over two slots, each probe step able to
fail, removes at any time, and one run of the test program on minor 0. It
checks:
- `IrqCounted`: while p's handler is registered, the interrupts it handled
  equal what is left in its slot's `irq_count` plus what GET_IRQCOUNT has
  returned. A shared slot, a lost increment or a handler left registered
  after its slot is freed breaks it.
- `WaitReturns`: once the program is in select on the file of the device at
  00:04.0 (`Target`), select returns, unless that device is removed.

Its fairness is weak fairness on each probe and remove step, on the
delivery of a pending MSI, and on the test program once it is started. The
program opens minor 0 but triggers 00:04.0; when another device owns minor 0
it waits forever, which is why `WaitReturns` is stated for `uowner = Target`
(see the hazard at `sbone/u/main.c:90`). 1 million states, under a minute.

## 4. Not modelled

- `dma_free_buf` passes an unset `word32_count` to PMEM_FREE, but main never
  calls it: `fill_mem` always returns 0. PMEM_FREE with arbitrary user
  arguments is not modelled either.
- PMEM_SYNC is a cache flush and changes no driver state. The
  CONFIG_PMEM_BOOT and CONFIG_PMEM_EARLY allocators are compiled out.
- sbone's PCI error handlers (`sbone_pci_error_detected` disables the device
  and asks for a slot reset; the others only print): PCI error recovery is
  driven by the PCI core, outside this model. The BAR register reads and
  writes of the test program before the interrupt test, and a second
  concurrent test program.
- The user clients' benchmarks.
- Socket setup and environment parsing: these are pure I/O.
- The DMA payload conversions (`pcie_glue_send_write`'s `logic_to_buf`,
  `pcie_glue_send_write_buf`) and the MSI node (see GlueCodec), and widths
  above 8, which overflow the node's `data[8]`.
- The region leak of `kdma_dev_map_bars` and `sbone_dev_map_bars`: when
  `ioremap_nocache` fails after `pci_request_region` succeeded, `vadr[i]`
  stays 0 and `*_dev_unmap_bars` skips that region, so it stays requested
  and every later probe of the device fails. `KDmaSlots` maps all BARs or
  unwinds in one step.
