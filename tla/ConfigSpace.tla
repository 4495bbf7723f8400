----------------------------- MODULE ConfigSpace -----------------------------
(***************************************************************************)
(* The configuration space of an endpoint (pcie.c, pcie.h): init_common,   *)
(* the vendor and device ids set by main, and the READ_CONFIG and          *)
(* WRITE_CONFIG cases of on_msg_recv with on_read_config, on_write_config, *)
(* pcie_check_config and the byte/word/long accessors.                     *)
(*                                                                         *)
(* Config space is a function from byte offsets to bytes.  Only the        *)
(* offsets the peer can reach are kept: the standard header and the MSI    *)
(* capability (0x00..0x4b) and the last dword (0xffc..0xfff).  A request   *)
(* carries its data as a sequence of bytes, little-endian.  The receive    *)
(* buffer is reused between requests (pcie_net_loop mallocs it once) and   *)
(* pcie_net_recv_buf fills only the bytes the frame's header size covers,  *)
(* so a field past the end of a short frame, or a long read of msg->data   *)
(* after a narrow write frame, sees the bytes of earlier frames.  A header *)
(* size over PCIE_NET_MSG_MAX_SIZE stops the loop; one below the header's  *)
(* own size wraps rem_size and recv swallows the rest of the stream.       *)
(***************************************************************************)
EXTENDS Integers, Sequences, Bitwise

CONSTANTS
  BarSize,    \* [0..5 -> Nat]: dev->bar_size[], as set by pcie_set_bar
  PeerReqs,   \* the config frames the peer may send, with their header size
  DataBytes,  \* byte values the peer sends and stale buffer bytes hold
  MaxReq,     \* bound on the requests the peer sends
  NULL

ASSUME MaxReq \in Nat
\* A frame ends at a field boundary or inside the data: never inside addr.
ASSUME \A m \in PeerReqs : m.hsize \notin 6 .. 12

VARIABLES
  config,  \* dev->config
  rxbuf,   \* the reused receive buffer: op, width, addr and data[0..3]
  reply,   \* reply->data of the last READ_CONFIG, or NULL
  last,    \* the last frame dispatched, as the peer sent it (history)
  hsz,     \* the header size of that frame (history)
  lstate,  \* pcie_net_loop: "run", "swallow" (inside recv) or "stopped"
  nreq     \* number of frames the peer sent

vars == <<config, rxbuf, reply, last, hsz, lstate, nreq>>

\* pci/header.h offsets and values.
PCI_VENDOR_ID == \h00
PCI_DEVICE_ID == \h02
PCI_STATUS == \h06
PCI_CLASS_REVISION == \h08
PCI_HEADER_TYPE == \h0e
PCI_BASE_ADDRESS_0 == \h10
PCI_BASE_ADDRESS_5 == \h24
PCI_ROM_ADDRESS == \h30
PCI_CAPABILITY_LIST == \h34
PCI_STATUS_CAP_LIST == \h10
PCI_CLASS_SIGNAL_OTHER == \h1180
MSI_CAP_OFF == 16 * 4

ConfigSize == \h1000
\* pcie_net.h: sizeof(pcie_net_header_t), offsetof(pcie_net_msg_t, data)
\* and PCIE_NET_MSG_MAX_SIZE.
HdrSize == 2
DataOff == 15
MsgMaxSize == DataOff + \h1000
CfgDomain == (0 .. \h4b) \cup (\hffc .. \hfff)

\* n bytes of v, little-endian.  Floor division makes a negative v wrap
\* like an unsigned C integer: Bytes(-1, 4) is ff ff ff ff.
Bytes(v, n) == [k \in 1 .. n |-> (v \div 2 ^ (8 * (k - 1))) % 256]
Ones(n) == [k \in 1 .. n |-> 255]
Zeros(n) == [k \in 1 .. n |-> 0]

CheckConfigPastEnd(addr, size) == addr % size = 0 /\ addr + size < ConfigSize

\* pcie_check_config: aligned and inside the 4 KiB array.  The C sum
\* addr + size is uint64_t and wraps for addr near 2^64; the model's
\* integers do not, and the modelled requests keep addr below 0x1000.
CheckConfig(addr, size) == addr % size = 0 /\ addr + size <= ConfigSize

\* pcie_write_config_safe: memcpy into config.
Put(cfg, addr, b) ==
  [a \in DOMAIN cfg |-> IF a \in addr .. addr + Len(b) - 1
                        THEN b[a - addr + 1] ELSE cfg[a]]

\* pcie_write_config and the byte/word/long wrappers.
WriteConfig(cfg, addr, b) ==
  IF CheckConfig(addr, Len(b)) THEN Put(cfg, addr, b) ELSE cfg

\* pcie_read_config_byte/word/long: the bytes, or all-ones of the width.
ReadConfig(addr, size) ==
  IF CheckConfig(addr, size)
  THEN [k \in 1 .. size |-> config[addr + k - 1]]
  ELSE Ones(size)

\* data & ~(size - 1) on a uint32_t, byte by byte.
MaskBytes(b, size) ==
  [k \in 1 .. 4 |-> b[k] & (255 - Bytes(size - 1, 4)[k])]

BarWindow == PCI_BASE_ADDRESS_0 .. PCI_BASE_ADDRESS_5
BarIndex(addr) == (addr - PCI_BASE_ADDRESS_0) \div 4

\* init_common, then pcie_set_vendorid/deviceid as main_dma.c calls them.
InitConfig ==
  LET c0 == [a \in CfgDomain |-> 0]
      c1 == WriteConfig(c0, PCI_HEADER_TYPE, Bytes(0, 1))
      c2 == WriteConfig(c1, PCI_CLASS_REVISION,
                        Bytes(PCI_CLASS_SIGNAL_OTHER * 2 ^ 16, 4))
      c3 == WriteConfig(c2, PCI_STATUS, Bytes(PCI_STATUS_CAP_LIST, 2))
      c4 == WriteConfig(c3, PCI_CAPABILITY_LIST, Bytes(MSI_CAP_OFF, 1))
      c5 == WriteConfig(c4, MSI_CAP_OFF, Bytes(\h05, 1))
      c6 == WriteConfig(c5, MSI_CAP_OFF + 1, Bytes(\h00, 1))
      c7 == WriteConfig(c6, MSI_CAP_OFF + 2, Bytes(\h01, 2))
      c8 == Put(c7, PCI_VENDOR_ID, Bytes(\h2a2a, 2))
  IN  Put(c8, PCI_DEVICE_ID, Bytes(\h2b2b, 2))

\* The buffer after pcie_net_recv_buf reads the m.hsize - 2 bytes following
\* the header into it: op at offset 2, width at 4, addr at 5..12 and the
\* data from 15; a field the frame does not reach keeps its old bytes.
\* The header itself goes to a local, never to the buffer.
Received(buf, m) ==
  [op    |-> IF m.hsize > 2 THEN m.op ELSE buf.op,
   width |-> IF m.hsize > 4 THEN m.width ELSE buf.width,
   addr  |-> IF m.hsize >= 13 THEN m.addr ELSE buf.addr,
   data  |-> [k \in 1 .. 4 |-> IF DataOff + k <= m.hsize
                                THEN m.data[k] ELSE buf.data[k]]]

-----------------------------------------------------------------------------
(* The handlers.                                                           *)

OnWriteConfigUnmasked(cfg, m, buf) ==
  IF m.addr \in BarWindow
  THEN IF BarSize[BarIndex(m.addr)] # 0
       THEN WriteConfig(cfg, m.addr, SubSeq(buf, 1, 4))
       ELSE cfg
  ELSE IF m.addr = PCI_ROM_ADDRESS THEN cfg
  ELSE IF m.width \in {1, 2, 4} THEN WriteConfig(cfg, m.addr, SubSeq(buf, 1, m.width))
  ELSE cfg

OnWriteConfigLong(cfg, m, buf) ==
  IF m.addr \in BarWindow
  THEN IF BarSize[BarIndex(m.addr)] # 0
       THEN WriteConfig(cfg, m.addr, MaskBytes(buf, BarSize[BarIndex(m.addr)]))
       ELSE cfg
  ELSE IF m.addr = PCI_ROM_ADDRESS THEN cfg
  ELSE IF m.width \in {1, 2, 4} THEN WriteConfig(cfg, m.addr, SubSeq(buf, 1, 4))
  ELSE cfg

\* on_write_config: an address in 0x10..0x24 is a BAR register, written
\* as a long of *(uint32_t*)msg->data masked by the BAR size, or dropped
\* for an unset BAR; the ROM register is dropped; anything else is written
\* with the request's width (1, 2 or 4; other widths are dropped).
OnWriteConfig(cfg, m, buf) ==
  IF m.addr \in BarWindow
  THEN IF BarSize[BarIndex(m.addr)] # 0
       THEN WriteConfig(cfg, m.addr, MaskBytes(buf, BarSize[BarIndex(m.addr)]))
       ELSE cfg
  ELSE IF m.addr = PCI_ROM_ADDRESS THEN cfg
  ELSE IF m.width \in {1, 2, 4} THEN WriteConfig(cfg, m.addr, SubSeq(buf, 1, m.width))
  ELSE cfg

OnReadConfigNarrow(addr, width) ==
  IF width \in {1, 2, 4} THEN ReadConfig(addr, width) ELSE Ones(8)

\* on_read_config: the value zero-extended into the 8 reply bytes; a width
\* other than 1, 2 or 4 gives (uint64_t)-1.
OnReadConfig(addr, width) ==
  IF width \in {1, 2, 4}
  THEN ReadConfig(addr, width) \o Zeros(8 - width)
  ELSE Ones(8)

\* One iteration of pcie_net_loop on a frame whose header size is in range:
\* pcie_net_recv_buf fills the reused buffer and on_msg_recv dispatches
\* what the buffer then holds.
Handle(m) ==
  LET r == Received(rxbuf, m) IN
  /\ lstate = "run" /\ nreq < MaxReq
  /\ HdrSize <= m.hsize /\ m.hsize <= MsgMaxSize
  /\ rxbuf' = r
  /\ \/ /\ r.op = "READ_CONFIG"
        /\ reply' = OnReadConfig(r.addr, r.width)
        /\ UNCHANGED config
     \/ /\ r.op = "WRITE_CONFIG"
        /\ config' = OnWriteConfig(config, r, r.data)
        /\ reply' = NULL
  /\ last' = m /\ hsz' = m.hsize
  /\ nreq' = nreq + 1
  /\ UNCHANGED lstate

\* h.size > max_size: pcie_net_recv_buf returns -1, must_stop is set and
\* pcie_net_loop breaks out and returns.
RecvOversize(m) ==
  /\ lstate = "run" /\ nreq < MaxReq
  /\ m.hsize > MsgMaxSize
  /\ lstate' = "stopped"
  /\ nreq' = nreq + 1
  /\ UNCHANGED <<config, rxbuf, reply, last, hsz>>

\* h.size < sizeof(h): rem_size = h.size - 2 wraps to nearly 2^64 and recv
\* with MSG_WAITALL blocks, writing every later byte of the stream into the
\* buffer after the header; it returns only when the peer goes away.
\* Past 4 KiB of such bytes the writes overrun the heap buffer; the model
\* keeps only that the frames are swallowed and never dispatched.
RecvUnderflow(m) ==
  /\ lstate = "run" /\ nreq < MaxReq
  /\ m.hsize < HdrSize
  /\ lstate' = "swallow"
  /\ nreq' = nreq + 1
  /\ UNCHANGED <<config, rxbuf, reply, last, hsz>>

\* A frame the peer sends while recv is swallowing: it is never dispatched
\* (the buffer bytes it overwrites are never read again).
Swallow(m) ==
  /\ lstate = "swallow" /\ nreq < MaxReq
  /\ nreq' = nreq + 1
  /\ UNCHANGED <<config, rxbuf, reply, last, hsz, lstate>>

\* The receive buffer is malloc'd and never cleared: until a frame covers
\* them its fields hold anything; the model takes the header fields of a
\* frame the peer can send and any data bytes.
Init ==
  /\ config = InitConfig
  /\ rxbuf \in {[op |-> q.op, width |-> q.width, addr |-> q.addr, data |-> d] :
                  q \in PeerReqs, d \in [1 .. 4 -> DataBytes]}
  /\ reply = NULL /\ last = NULL /\ hsz = 0 /\ lstate = "run" /\ nreq = 0

Next == \E m \in PeerReqs : Handle(m) \/ RecvOversize(m) \/ RecvUnderflow(m) \/ Swallow(m)

Spec == Init /\ [][Next]_vars

-----------------------------------------------------------------------------
(* Properties.                                                             *)

TypeOK ==
  /\ config \in [CfgDomain -> 0 .. 255]
  /\ rxbuf.data \in [1 .. 4 -> 0 .. 255]
  /\ reply \in [1 .. 8 -> 0 .. 255] \cup {NULL}
  /\ last \in PeerReqs \cup {NULL}
  /\ lstate \in {"run", "swallow", "stopped"}
  /\ nreq \in 0 .. MaxReq

BarBytes(i) == [k \in 1 .. 4 |-> config[PCI_BASE_ADDRESS_0 + 4 * i + k - 1]]
RomBytes == [k \in 1 .. 4 |-> config[PCI_ROM_ADDRESS + k - 1]]

(***************************************************************************)
(* The address decoders read back as hardware would (spec 3.3): each BAR   *)
(* register has the bits below its size cleared, an unset BAR reads 0, and *)
(* the expansion ROM register stays 0.  The host sizes BARs from these     *)
(* values, so a stray bit makes it map the wrong window.  It depends on    *)
(* the window test, the BAR index and the mask of on_write_config.         *)
(***************************************************************************)
DecodedRegisters ==
  /\ \A i \in 0 .. 5 : BarBytes(i) = MaskBytes(BarBytes(i), BarSize[i])
  /\ RomBytes = Zeros(4)

(***************************************************************************)
(* A config write changes no byte outside the range it addresses: a read  *)
(* never changes config, and a write of width w at addr touches only      *)
(* addr .. addr + w - 1.                                                  *)
(***************************************************************************)
WriteStaysInRange ==
  [][\A a \in CfgDomain :
       config'[a] # config[a] =>
         /\ last'.op = "WRITE_CONFIG"
         /\ a \in last'.addr .. last'.addr + last'.width - 1]_vars

(***************************************************************************)
(* Round trip (spec section 8): right after a WRITE_CONFIG of width 1, 2   *)
(* or 4 that fits in the 4 KiB space, reading the same range returns the  *)
(* value written, masked by the BAR size in the BAR window; the ROM       *)
(* register is the documented exception.                                  *)
(***************************************************************************)
Written(m) ==
  IF m.addr \in BarWindow
  THEN MaskBytes(m.data, BarSize[BarIndex(m.addr)])
  ELSE m.data

RoundTrip ==
  LET m == last IN
  (/\ m # NULL /\ m.op = "WRITE_CONFIG" /\ m.width \in {1, 2, 4}
   /\ m.addr + m.width <= ConfigSize /\ m.addr # PCI_ROM_ADDRESS)
    => OnReadConfig(m.addr, m.width) = Written(m) \o Zeros(8 - m.width)


=============================================================================
