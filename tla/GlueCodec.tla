------------------------------ MODULE GlueCodec ------------------------------
(***************************************************************************)
(* The data conversions of the GHDL bridge (pcie_glue.c) and of the        *)
(* READ_MEM reply of pcie.c.  GHDL passes a std_logic_vector as an array   *)
(* of std_logic levels, one byte per level, leftmost (most significant)    *)
(* first; glue_levels gives the levels of '0' and '1'.  Integers cross     *)
(* the wire and the bridge nodes as little-endian bytes (x86 memcpy).      *)
(*                                                                         *)
(* The operators below follow the C routines; the reference definitions   *)
(* at the end say, position by position, what the spec (4.1: data is      *)
(* little-endian, the caller takes the first width bytes) and the VHDL    *)
(* side expect.  Values stay below 2^31, TLC's integer range; an input    *)
(* whose value would not is left out of the checks.                       *)
(***************************************************************************)
EXTENDS Integers, Sequences, SequencesExt

CONSTANTS
  ByteVals,   \* byte values the peer or the simulator may put on a port
  Widths      \* access widths of READ_MEM / WRITE_MEM (msg->width)

\* glue_levels[b]: the std_logic level of bit b ('0' is 2, '1' is 3).
Level(b) == IF b = 1 THEN 3 ELSE 2

\* The 8 levels of a byte, most significant first.
ByteLevels(v) == [p \in 1 .. 8 |-> Level((v \div 2 ^ (8 - p)) % 2)]

\* The byte whose 8 levels are t: a bit is set where the level is
\* glue_levels[1]; any other level ('U', 'X', 'Z', 'H', ...) reads as 0.
RECURSIVE LevelsValue(_)
LevelsValue(t) ==
  IF t = <<>> THEN 0
  ELSE 2 * LevelsValue(Front(t)) + (IF Last(t) = Level(1) THEN 1 ELSE 0)

\* uint<w>_to_logic: the w low bits of x, most significant first (w is a
\* multiple of 8; taken a byte at a time).
RECURSIVE UintToLogic(_, _)
UintToLogic(x, w) ==
  IF w = 0 THEN <<>> ELSE UintToLogic(x \div 256, w - 8) \o ByteLevels(x % 256)

\* logic_to_uint<w>: bit i of the result from level w - i.
RECURSIVE LogicToUint(_)
LogicToUint(s) ==
  IF s = <<>> THEN 0
  ELSE 256 * LogicToUint(SubSeq(s, 1, Len(s) - 8))
         + LevelsValue(SubSeq(s, Len(s) - 7, Len(s)))

\* Mutant: the bytes taken as a big-endian number.
BytesToUintBigEndian(b) == FoldLeft(LAMBDA acc, byte : 256 * acc + byte, 0, b)

\* memcpy(&x, data, size) into a uint64_t x that was 0.
BytesToUint(b) == FoldRight(LAMBDA byte, acc : 256 * acc + byte, b, 0)

\* memcpy(bytes, &x, n) of a uint64_t x.
RECURSIVE UintToBytes(_, _)
UintToBytes(x, n) ==
  IF n = 0 THEN <<>> ELSE <<x % 256>> \o UintToBytes(x \div 256, n - 1)

-----------------------------------------------------------------------------
(* The data paths.                                                         *)

\* A host WRITE_MEM of the bytes b: on_msg_recv passes msg->data and width
\* to on_bar_write, which copies them into the node; pcie_glue_poll_rx_fifo
\* copies size bytes into x and drives the 64 levels of the data port.
PollWriteData(b) == UintToLogic(BytesToUint(b), 64)

\* pcie_glue_send_reply: the 64 levels of the reply port become a
\* uint64_t, stored into the node's data.
SendReplyData(levels) == UintToBytes(LogicToUint(levels), 8)

\* Mutant: reply->data keeps the (uint64_t)-1 it was set to before the
\* BAR checks.
HostReadReplyNoZero(levels, w) ==
  LET nb == SendReplyData(levels)
  IN [j \in 1 .. 8 |-> IF j <= w THEN nb[j] ELSE 255]

\* A host READ_MEM of width w: on_msg_recv zeroes reply->data and calls
\* on_bar_read, which copies min(size, node size) bytes of the node's data
\* once is_replied is set (node->size is the size it was given); the
\* reply carries 8 bytes.
HostReadReply(levels, w) ==
  LET nb == SendReplyData(levels)
  IN [j \in 1 .. 8 |-> IF j <= w THEN nb[j] ELSE 0]

-----------------------------------------------------------------------------
(* Reference definitions.                                                  *)

\* Bit k of a byte.
Bit(v, k) == (v \div 2 ^ k) % 2

\* The levels of an n-byte port holding the little-endian bytes b (zero
\* beyond Len(b)), leftmost level the most significant bit.
PortLevels(b, n) ==
  [p \in 1 .. 8 * n |->
     LET q == 8 * n - p
         j == q \div 8 + 1
     IN Level(IF j <= Len(b) THEN Bit(b[j], q % 8) ELSE 0)]

\* The byte sequences of n bytes over ByteVals whose value TLC can hold.
ByteSeqs(n) == {b \in [1 .. n -> ByteVals] : n < 4 \/ b[4] < 128}

-----------------------------------------------------------------------------
(* What the data paths must deliver; Glue checks them once data has gone  *)
(* through the bridge.                                                     *)

(***************************************************************************)
(* A host WRITE_MEM of 1, 2 or 4 bytes reaches the simulator's data port   *)
(* as the little-endian value of those bytes, most significant level      *)
(* first and zero above the width: memcpy into x in                       *)
(* pcie_glue_poll_rx_fifo and uint64_to_logic must agree on byte and bit  *)
(* order.                                                                  *)
(***************************************************************************)
WriteCodecOk ==
  \A w \in {v \in Widths : v <= 4} :
    \A b \in ByteSeqs(w) : PollWriteData(b) = PortLevels(b, 8)

(***************************************************************************)
(* A host READ_MEM of width w gets, in the first w bytes of the reply, the *)
(* low w bytes of the value the simulator drove on the reply port, little *)
(* endian, and zero in the rest (spec 4.1).  It is about                   *)
(* pcie_glue_send_reply, the copy in on_bar_read and the zeroing of        *)
(* reply->data in on_msg_recv.                                             *)
(***************************************************************************)
ReadCodecOk ==
  \A w \in Widths, v \in ByteSeqs(3) :
    HostReadReply(PortLevels(v, 8), w)
      = [j \in 1 .. 8 |-> IF j <= w /\ j <= 3 THEN v[j] ELSE 0]

=============================================================================
