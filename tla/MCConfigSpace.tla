---------------------------- MODULE MCConfigSpace ----------------------------
(* BAR 0 of 0x100 bytes (as main_dma.c sets it) and BAR 5 of 0x1000; the  *)
(* other BARs are unset.                                                   *)
EXTENDS ConfigSpace
MCBarSize == [b \in 0 .. 5 |-> CASE b = 0 -> \h100 [] b = 5 -> \h1000 [] OTHER -> 0]
MCDataBytes == {0, 255}
\* A frame as the peer builds it: header size offsetof(data) + data bytes.
RqH(op, addr, width, data, hsize) ==
  [op |-> op, addr |-> addr, width |-> width, data |-> data, hsize |-> hsize]
Rq(op, addr, width, data) == RqH(op, addr, width, data, DataOff + Len(data))
Vals(w) == {Ones(w), Zeros(w)}
\* The accesses of a host PCI core: dword accesses to the BAR and ROM
\* registers, the command word, the interrupt line byte and the last
\* dword of the space; one read of an unsupported width.
HostReqs ==
  {Rq("READ_CONFIG", a, 4, <<>>) : a \in {\h10, \h24, \h30, \hffc}}
    \cup {Rq("READ_CONFIG", \h00, 2, <<>>), Rq("READ_CONFIG", \h04, 8, <<>>)}
    \cup {Rq("WRITE_CONFIG", a, 4, v) : a \in {\h10, \h14, \h24, \h30, \hffc}, v \in Vals(4)}
    \cup {Rq("WRITE_CONFIG", \h04, 2, v) : v \in Vals(2)}
    \cup {Rq("WRITE_CONFIG", \h3c, 1, v) : v \in Vals(1)}
    \cup {Rq("WRITE_CONFIG", \h04, 8, Ones(8))}
\* ... and a corrupt header: a size below its own, or above the buffer.
BadReqs ==
  {RqH("READ_CONFIG", \h00, 2, <<>>, 0), RqH("READ_CONFIG", \h00, 2, <<>>, MsgMaxSize + 1)}
HostBadReqs == HostReqs \cup BadReqs
\* A peer that also writes single bytes inside the BAR and ROM registers.
ByteReqs ==
  HostReqs \cup {Rq("WRITE_CONFIG", a, 1, Ones(1)) : a \in {\h10, \h25, \h31}}
\* A peer that also cuts write frames short: after the header, after
\* op, bar and width, or before the data.
ShortReqs ==
  ByteReqs \cup {RqH("WRITE_CONFIG", \h3c, 1, Ones(1), h) : h \in {2, 5, 15}}
=============================================================================
