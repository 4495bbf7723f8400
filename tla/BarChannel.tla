----------------------------- MODULE BarChannel -----------------------------
(***************************************************************************)
(* What the endpoint promises its peer over the TCP connection, whatever   *)
(* the threads behind it do.  Requests are taken off the socket one at a   *)
(* time, in the order sent.  A read of an active BAR is answered before    *)
(* the next request is taken (on_bar_read blocks pcie_net_loop); any other *)
(* read is answered at once; writes get no answer.  Each answer carries   *)
(* the value for its own request.  Between requests the endpoint may send  *)
(* the device's own messages, numbered in the order they were created.    *)
(* Nothing reaches a peer that has closed.                                 *)
(*                                                                         *)
(* Data is abstracted as in Glue: the value of a BAR read is the id of the *)
(* request, config reads return CfgData and the others all-ones.           *)
(***************************************************************************)
EXTENDS Integers, Sequences, SequencesExt

CONSTANTS
  Bars,     \* BAR numbers the peer may address
  BarSize,  \* [0..5 -> Nat]: bar_size[] of the endpoint
  ReqOps,   \* request ops the peer may send
  MaxReq,   \* bound on the requests the peer sends
  MaxTx,    \* bound on the messages the endpoint sends
  NULL

VARIABLES
  inq,    \* requests sent and not yet taken off the socket
  taken,  \* ids of the requests taken, in order
  wait,   \* the BAR read being served, or NULL
  out,    \* what the peer has received, in order
  open    \* the peer has not closed the connection

vars == <<inq, taken, wait, out, open>>

ReadOps == {"READ_CONFIG", "READ_MEM", "READ_IO"}
MemOps == {"READ_MEM", "WRITE_MEM"}
Active(bar) == bar < 6 /\ BarSize[bar] # 0
Ones == -1
CfgData == 0

Request(id, op, bar) == [id |-> id, op |-> op, bar |-> bar]
Reply(id, val) == [kind |-> "reply", id |-> id, val |-> val]
TxMsg(t) == [kind |-> "msg", id |-> t, val |-> NULL]

\* The peer gets only what is sent while it is connected.
Deliver(msgs) == out' = IF open THEN out \o msgs ELSE out

\* Messages of the endpoint's own the peer has received.
IsMsg(m) == m.kind = "msg"
NMsgs == Len(SelectSeq(out, IsMsg))

-----------------------------------------------------------------------------

Send(op, bar) ==
  /\ open /\ Len(taken) + Len(inq) < MaxReq
  /\ inq' = Append(inq, Request(Len(taken) + Len(inq) + 1, op, bar))
  /\ UNCHANGED <<taken, wait, out, open>>

Close ==
  /\ open
  /\ open' = FALSE
  /\ UNCHANGED <<inq, taken, wait, out>>

\* pcie_net_loop reads one request and on_msg_recv routes it.
Take ==
  /\ wait = NULL /\ inq # <<>>
  /\ LET m == Head(inq) IN
       /\ inq' = Tail(inq)
       /\ taken' = Append(taken, m.id)
       /\ \/ /\ m.op = "READ_MEM" /\ Active(m.bar)
             /\ wait' = m.id
             /\ UNCHANGED out
          \/ /\ m.op \in ReadOps /\ ~(m.op = "READ_MEM" /\ Active(m.bar))
             /\ Deliver(<<Reply(m.id, IF m.op = "READ_CONFIG" THEN CfgData ELSE Ones)>>)
             /\ UNCHANGED wait
          \/ /\ m.op \notin ReadOps
             /\ UNCHANGED <<wait, out>>
  /\ UNCHANGED open

\* on_bar_read returns with the design's answer and the reply is sent.
Answer ==
  /\ wait # NULL
  /\ Deliver(<<Reply(wait, wait)>>)
  /\ wait' = NULL
  /\ UNCHANGED <<inq, taken, open>>

\* on_event drains the endpoint's next k messages onto the socket.
Emit(k) ==
  /\ wait = NULL /\ open
  /\ NMsgs + k <= MaxTx
  /\ out' = out \o [i \in 1 .. k |-> TxMsg(NMsgs + i)]
  /\ UNCHANGED <<inq, taken, wait, open>>

Init ==
  /\ inq = <<>> /\ taken = <<>> /\ wait = NULL /\ out = <<>> /\ open = TRUE

Next ==
  \/ \E op \in ReqOps, bar \in Bars : Send(op, bar)
  \/ Close \/ Take \/ Answer
  \/ \E k \in 1 .. MaxTx : Emit(k)

Spec == Init /\ [][Next]_vars

=============================================================================
