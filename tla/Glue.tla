-------------------------------- MODULE Glue --------------------------------
(***************************************************************************)
(* The GHDL build of the vpcie endpoint: pcie_glue.c with the event loop   *)
(* of pcie_net.c and the dispatch of pcie.c, seen from three actors.       *)
(*                                                                         *)
(*  - the IO thread (thread_entry): pcie_net_loop selects on the socket    *)
(*    and the event pipe, on_msg_recv routes a request, on_bar_read pushes *)
(*    a node on rx_fifo and spins on is_replied, on_event drains tx_fifo;  *)
(*  - the simulator thread, which runs ghdl_main and then joins: it calls  *)
(*    pcie_glue_poll_rx_fifo, pcie_glue_send_reply and the pcie_glue_send_ *)
(*    routines, and finally pcie_glue_join_thread;                         *)
(*  - the peer (root complex) at the other end of the TCP connection.      *)
(*                                                                         *)
(* Data is abstracted: a request is its id, op and BAR; the value a        *)
(* simulator reply carries is the id of the access it answers; config      *)
(* reads return CfgData and unserved reads return Ones (all-ones).         *)
(***************************************************************************)
EXTENDS Integers, Sequences, SequencesExt, GlueCodec

CONSTANTS
  Bars,          \* BAR numbers the peer may address
  BarSize,       \* [0..5 -> Nat], bar_size[] as set by thread_entry
  ReqOps,        \* request ops the peer may send
  MaxReq,        \* bound on the number of requests the peer sends
  MaxTx,         \* bound on the messages the simulator sends
  AllowJoin,     \* may ghdl_main return and main join the IO thread?
  PeerMayClose,  \* may the peer close the connection?
  NULL

ASSUME /\ MaxReq \in Nat /\ MaxTx \in Nat
       /\ AllowJoin \in BOOLEAN /\ PeerMayClose \in BOOLEAN

VARIABLES
  net_in,      \* bytes the peer wrote and the IO thread has not read
  net_out,     \* messages the peer has received, in order
  peer_open,   \* the peer has not closed the connection
  reqs,        \* reqs[i]: the i-th request sent (history)
  recvd,       \* ids of requests the IO thread received, in order (history)
  io_pc,       \* IO thread: "init", "select", "wait" (in on_bar_read), "exited"
  awaited,     \* the read node the IO thread spins on in on_bar_read
  rx_fifo,     \* c->rx_fifo: bar access nodes [id, is_read]
  replied,     \* nodes whose is_replied is 1
  node_data,   \* node_data[n]: u.bar_access.data of node n
  freed,       \* nodes that have been freed
  reply_node,  \* c->reply_node
  hw_seen,     \* ids of the accesses the simulator polled, in order (history)
  tx_fifo,     \* c->tx_fifo: ids of the simulator's outbound messages
  ntx,         \* number of outbound messages the simulator created
  ev_pipe,     \* keys written to ev_fds[1] and not yet read
  state,       \* g_thread_context.state
  main_pc      \* simulator/main thread: "create", "run", "push_key",
               \*   "join_quit", "joining", "done"

vars == <<net_in, net_out, peer_open, reqs, recvd, io_pc, awaited, rx_fifo,
          replied, node_data, freed, reply_node, hw_seen, tx_fifo, ntx,
          ev_pipe, state, main_pc>>

ReqIds == 1 .. MaxReq
ReadOps == {"READ_CONFIG", "READ_MEM", "READ_IO"}
MemOps == {"READ_MEM", "WRITE_MEM"}

\* on_event's keys evk_push and evk_quit
PUSH == "PUSH"
QUIT == "QUIT"

\* unsigned int buf[32]: at most 32 keys per read of the event pipe
EvReadMax == 32

\* on_msg_recv: PCIE_BAR_COUNT, bar_size[] = 0 and NULL handler checks; the
\* glue installs a read and a write handler on every BAR.
Active(bar) == bar < 6 /\ BarSize[bar] # 0

\* Reply data: (uint64_t)-1, and the contents of config space (one value,
\* the bridge does not change it).  Answers to BAR reads are request ids.
Ones == -1
CfgData == 0

Request(id, op, bar) == [id |-> id, op |-> op, bar |-> bar]
Reply(id, val) == [kind |-> "reply", id |-> id, val |-> val]
TxMsg(t) == [kind |-> "msg", id |-> t, val |-> NULL]

-----------------------------------------------------------------------------
(* The peer.                                                               *)

PeerSend(op, bar) ==
  /\ peer_open
  /\ Len(recvd) + Len(net_in) < MaxReq
  /\ LET id == Len(recvd) + Len(net_in) + 1 IN
       /\ net_in' = Append(net_in, Request(id, op, bar))
       /\ reqs' = [reqs EXCEPT ![id] = Request(id, op, bar)]
  /\ UNCHANGED <<net_out, peer_open, recvd, io_pc, awaited, rx_fifo, replied,
                 node_data, freed, reply_node, hw_seen, tx_fifo, ntx, ev_pipe,
                 state, main_pc>>

PeerClose ==
  /\ PeerMayClose /\ peer_open
  /\ peer_open' = FALSE
  /\ UNCHANGED <<net_in, net_out, reqs, recvd, io_pc, awaited, rx_fifo,
                 replied, node_data, freed, reply_node, hw_seen, tx_fifo, ntx,
                 ev_pipe, state, main_pc>>

-----------------------------------------------------------------------------
(* The IO thread.                                                          *)

\* pcie_net_send_reply / pcie_net_send_msg: what is sent to a closed peer
\* is lost.
Send(msgs) == net_out' = IF peer_open THEN net_out \o msgs ELSE net_out

\* thread_entry: fifo_init, pcie_init_net, pcie_add_event, pcie_set_bar,
\* then state = 1.
IoStart ==
  /\ io_pc = "init"
  /\ io_pc' = "select"
  /\ state' = 1
  /\ UNCHANGED <<net_in, net_out, peer_open, reqs, recvd, awaited, rx_fifo,
                 replied, node_data, freed, reply_node, hw_seen, tx_fifo, ntx,
                 ev_pipe, main_pc>>

\* pcie_net_loop returns; thread_entry re-enters it while state != 0, else
\* runs pcie_fini and fifo_fini (which frees the nodes left in both fifos).
LoopExit(txLeft) ==
  IF state = 0
  THEN /\ io_pc' = "exited"
       /\ tx_fifo' = <<>>
       /\ rx_fifo' = <<>>
  ELSE /\ io_pc' = "select"
       /\ tx_fifo' = txLeft
       /\ UNCHANGED rx_fifo

\* The event part of one loop iteration: read up to 32 keys; for each key
\* call on_event, which returns -1 on QUIT and otherwise drains the whole
\* tx_fifo (a later PUSH key of the batch finds it empty).
\* Mutant: a QUIT key in the batch stops the loop before the other keys of
\* the batch are handled.
OnEventsQuitFirst(keys) ==
  LET push == PUSH \in ToSet(keys)
      txLeft == IF push THEN <<>> ELSE tx_fifo
  IN /\ ev_pipe' = SubSeq(ev_pipe, Len(keys) + 1, Len(ev_pipe))
     /\ IF QUIT \in ToSet(keys)
        THEN LoopExit(tx_fifo) /\ UNCHANGED net_out
        ELSE /\ IF push THEN Send([i \in 1 .. Len(tx_fifo) |-> TxMsg(tx_fifo[i])])
                        ELSE UNCHANGED net_out
             /\ io_pc' = "select" /\ tx_fifo' = txLeft /\ UNCHANGED rx_fifo

OnEvents(keys) ==
  LET push == PUSH \in ToSet(keys)
      txLeft == IF push THEN <<>> ELSE tx_fifo
  IN /\ ev_pipe' = SubSeq(ev_pipe, Len(keys) + 1, Len(ev_pipe))
     /\ IF push THEN Send([i \in 1 .. Len(tx_fifo) |-> TxMsg(tx_fifo[i])])
                ELSE UNCHANGED net_out
     /\ IF QUIT \in ToSet(keys) THEN LoopExit(txLeft)
                               ELSE io_pc' = "select" /\ tx_fifo' = txLeft
                                    /\ UNCHANGED rx_fifo

EvBatch ==
  SubSeq(ev_pipe, 1, IF Len(ev_pipe) < EvReadMax THEN Len(ev_pipe) ELSE EvReadMax)

\* select returns with the event pipe readable.
IoEvent ==
  /\ io_pc = "select"
  /\ ev_pipe # <<>>
  /\ OnEvents(EvBatch)
  /\ UNCHANGED <<net_in, peer_open, reqs, recvd, awaited, replied, node_data,
                 freed, reply_node, hw_seen, ntx, state, main_pc>>

\* The socket is readable: pcie_net_recv_msg returns one request, which
\* on_msg_recv dispatches.  The four actions below are its cases.
Received(m) ==
  /\ net_in' = Tail(net_in)
  /\ recvd' = Append(recvd, m.id)

\* fifo_alloc_access_node + fifo_push_node: link a new bar access node at
\* the tail of rx_fifo, under the fifo's lock.
PushNode(id, isRead) == rx_fifo' = Append(rx_fifo, [id |-> id, is_read |-> isRead])

\* Mutant: on_bar_read returns without waiting for the reply.
IoRecvBarReadNoBlock ==
  /\ io_pc = "select" /\ net_in # <<>>
  /\ LET m == Head(net_in) IN
       /\ Received(m)
       /\ m.op = "READ_MEM" /\ Active(m.bar)
       /\ rx_fifo' = Append(rx_fifo, [id |-> m.id, is_read |-> TRUE])
       /\ awaited' = m.id
  /\ io_pc' = "select"
  /\ UNCHANGED <<net_out, peer_open, reqs, replied, node_data, freed,
                 reply_node, hw_seen, tx_fifo, ntx, ev_pipe, state, main_pc>>

\* Mutant: on_bar_read allocates its node with is_read = 0.
IoRecvBarReadAsWrite ==
  /\ io_pc = "select" /\ net_in # <<>>
  /\ LET m == Head(net_in) IN
       /\ Received(m)
       /\ m.op = "READ_MEM" /\ Active(m.bar)
       /\ rx_fifo' = Append(rx_fifo, [id |-> m.id, is_read |-> FALSE])
       /\ awaited' = m.id
  /\ io_pc' = "wait"
  /\ UNCHANGED <<net_out, peer_open, reqs, replied, node_data, freed,
                 reply_node, hw_seen, tx_fifo, ntx, ev_pipe, state, main_pc>>

\* READ_MEM on an active BAR: on_bar_read allocates a node, pushes it on
\* rx_fifo and spins until is_replied.
IoRecvBarRead ==
  /\ io_pc = "select" /\ net_in # <<>>
  /\ LET m == Head(net_in) IN
       /\ Received(m)
       /\ m.op = "READ_MEM" /\ Active(m.bar)
       /\ PushNode(m.id, TRUE)
       /\ awaited' = m.id
  /\ io_pc' = "wait"
  /\ UNCHANGED <<net_out, peer_open, reqs, replied, node_data, freed,
                 reply_node, hw_seen, tx_fifo, ntx, ev_pipe, state, main_pc>>

\* Mutant: fifo_push_node links the new node at the head.
IoRecvBarWritePushHead ==
  /\ io_pc = "select" /\ net_in # <<>>
  /\ LET m == Head(net_in) IN
       /\ Received(m)
       /\ m.op = "WRITE_MEM" /\ Active(m.bar)
       /\ rx_fifo' = <<[id |-> m.id, is_read |-> FALSE]>> \o rx_fifo
  /\ UNCHANGED <<net_out, peer_open, reqs, io_pc, awaited, replied, node_data,
                 freed, reply_node, hw_seen, tx_fifo, ntx, ev_pipe, state,
                 main_pc>>

\* WRITE_MEM on an active BAR: on_bar_write pushes a node and returns.
IoRecvBarWrite ==
  /\ io_pc = "select" /\ net_in # <<>>
  /\ LET m == Head(net_in) IN
       /\ Received(m)
       /\ m.op = "WRITE_MEM" /\ Active(m.bar)
       /\ PushNode(m.id, FALSE)
  /\ UNCHANGED <<net_out, peer_open, reqs, io_pc, awaited, replied, node_data,
                 freed, reply_node, hw_seen, tx_fifo, ntx, ev_pipe, state,
                 main_pc>>

\* READ_CONFIG, READ_IO, or READ_MEM on an inactive or out-of-range BAR:
\* the reply is built in place and sent at once.
IoRecvSyncRead ==
  /\ io_pc = "select" /\ net_in # <<>>
  /\ LET m == Head(net_in) IN
       /\ Received(m)
       /\ m.op \in ReadOps /\ ~(m.op = "READ_MEM" /\ Active(m.bar))
       /\ Send(<<Reply(m.id, IF m.op = "READ_CONFIG" THEN CfgData ELSE Ones)>>)
  /\ UNCHANGED <<peer_open, reqs, io_pc, awaited, rx_fifo, replied, node_data,
                 freed, reply_node, hw_seen, tx_fifo, ntx, ev_pipe, state,
                 main_pc>>

\* WRITE_CONFIG, WRITE_IO, WRITE_MEM on an inactive BAR, other ops: no reply
\* and nothing the bridge sees.
IoRecvNoReply ==
  /\ io_pc = "select" /\ net_in # <<>>
  /\ LET m == Head(net_in) IN
       /\ Received(m)
       /\ m.op \notin ReadOps /\ ~(m.op = "WRITE_MEM" /\ Active(m.bar))
  /\ UNCHANGED <<net_out, peer_open, reqs, io_pc, awaited, rx_fifo, replied,
                 node_data, freed, reply_node, hw_seen, tx_fifo, ntx, ev_pipe,
                 state, main_pc>>

\* Mutant: on_bar_read copies the node's data without waiting for
\* is_replied.
IoReplyReadyNoWait ==
  /\ io_pc = "wait"
  /\ freed' = freed \cup {awaited}
  /\ Send(<<Reply(awaited, node_data[awaited])>>)
  /\ awaited' = NULL
  /\ io_pc' = "select"
  /\ UNCHANGED <<net_in, peer_open, reqs, recvd, rx_fifo, replied, node_data,
                 reply_node, hw_seen, tx_fifo, ntx, ev_pipe, state, main_pc>>

\* on_bar_read leaves its spin: it copies the node's data into the reply,
\* frees the node, and pcie_net_loop sends the reply.
IoReplyReady ==
  /\ io_pc = "wait"
  /\ awaited \in replied
  /\ freed' = freed \cup {awaited}
  /\ Send(<<Reply(awaited, node_data[awaited])>>)
  /\ awaited' = NULL
  /\ io_pc' = "select"
  /\ UNCHANGED <<net_in, peer_open, reqs, recvd, rx_fifo, replied, node_data,
                 reply_node, hw_seen, tx_fifo, ntx, ev_pipe, state, main_pc>>

\* The peer has closed and everything it sent is read: recv returns 0, the
\* loop sets must_stop.  The same iteration still reads the event pipe if
\* select reported it readable (a drain sends nothing to a closed peer).
IoRecvEof ==
  /\ io_pc = "select"
  /\ net_in = <<>> /\ ~peer_open
  /\ \/ /\ ev_pipe # <<>>
        /\ LET keys == EvBatch
               txLeft == IF PUSH \in ToSet(keys) THEN <<>> ELSE tx_fifo
           IN /\ ev_pipe' = SubSeq(ev_pipe, Len(keys) + 1, Len(ev_pipe))
              /\ LoopExit(txLeft)
     \/ /\ LoopExit(tx_fifo)
        /\ UNCHANGED ev_pipe
  /\ UNCHANGED <<net_in, net_out, peer_open, reqs, recvd, awaited, replied,
                 node_data, freed, reply_node, hw_seen, ntx, state, main_pc>>

-----------------------------------------------------------------------------
(* The simulator thread.                                                   *)

\* pcie_glue_poll_rx_fifo pops the head node.  A write node is handed over
\* and freed.
SimPollWrite ==
  /\ main_pc = "run"
  /\ rx_fifo # <<>> /\ ~Head(rx_fifo).is_read
  /\ rx_fifo' = Tail(rx_fifo)
  /\ freed' = freed \cup {Head(rx_fifo).id}
  /\ hw_seen' = Append(hw_seen, Head(rx_fifo).id)
  /\ UNCHANGED <<net_in, net_out, peer_open, reqs, recvd, io_pc, awaited,
                 replied, node_data, reply_node, tx_fifo, ntx, ev_pipe, state,
                 main_pc>>

\* A read node becomes reply_node.  In the "should_not_occur" branch, a read
\* node arriving while reply_node is taken, the node is freed and the poll
\* reports nothing.
SimPollRead ==
  /\ main_pc = "run"
  /\ rx_fifo # <<>> /\ Head(rx_fifo).is_read
  /\ rx_fifo' = Tail(rx_fifo)
  /\ IF reply_node = NULL
     THEN /\ reply_node' = Head(rx_fifo).id
          /\ hw_seen' = Append(hw_seen, Head(rx_fifo).id)
          /\ UNCHANGED freed
     ELSE /\ freed' = freed \cup {Head(rx_fifo).id}
          /\ UNCHANGED <<reply_node, hw_seen>>
  /\ UNCHANGED <<net_in, net_out, peer_open, reqs, recvd, io_pc, awaited,
                 replied, node_data, tx_fifo, ntx, ev_pipe, state, main_pc>>

\* Mutant: pcie_glue_send_reply does not clear c->reply_node.
SimReplyKeepNode ==
  /\ main_pc = "run"
  /\ reply_node # NULL
  /\ node_data' = [node_data EXCEPT ![reply_node] = reply_node]
  /\ replied' = replied \cup {reply_node}
  /\ UNCHANGED <<net_in, net_out, peer_open, reqs, recvd, io_pc, awaited,
                 rx_fifo, freed, reply_node, hw_seen, tx_fifo, ntx, ev_pipe,
                 state, main_pc>>

\* pcie_glue_send_reply with the answer to the read the design was given:
\* clear reply_node, store the data, barrier, set is_replied.  (A reply with
\* reply_node = NULL is discarded and changes nothing.)
SimReply ==
  /\ main_pc = "run"
  /\ reply_node # NULL
  /\ node_data' = [node_data EXCEPT ![reply_node] = reply_node]
  /\ replied' = replied \cup {reply_node}
  /\ reply_node' = NULL
  /\ UNCHANGED <<net_in, net_out, peer_open, reqs, recvd, io_pc, awaited,
                 rx_fifo, freed, hw_seen, tx_fifo, ntx, ev_pipe, state,
                 main_pc>>

\* pcie_glue_send_msi / send_write / send_write_buf, first half:
\* alloc_write_node and fifo_push_node on tx_fifo.
SimSend ==
  /\ main_pc = "run"
  /\ ntx < MaxTx
  /\ tx_fifo' = Append(tx_fifo, ntx + 1)
  /\ ntx' = ntx + 1
  /\ main_pc' = "push_key"
  /\ UNCHANGED <<net_in, net_out, peer_open, reqs, recvd, io_pc, awaited,
                 rx_fifo, replied, node_data, freed, reply_node, hw_seen,
                 ev_pipe, state>>

\* Mutant: a send routine that does not write evk_push.
SimPushKeyMissing ==
  /\ main_pc = "push_key"
  /\ main_pc' = "run"
  /\ UNCHANGED <<net_in, net_out, peer_open, reqs, recvd, io_pc, awaited,
                 rx_fifo, replied, node_data, freed, reply_node, hw_seen,
                 tx_fifo, ntx, ev_pipe, state>>

\* Second half: write(ev_fds[1], &evk_push).
SimPushKey ==
  /\ main_pc = "push_key"
  /\ ev_pipe' = Append(ev_pipe, PUSH)
  /\ main_pc' = "run"
  /\ UNCHANGED <<net_in, net_out, peer_open, reqs, recvd, io_pc, awaited,
                 rx_fifo, replied, node_data, freed, reply_node, hw_seen,
                 tx_fifo, ntx, state>>

-----------------------------------------------------------------------------
(* main(): create, ghdl_main, join.                                        *)

\* pcie_glue_create_thread: spin while state == 0.
MainCreate ==
  /\ main_pc = "create"
  /\ state # 0
  /\ main_pc' = "run"
  /\ UNCHANGED <<net_in, net_out, peer_open, reqs, recvd, io_pc, awaited,
                 rx_fifo, replied, node_data, freed, reply_node, hw_seen,
                 tx_fifo, ntx, ev_pipe, state>>

\* ghdl_main returns; pcie_glue_join_thread sets state = 0 ...
MainJoinState ==
  /\ AllowJoin
  /\ main_pc = "run"
  /\ state' = 0
  /\ main_pc' = "join_quit"
  /\ UNCHANGED <<net_in, net_out, peer_open, reqs, recvd, io_pc, awaited,
                 rx_fifo, replied, node_data, freed, reply_node, hw_seen,
                 tx_fifo, ntx, ev_pipe>>

\* ... writes evk_quit ...
MainJoinQuit ==
  /\ main_pc = "join_quit"
  /\ ev_pipe' = Append(ev_pipe, QUIT)
  /\ main_pc' = "joining"
  /\ UNCHANGED <<net_in, net_out, peer_open, reqs, recvd, io_pc, awaited,
                 rx_fifo, replied, node_data, freed, reply_node, hw_seen,
                 tx_fifo, ntx, state>>

\* ... and pthread_join returns once thread_entry has returned.
MainJoined ==
  /\ main_pc = "joining"
  /\ io_pc = "exited"
  /\ main_pc' = "done"
  /\ UNCHANGED <<net_in, net_out, peer_open, reqs, recvd, io_pc, awaited,
                 rx_fifo, replied, node_data, freed, reply_node, hw_seen,
                 tx_fifo, ntx, ev_pipe, state>>

-----------------------------------------------------------------------------

Init ==
  /\ net_in = <<>>
  /\ net_out = <<>>
  /\ peer_open = TRUE
  /\ reqs = [i \in ReqIds |-> NULL]
  /\ recvd = <<>>
  /\ io_pc = "init"
  /\ awaited = NULL
  /\ rx_fifo = <<>>
  /\ replied = {}
  /\ node_data = [i \in ReqIds |-> NULL]
  /\ freed = {}
  /\ reply_node = NULL
  /\ hw_seen = <<>>
  /\ tx_fifo = <<>>
  /\ ntx = 0
  /\ ev_pipe = <<>>
  /\ state = 0
  /\ main_pc = "create"

BarsFor(op) == IF op \in MemOps THEN Bars ELSE {0}

IoStep ==
  \/ IoStart \/ IoEvent \/ IoRecvBarRead \/ IoRecvBarWrite
  \/ IoRecvSyncRead \/ IoRecvNoReply \/ IoReplyReady \/ IoRecvEof

SimStep ==
  \/ SimPollWrite \/ SimPollRead \/ SimReply
  \/ SimSend \/ SimPushKey

MainStep == MainCreate \/ MainJoinState \/ MainJoinQuit \/ MainJoined

PeerStep == (\E op \in ReqOps : \E bar \in BarsFor(op) : PeerSend(op, bar))
            \/ PeerClose

Next == IoStep \/ SimStep \/ MainStep \/ PeerStep

(***************************************************************************)
(* Fairness.  The IO thread is a dedicated pthread that always gets CPU    *)
(* time.  The simulator calls pcie_glue_poll_rx_fifo every simulation     *)
(* cycle, answers a read it was given, and finishes a send it started.    *)
(* Sending, joining and everything the peer does are free choices.        *)
(***************************************************************************)
Fairness ==
  /\ WF_vars(IoStart) /\ WF_vars(IoEvent) /\ WF_vars(IoReplyReady)
  /\ WF_vars(IoRecvBarRead \/ IoRecvBarWrite \/ IoRecvSyncRead \/ IoRecvNoReply)
  /\ WF_vars(IoRecvEof)
  /\ WF_vars(SimPollWrite) /\ WF_vars(SimPollRead)
  /\ WF_vars(SimReply) /\ WF_vars(SimPushKey)
  /\ WF_vars(MainCreate) /\ WF_vars(MainJoinQuit) /\ WF_vars(MainJoined)

Spec == Init /\ [][Next]_vars /\ Fairness

-----------------------------------------------------------------------------
(* Properties.                                                             *)

TypeOK ==
  /\ net_in \in Seq([id : ReqIds, op : ReqOps, bar : Bars \cup {0}])
  /\ \A i \in 1 .. Len(net_out) :
       \/ net_out[i] \in [kind : {"reply"}, id : ReqIds, val : ReqIds \cup {CfgData, Ones}]
       \/ net_out[i] \in [kind : {"msg"}, id : 1 .. MaxTx, val : {NULL}]
  /\ peer_open \in BOOLEAN
  /\ recvd \in Seq(ReqIds)
  /\ io_pc \in {"init", "select", "wait", "exited"}
  /\ awaited \in ReqIds \cup {NULL}
  /\ rx_fifo \in Seq([id : ReqIds, is_read : BOOLEAN])
  /\ replied \subseteq ReqIds /\ freed \subseteq ReqIds
  /\ node_data \in [ReqIds -> ReqIds \cup {NULL}]
  /\ reply_node \in ReqIds \cup {NULL}
  /\ hw_seen \in Seq(ReqIds)
  /\ tx_fifo \in Seq(1 .. MaxTx) /\ ntx \in 0 .. MaxTx
  /\ ev_pipe \in Seq({PUSH, QUIT})
  /\ state \in {0, 1}
  /\ main_pc \in {"create", "run", "push_key", "join_quit", "joining", "done"}

IsRead(id) == reqs[id].op \in ReadOps
IsBarAccess(id) == reqs[id].op \in MemOps /\ Active(reqs[id].bar)
IsReply(m) == m.kind = "reply"

\* The value the peer must get for read request id.
Expected(id) ==
  CASE reqs[id].op = "READ_MEM" /\ Active(reqs[id].bar) -> id
    [] reqs[id].op = "READ_CONFIG"                      -> CfgData
    [] OTHER                                            -> Ones

(***************************************************************************)
(* Every read request received gets one reply, in the order the requests   *)
(* were received, carrying the value answered for that request: the       *)
(* replies on the wire are the received reads minus the one on_bar_read   *)
(* is still waiting for (spec section 3, invariant 2).  It rests on        *)
(* on_bar_read waiting for is_replied before copying, on send_reply        *)
(* writing into the node the IO thread waits on, and on the IO thread      *)
(* sending the reply after both.                                          *)
(***************************************************************************)
RepliesInOrder ==
  LET rs == SelectSeq(net_out, IsReply)
      rd == SelectSeq(recvd, IsRead)
  IN /\ Len(rs) <= Len(rd)
     /\ \A i \in 1 .. Len(rs) : rs[i].id = rd[i] /\ rs[i].val = Expected(rd[i])
     /\ peer_open => Len(rs) = Len(rd) - (IF io_pc = "wait" THEN 1 ELSE 0)

(***************************************************************************)
(* The simulator sees the BAR accesses in the order the peer sent them,    *)
(* none lost or duplicated: what it polled, followed by what is still in   *)
(* rx_fifo, is exactly the received accesses to active BARs (while the IO  *)
(* thread runs; fifo_fini drops the queue at exit).  It fails if           *)
(* fifo_push_node or pcie_glue_poll_rx_fifo lose or reorder a node, or if  *)
(* the "should_not_occur" branch of the poll drops a read.                *)
(***************************************************************************)
AccessOrder ==
  io_pc # "exited" =>
    hw_seen \o [i \in 1 .. Len(rx_fifo) |-> rx_fifo[i].id]
      = SelectSeq(recvd, IsBarAccess)

(***************************************************************************)
(* No node is used after it is freed: the node on_bar_read spins on and    *)
(* the node pcie_glue_send_reply will write are both live.  The IO thread  *)
(* frees the read node after the reply; the poll frees write nodes and,    *)
(* in its "should_not_occur" branch, a read node.                          *)
(***************************************************************************)
NoUseAfterFree ==
  /\ io_pc = "wait" => awaited \notin freed
  /\ reply_node # NULL => reply_node \notin freed

(***************************************************************************)
(* When the IO thread has exited while the peer is still connected, every  *)
(* message the simulator sent (MSI, DMA write) has reached the peer: the   *)
(* PUSH key written after the push makes the drain before QUIT pick it up, *)
(* and fifo_fini frees nothing that was meant for the wire.                *)
(***************************************************************************)
Delivered(t) == \E i \in 1 .. Len(net_out) : net_out[i] = TxMsg(t)

NoTxLostOnQuit ==
  (io_pc = "exited" /\ peer_open) => \A t \in 1 .. ntx : Delivered(t)

\* ghdl_main has not returned: the simulator thread still polls and answers.
SimRunning == main_pc \in {"create", "run"}

(***************************************************************************)
(* Data crosses the bridge intact.  Once the simulator has polled a host   *)
(* WRITE_MEM, the bytes of any such write of width 1, 2 or 4 reach its     *)
(* data port as their little-endian value (pcie_glue_poll_rx_fifo); once   *)
(* a reply the simulator gave has reached the peer, any value on the reply *)
(* port comes back as its low width bytes, little endian, zero above       *)
(* (pcie_glue_send_reply, on_bar_read, on_msg_recv).  The values are     *)
(* quantified in GlueCodec; the access ids of this module say that the    *)
(* path was taken.                                                         *)
(***************************************************************************)
WriteDataDelivered ==
  (\E k \in 1 .. Len(hw_seen) : reqs[hw_seen[k]].op = "WRITE_MEM") => WriteCodecOk

ReadDataDelivered ==
  (\E i \in 1 .. Len(net_out) :
     IsReply(net_out[i]) /\ net_out[i].id \in Range(hw_seen)) => ReadCodecOk

(***************************************************************************)
(* Every read request sent to a connected peer is eventually answered      *)
(* while the simulation runs.  It needs the simulator to keep polling and  *)
(* answering, and the IO thread to leave its spin and go back to select.   *)
(***************************************************************************)
Answered(id) == \E i \in 1 .. Len(net_out) : IsReply(net_out[i]) /\ net_out[i].id = id

ReadsAnswered ==
  \A id \in ReqIds :
    (reqs[id] # NULL /\ reqs[id].op \in ReadOps)
      ~> (Answered(id) \/ ~peer_open \/ ~SimRunning)

(***************************************************************************)
(* Every message the simulator sends eventually reaches the connected      *)
(* peer while the simulation runs (NoTxLostOnQuit covers the exit): the    *)
(* PUSH key is written after the node is pushed, so some drain comes after *)
(* the push.                                                               *)
(***************************************************************************)
TxDelivered ==
  \A t \in 1 .. MaxTx : (ntx >= t) ~> (Delivered(t) \/ ~peer_open \/ ~SimRunning)

(***************************************************************************)
(* Once main has written QUIT and waits in pthread_join, the join          *)
(* returns (spec 4.3: the loop exits cleanly when QUIT is received).       *)
(***************************************************************************)
JoinTerminates == main_pc = "joining" ~> main_pc = "done"

(***************************************************************************)
(* The bridge implements BarChannel: seen from the socket, the two threads *)
(* and the fifos between them behave as one endpoint that takes requests  *)
(* in order, blocks on a BAR read until the design answers it, answers    *)
(* every read with its own value, and sends the device's messages in the  *)
(* order they were created.  The read being served is the node on_bar_read *)
(* spins on.                                                               *)
(***************************************************************************)
Chan == INSTANCE BarChannel
          WITH inq <- net_in, taken <- recvd,
               wait <- IF io_pc = "wait" THEN awaited ELSE NULL,
               out <- net_out, open <- peer_open

ImplementsBarChannel == Chan!Spec

=============================================================================
