---------------------------- MODULE SocketSender ----------------------------
(***************************************************************************)
(* The connection to the control process: the bounded send queue           *)
(* (src/common/ThreadSafeQueue.h), the send and the receive thread that    *)
(* share one socket (src/ipc/SocketSender.cpp), and the client on top of   *)
(* them, which numbers messages and acknowledges configurations            *)
(* (src/ipc/IpcClient.cpp).                                                *)
(*                                                                         *)
(* Frame n arrives as Size(n) pieces <<n, 1>>, <<n, 2>>, ...: the magic    *)
(* number, the length, and as many pieces of payload as the length says.   *)
(* Each piece is read by a recv() of its own, so a payload begun on one    *)
(* connection may go on with the pieces of the next one.  A frame is       *)
(* written in two pieces, <<m, 1>> and <<m, 2>>: a first part and the      *)
(* rest.  A descriptor is a number that the kernel may give out again once *)
(* it is closed, so the number a thread has read from fd_ and the          *)
(* connection it then uses are two things.                                 *)
(***************************************************************************)
EXTENDS Integers, Sequences, FiniteSets

CONSTANTS Producers,    \* threads that push alarms and heartbeats
          QueueSize,    \* send_queue_size
          MaxMessages,  \* bound: alarms and heartbeats pushed
          MaxFrames,    \* bound: configuration frames the peer sends
          PayloadLen,   \* PayloadLen[n]: pieces of the payload of frame n
          MaxFaults     \* bound: closes by the peer and failures of connect and send

ASSUME SenderAssumption ==
    /\ QueueSize \in Nat \ {0} /\ MaxMessages \in Nat /\ MaxFrames \in Nat /\ MaxFaults \in Nat
    /\ PayloadLen \in [1 .. MaxFrames -> Nat \ {0}]

VARIABLES
    queue,      \* queue_: sequence numbers of the messages to send
    qStopped,   \* stopped_ of the queue
    dropped,    \* drop_count_
    accepted,   \* the messages push() has taken so far, in order
    nextSeq,    \* seq_
    producer,   \* producer[p]: the number p has taken and not yet pushed, or NoSeq
    fd,         \* fd_ as an index of conn, 0 for -1; connected_ is fd # 0
    conn,       \* the connections made so far
    sender,     \* [pc, item, piece, used] of the send thread
    receiver,   \* [pc, got, used, on, ack] of the receive thread
    sent,       \* sent_count_
    failed,     \* failed_count_
    stopper,    \* progress of SocketSender::stop
    listening,  \* the peer accepts connections
    carrier,    \* carrier[n]: the connection the peer sent configuration frame n on
    delivered,  \* the configurations handed to the pipeline
    swallowed,  \* history: the frames with a piece read into the payload of a frame
                \* of another connection
    faults      \* closes and failures so far

queueVars == <<queue, qStopped, dropped, accepted>>
socketVars == <<fd, conn>>
countVars == <<sent, failed>>
peerVars == <<listening, carrier, faults>>
appVars == <<nextSeq, producer, delivered, swallowed>>
envVars == <<stopper, peerVars>>
vars == <<queueVars, appVars, socketVars, sender, receiver, countVars, envVars>>

NoSeq == -1
MaxSeq == MaxMessages + MaxFrames
Seqs == 0 .. MaxSeq - 1
Frames == 1 .. MaxFrames
Size(m) == 2 + PayloadLen[m]
Pieces(m) == [p \in 1 .. Size(m) |-> <<m, p>>]

SenderPcs == {"top", "test", "connect", "store", "pop", "fetch", "send", "disconnect", "exited"}
ReceiverPcs == {"top", "test", "fetch", "recv", "blocked", "deliver", "ack", "fail", "drop",
                "exited"}
StopperPcs == {"up", "queue", "disconnect", "join", "stopped"}

TypeOK ==
    /\ queue \in Seq(Seqs) /\ Len(queue) <= QueueSize
    /\ qStopped \in BOOLEAN
    /\ dropped \in 0 .. MaxSeq
    /\ accepted \in Seq(Seqs)
    /\ nextSeq \in 0 .. MaxSeq
    /\ producer \in [Producers -> Seqs \cup {NoSeq}]
    /\ fd \in 0 .. Len(conn)
    /\ conn \in Seq([open : BOOLEAN, peerOpen : BOOLEAN,
                     out : Seq(Seqs \X (1 .. 2)), in : Seq(Frames \X Nat)])
    /\ sender \in [pc : SenderPcs, item : Seqs \cup {NoSeq}, piece : 1 .. 2,
                   used : 0 .. Len(conn)]
    /\ receiver \in [pc : ReceiverPcs, got : Seq(Frames \X Nat), used : 0 .. Len(conn),
                     on : 0 .. Len(conn), ack : Seqs \cup {NoSeq}]
    /\ sent \in 0 .. MaxSeq /\ failed \in 0 .. MaxSeq
    /\ stopper \in StopperPcs
    /\ listening \in BOOLEAN
    /\ carrier \in Seq(1 .. Len(conn)) /\ Len(carrier) <= MaxFrames
    /\ delivered \in Seq(Frames) /\ swallowed \subseteq Frames
    /\ faults \in 0 .. MaxFaults

(* The states of the two threads and of a connection. *)
SenderState(pc, item, piece, used) == [pc |-> pc, item |-> item, piece |-> piece, used |-> used]
SenderAt(pc) == SenderState(pc, NoSeq, 1, 0)
SenderTop == SenderAt("top")

ReceiverState(pc, got, used, on, ack) ==
    [pc |-> pc, got |-> got, used |-> used, on |-> on, ack |-> ack]
ReceiverHolds(pc, got) == ReceiverState(pc, got, 0, 0, NoSeq)
ReceiverTop == ReceiverHolds("top", <<>>)
ReceiverFailed == ReceiverHolds("fail", <<>>)

Link(open, peerOpen, out, in) == [open |-> open, peerOpen |-> peerOpen, out |-> out, in |-> in]

Init ==
    /\ queue = <<>> /\ qStopped = FALSE /\ dropped = 0 /\ accepted = <<>>
    /\ nextSeq = 0
    /\ producer = [p \in Producers |-> NoSeq]
    /\ fd = 0 /\ conn = <<>>
    /\ sender = SenderTop
    /\ receiver = ReceiverTop
    /\ sent = 0 /\ failed = 0
    /\ stopper = "up"
    /\ listening \in BOOLEAN /\ carrier = <<>> /\ faults = 0
    /\ delivered = <<>> /\ swallowed = {}

StopFlag == stopper # "up"
Connected == fd # 0

-----------------------------------------------------------------------------
(* ThreadSafeQueue. *)

(* Faulty variants: a full queue grows; a full queue drops the new element and
   keeps the old ones. *)
PushUnbounded(m) ==
    /\ IF qStopped THEN UNCHANGED <<queue, dropped, accepted>>
       ELSE queue' = Append(queue, m) /\ accepted' = Append(accepted, m) /\ UNCHANGED dropped
    /\ UNCHANGED qStopped

PushDropsNewest(m) ==
    /\ IF qStopped THEN UNCHANGED <<queue, dropped, accepted>>
       ELSE /\ queue' = IF Len(queue) >= QueueSize THEN queue ELSE Append(queue, m)
            /\ dropped' = IF Len(queue) >= QueueSize THEN dropped + 1 ELSE dropped
            /\ accepted' = Append(accepted, m)
    /\ UNCHANGED qStopped

(* push(): a stopped queue refuses, a full one drops its oldest element. *)
Push(m) ==
    /\ IF qStopped
       THEN UNCHANGED <<queue, dropped, accepted>>
       ELSE /\ queue' = Append(IF Len(queue) >= QueueSize THEN Tail(queue) ELSE queue, m)
            /\ dropped' = IF Len(queue) >= QueueSize THEN dropped + 1 ELSE dropped
            /\ accepted' = Append(accepted, m)
    /\ UNCHANGED qStopped

-----------------------------------------------------------------------------
(* IpcClient on a thread of the pipeline: pushAlarm and pushHeartbeat number the
   message and push it in two steps, so numbers may be queued out of order. *)

TakeSeq(p) ==
    /\ stopper = "up" /\ producer[p] = NoSeq
    /\ nextSeq - Len(delivered) < MaxMessages
    /\ producer' = [producer EXCEPT ![p] = nextSeq]
    /\ nextSeq' = nextSeq + 1
    /\ UNCHANGED <<queueVars, socketVars, sender, receiver, countVars, envVars, delivered,
                   swallowed>>

PushMessage(p) ==
    /\ producer[p] # NoSeq
    /\ Push(producer[p])
    /\ producer' = [producer EXCEPT ![p] = NoSeq]
    /\ UNCHANGED <<nextSeq, socketVars, sender, receiver, countVars, envVars, delivered,
                   swallowed>>

-----------------------------------------------------------------------------
(* The socket. *)

(* The connections a call may reach with the descriptor of connection i: none, that
   is EBADF, if it has been closed, or another one that was given the same number. *)
Reached(i) == IF conn[i].open THEN {i} ELSE {0} \cup {j \in DOMAIN conn : conn[j].open}

(* disconnectSocket(), whichever connection fd_ stands for by now; what has not been
   read from it is lost. *)
DisconnectSocket ==
    /\ conn' = IF fd = 0 THEN conn ELSE [conn EXCEPT ![fd] = Link(FALSE, @.peerOpen, @.out, <<>>)]
    /\ fd' = 0

Fault == faults < MaxFaults /\ faults' = faults + 1

-----------------------------------------------------------------------------
(* The send thread: sendLoop. *)

SenderGoto(from, to) == sender.pc = from /\ sender' = [sender EXCEPT !.pc = to]

SendLoopTop ==
    /\ SenderGoto("top", IF StopFlag THEN "exited" ELSE "test")
    /\ UNCHANGED <<queueVars, appVars, socketVars, receiver, countVars, envVars>>

TestConnected ==
    /\ SenderGoto("test", IF Connected THEN "pop" ELSE "connect")
    /\ UNCHANGED <<queueVars, appVars, socketVars, receiver, countVars, envVars>>

(* connectSocket(): connect() succeeds; fd_ is not set yet. *)
ConnectSucceeds ==
    /\ SenderGoto("connect", "store")
    /\ listening
    /\ conn' = Append(conn, Link(TRUE, TRUE, <<>>, <<>>))
    /\ UNCHANGED <<queueVars, appVars, fd, receiver, countVars, envVars>>

(* Faulty variant: the loop is left. *)
ConnectGivesUp ==
    /\ SenderGoto("connect", "exited")
    /\ \/ ~listening /\ UNCHANGED faults
       \/ Fault
    /\ UNCHANGED <<queueVars, appVars, socketVars, receiver, countVars, stopper, listening, carrier>>

(* The wait that follows ends in time, at the latest with stop(). *)
ConnectFails ==
    /\ SenderGoto("connect", "top")
    /\ \/ ~listening /\ UNCHANGED faults
       \/ Fault
    /\ UNCHANGED <<queueVars, appVars, socketVars, receiver, countVars, stopper, listening, carrier>>

StoreFd ==
    /\ SenderGoto("store", "pop")
    /\ fd' = Len(conn)
    /\ UNCHANGED <<queueVars, appVars, conn, receiver, countVars, envVars>>

(* pop() with a message; a stopped queue still gives out what it holds. *)
PopItem ==
    /\ sender.pc = "pop"
    /\ queue # <<>>
    /\ sender' = SenderState("fetch", Head(queue), 1, 0)
    /\ queue' = Tail(queue)
    /\ UNCHANGED <<qStopped, dropped, accepted, appVars, socketVars, receiver, countVars, envVars>>

(* pop() without one: stopped, or the time is up. *)
PopNothing ==
    /\ SenderGoto("pop", "top")
    /\ queue = <<>>
    /\ UNCHANGED <<queueVars, appVars, socketVars, receiver, countVars, envVars>>

(* writeAll(): the number is read under fd_mutex_, send() is called without it. *)
WriteFetch ==
    /\ sender.pc = "fetch" /\ Connected
    /\ sender' = SenderState("send", sender.item, sender.piece, fd)
    /\ UNCHANGED <<queueVars, appVars, socketVars, receiver, countVars, envVars>>

WriteSucceeds ==
    /\ sender.pc = "send"
    /\ \E i \in Reached(sender.used) \ {0} :
       /\ conn[i].peerOpen
       /\ conn' = [conn EXCEPT ![i] = Link(@.open, @.peerOpen,
                                           Append(@.out, <<sender.item, sender.piece>>), @.in)]
    /\ IF sender.piece = 2
       THEN sender' = SenderTop /\ sent' = sent + 1
       ELSE sender' = SenderState("fetch", sender.item, 2, 0) /\ UNCHANGED sent
    /\ UNCHANGED <<queueVars, appVars, fd, receiver, failed, envVars>>

(* sendRaw() gives up: no connection, a closed one, or another error of send(). *)
WriteFails ==
    /\ \/ sender.pc = "fetch" /\ ~Connected /\ UNCHANGED faults
       \/ /\ sender.pc = "send"
          /\ \/ /\ \E i \in Reached(sender.used) : i # 0 => ~conn[i].peerOpen
                /\ UNCHANGED faults
             \/ Fault
    /\ sender' = SenderAt("disconnect")
    /\ failed' = failed + 1
    /\ UNCHANGED <<queueVars, appVars, socketVars, receiver, sent, stopper, listening, carrier>>

(* Faulty variant: the connection is kept after a failed write. *)
SenderKeepsSocket ==
    /\ sender.pc = "disconnect"
    /\ sender' = SenderTop
    /\ UNCHANGED <<queueVars, appVars, socketVars, receiver, countVars, envVars>>

SenderDisconnect ==
    /\ sender.pc = "disconnect"
    /\ DisconnectSocket
    /\ sender' = SenderTop
    /\ UNCHANGED <<queueVars, appVars, receiver, countVars, envVars>>

-----------------------------------------------------------------------------
(* The receive thread: recvLoop. *)

ReceiverGoto(from, to) == receiver.pc = from /\ receiver' = [receiver EXCEPT !.pc = to]

RecvLoopTop ==
    /\ ReceiverGoto("top", IF StopFlag THEN "exited" ELSE "test")
    /\ UNCHANGED <<queueVars, appVars, socketVars, sender, countVars, envVars>>

(* Not connected: sleep and look again. *)
RecvTestConnected ==
    /\ ReceiverGoto("test", IF Connected THEN "fetch" ELSE "top")
    /\ UNCHANGED <<queueVars, appVars, socketVars, sender, countVars, envVars>>

(* readAll() reads fd_ under the mutex before every recv(). *)
ReadFetch ==
    /\ receiver.pc = "fetch"
    /\ receiver' = IF Connected THEN ReceiverState("recv", receiver.got, fd, 0, NoSeq)
                   ELSE ReceiverFailed
    /\ UNCHANGED <<queueVars, appVars, socketVars, sender, countVars, envVars>>

(* recv() enters the kernel with the number: from now on it is bound to the
   connection the number stands for. *)
RecvEnter ==
    /\ receiver.pc = "recv"
    /\ \E i \in Reached(receiver.used) :
          receiver' = IF i = 0 THEN ReceiverFailed
                      ELSE ReceiverState("blocked", receiver.got, 0, i, NoSeq)
    /\ UNCHANGED <<queueVars, appVars, socketVars, sender, countVars, envVars>>

HeaderOk(got) == got[1][2] = 1 /\ got[2][2] = 2
Whole(got) == Len(got) > 2 /\ Len(got) = Size(got[2][1])

(* Faulty variant: a header that is not one is skipped. *)
SkipBadHeader(got) ==
    IF Len(got) = 2 /\ ~HeaderOk(got) THEN ReceiverTop
    ELSE ReceiverHolds(IF Whole(got) THEN "deliver" ELSE "fetch", got)

(* What the thread does with the pieces read so far: once both are there, the magic
   number and the range of the length are tested; anything else in their place fails.
   The payload is complete when as much has been read as the length says. *)
AfterPiece(got) ==
    IF Len(got) = 2 /\ ~HeaderOk(got) THEN ReceiverFailed
    ELSE ReceiverHolds(IF Whole(got) THEN "deliver" ELSE "fetch", got)

(* recv() returns the next piece, whatever connection it is from. *)
RecvData ==
    /\ receiver.pc = "blocked"
    /\ LET i == receiver.on IN
       /\ conn[i].open /\ conn[i].in # <<>>
       /\ conn' = [conn EXCEPT ![i] = Link(@.open, @.peerOpen, @.out, Tail(@.in))]
       /\ receiver' = AfterPiece(Append(receiver.got, Head(conn[i].in)))
       /\ swallowed' = IF Len(receiver.got) >= 2 /\ carrier[receiver.got[2][1]] # i
                       THEN swallowed \cup {Head(conn[i].in)[1]} ELSE swallowed
    /\ UNCHANGED <<queueVars, nextSeq, producer, delivered, fd, sender, countVars, envVars>>

(* recv() returns 0: shut down by disconnectSocket(), or closed by the peer. *)
RecvEnd ==
    /\ receiver.pc = "blocked"
    /\ LET i == receiver.on IN ~conn[i].open \/ (conn[i].in = <<>> /\ ~conn[i].peerOpen)
    /\ receiver' = ReceiverFailed
    /\ UNCHANGED <<queueVars, appVars, socketVars, sender, countVars, envVars>>

(* A failed read: the flag is tested, then the socket is closed. *)
ReceiverFails ==
    /\ ReceiverGoto("fail", IF StopFlag THEN "top" ELSE "drop")
    /\ UNCHANGED <<queueVars, appVars, socketVars, sender, countVars, envVars>>

ReceiverDisconnect ==
    /\ ReceiverGoto("drop", "top")
    /\ DisconnectSocket
    /\ UNCHANGED <<queueVars, appVars, sender, countVars, envVars>>

(* onRecv() and handleConfig().  A payload with pieces of another connection does not
   parse and is left at that.  The configuration goes to the pipeline, then the acknowledgement is
   numbered. *)
OnRecv ==
    /\ receiver.pc = "deliver"
    /\ LET n == receiver.got[2][1] IN
       IF \E j \in 3 .. Len(receiver.got) : receiver.got[j] # <<n, j>>
       THEN receiver' = ReceiverTop /\ UNCHANGED <<delivered, nextSeq>>
       ELSE /\ delivered' = Append(delivered, n)
            /\ receiver' = ReceiverState("ack", <<>>, 0, 0, nextSeq)
            /\ nextSeq' = nextSeq + 1
    /\ UNCHANGED <<queueVars, producer, swallowed, socketVars, sender, countVars, envVars>>

PushAck ==
    /\ receiver.pc = "ack"
    /\ Push(receiver.ack)
    /\ receiver' = ReceiverTop
    /\ UNCHANGED <<appVars, socketVars, sender, countVars, envVars>>

-----------------------------------------------------------------------------
(* SocketSender::stop, on the main thread; Pipeline::stop has joined the threads
   that push messages before. *)

StopperGoto(from, to) == stopper = from /\ stopper' = to

SetStopFlag ==
    /\ StopperGoto("up", "queue")
    /\ \A p \in Producers : producer[p] = NoSeq
    /\ UNCHANGED <<queueVars, appVars, socketVars, sender, receiver, countVars, peerVars>>

StopQueue ==
    /\ StopperGoto("queue", "disconnect")
    /\ qStopped' = TRUE
    /\ UNCHANGED <<queue, dropped, accepted, appVars, socketVars, sender, receiver, countVars,
                   peerVars>>

StopDisconnect ==
    /\ StopperGoto("disconnect", "join")
    /\ DisconnectSocket
    /\ UNCHANGED <<queueVars, appVars, sender, receiver, countVars, peerVars>>

JoinThreads ==
    /\ StopperGoto("join", "stopped")
    /\ receiver.pc = "exited" /\ sender.pc = "exited"
    /\ UNCHANGED <<queueVars, appVars, socketVars, sender, receiver, countVars, peerVars>>

-----------------------------------------------------------------------------
(* The peer, from what the code expects of it: it comes and goes, sends whole
   configuration frames, and may close with part of its data unsent. *)

(* Whether the peer listens only matters while the send thread wants to connect. *)
PeerListens ==
    /\ sender.pc = "connect"
    /\ listening' = ~listening
    /\ UNCHANGED <<queueVars, appVars, socketVars, sender, receiver, countVars, stopper, carrier,
                   faults>>

PeerSends(i) ==
    /\ conn[i].open /\ conn[i].peerOpen
    /\ Len(carrier) < MaxFrames
    /\ carrier' = Append(carrier, i)
    /\ conn' = [conn EXCEPT ![i] = Link(TRUE, TRUE, @.out, @.in \o Pieces(Len(carrier) + 1))]
    /\ UNCHANGED <<queueVars, appVars, fd, sender, receiver, countVars, stopper, listening, faults>>

PeerCloses(i) ==
    /\ conn[i].open /\ conn[i].peerOpen
    /\ Fault
    /\ \E k \in 0 .. Len(conn[i].in) :
          conn' = [conn EXCEPT ![i] = Link(TRUE, FALSE, @.out, SubSeq(@.in, 1, k))]
    /\ UNCHANGED <<queueVars, appVars, fd, sender, receiver, countVars, stopper, listening, carrier>>

-----------------------------------------------------------------------------
Producer(p) == TakeSeq(p) \/ PushMessage(p)

SendThread ==
    \/ SendLoopTop \/ TestConnected \/ ConnectSucceeds \/ ConnectFails \/ StoreFd
    \/ PopItem \/ PopNothing
    \/ WriteFetch \/ WriteSucceeds \/ WriteFails \/ SenderDisconnect

ReceiveThread ==
    \/ RecvLoopTop \/ RecvTestConnected \/ ReadFetch \/ RecvEnter \/ RecvData \/ RecvEnd
    \/ ReceiverFails \/ ReceiverDisconnect \/ OnRecv \/ PushAck

StopProgress == StopQueue \/ StopDisconnect \/ JoinThreads

Peer == PeerListens \/ \E i \in DOMAIN conn : PeerSends(i) \/ PeerCloses(i)

Next ==
    \/ \E p \in Producers : Producer(p)
    \/ SendThread
    \/ ReceiveThread
    \/ SetStopFlag
    \/ StopProgress
    \/ Peer

Spec == Init /\ [][Next]_vars

(* What the send thread does by itself.  connect() and send() have no time limit: they
   return when the peer refuses or closes or the socket is shut down, and otherwise
   wait for the peer to accept or to read. *)
SendCompute ==
    \/ SendLoopTop \/ TestConnected \/ StoreFd
    \/ PopItem \/ PopNothing
    \/ WriteFetch \/ SenderDisconnect
    \/ (ConnectFails \/ WriteFails) /\ faults' = faults

(* Threads are scheduled fairly, and recv() returns when there is data or the
   connection is shut down.  Nothing is assumed of the peer. *)
FairSpec == Spec /\ WF_vars(SendCompute) /\ WF_vars(ReceiveThread) /\ WF_vars(StopProgress)

-----------------------------------------------------------------------------
(* Properties. *)

(* The place of a message in the order push() accepted them. *)
Position(m) == CHOOSE k \in DOMAIN accepted : accepted[k] = m

(* What the peer can read is framed: on every connection whole messages follow each
   other, only the last may be cut short, and over all connections each message
   appears at most once, in the order of the queue, although writes fail half-way
   and the receive thread closes connections under the send thread. *)
OutgoingFramed ==
    /\ \A i \in DOMAIN conn : \A k \in DOMAIN conn[i].out :
          /\ conn[i].out[k][2] = ((k - 1) % 2) + 1
          /\ conn[i].out[k][2] > 1 => conn[i].out[k][1] = conn[i].out[k - 1][1]
    /\ \A i, j \in DOMAIN conn : \A k \in DOMAIN conn[i].out, l \in DOMAIN conn[j].out :
          conn[i].out[k][2] = 1 /\ conn[j].out[l][2] = 1 /\ (i < j \/ (i = j /\ k < l))
              => Position(conn[i].out[k][1]) < Position(conn[j].out[l][1])

(* The message in the hands of the send thread and not yet counted. *)
InHand == IF sender.pc \in {"fetch", "send"} THEN 1 ELSE 0

(* The counters account for every message the queue has taken, and what waits is
   always the newest of them: an overflow costs the oldest messages only. *)
Accounted ==
    /\ Len(accepted) = sent + failed + dropped + Len(queue) + InHand
    /\ queue = SubSeq(accepted, Len(accepted) - Len(queue) + 1, Len(accepted))

(* The receive thread waits for the peer, with nothing to read. *)
Drained(i) ==
    /\ receiver.pc = "blocked" /\ receiver.on = i
    /\ conn[i].open /\ conn[i].peerOpen /\ conn[i].in = <<>>

(* On a connection that lives a configuration is lost in one way only.  When the
   receive thread has read all the peer has sent on this connection, every frame of
   it has been handed to the pipeline, or a payload the thread had begun on an earlier
   connection has taken pieces of it.  Such a payload may take whole frames and leave
   the thread in step with the connection, which then lives on without them; a frame
   lost in any other way, a bad header among them, costs the connection, so that the
   peer notices. *)
IncomingNotLost ==
    \A n \in DOMAIN carrier :
        Drained(carrier[n]) => n \in swallowed \/ \E k \in DOMAIN delivered : delivered[k] = n

(* No call of connect() or send() waits for the peer for ever. *)
PeerServes == []<>(sender.pc # "connect") /\ []<>(sender.pc # "send")

(* If from some time on the peer is there, accepts and reads, then, unless the client
   is stopped, the connection comes back and stays once the faults have ended, and the
   queue is emptied again and again, however a connection was lost, whichever thread
   closed it and whatever was half read or half written.  A peer that stops reading
   without closing may hold the send thread for ever. *)
QueueServed ==
    <>[]listening /\ PeerServes => <>StopFlag \/ (<>[]Connected /\ []<>(queue = <<>>))
=============================================================================
